------------------------------- MODULE CpmDisk -------------------------------
(* What the disk controller of CP/Mega88 promises to a CP/M program: a disk  *)
(* of independent sectors behind a few registers.  A command acts on the     *)
(* selected sector and on nothing else, and reports how it went; a restart   *)
(* may take back the last sector written, and no more than that.             *)
EXTENDS Naturals

CONSTANTS Sectors,      \* the <<drive, track, sector>> addresses in use
          Pages,        \* the 128-byte memory areas a transfer can use
          Value         \* the contents a sector or an area can have

VARIABLES disk,         \* sector -> its contents, as a program reads them
          medium,       \* sector -> its contents, as the next start finds them
          mem,          \* area -> its contents
          sel,          \* the selected <<drive, track, sector>>
          dma,          \* the selected area
          status,       \* result of the last command
          prot          \* non-zero while writes are refused

vars == <<disk, medium, mem, sel, dma, status, prot>>

OK == 0
NoDrive == 1
IoError == 6
Refused == 7

Init ==
  /\ disk \in [Sectors -> Value]
  /\ medium = disk
  /\ mem \in [Pages -> Value]
  /\ sel = <<0, 0, 0>>
  /\ dma = <<0, 0>>
  /\ status = OK
  /\ prot = 0

Select ==
  /\ \E i \in 1..3 : sel' = [sel EXCEPT ![i] = sel'[i]]
  /\ UNCHANGED <<disk, medium, mem, dma, status, prot>>

SelectArea ==
  /\ \E i \in 1..2 : dma' = [dma EXCEPT ![i] = dma'[i]]
  /\ UNCHANGED <<disk, medium, mem, sel, status, prot>>

(* A program stores into an area. *)
Poke ==
  /\ \E p \in Pages, v \in Value : mem' = [mem EXCEPT ![p] = v]
  /\ UNCHANGED <<disk, medium, sel, dma, status, prot>>

Protect ==
  /\ prot' \in {0, 1}
  /\ UNCHANGED <<disk, medium, mem, sel, dma, status>>

(* Earlier writes may reach the medium at any time. *)
Sync ==
  /\ medium' = disk
  /\ UNCHANGED <<disk, mem, sel, dma, status, prot>>

Read ==
  /\ sel \in Sectors
  /\ mem' = [mem EXCEPT ![dma] = disk[sel]]
  /\ status' = OK
  /\ medium' \in {medium, disk}
  /\ UNCHANGED <<disk, sel, dma, prot>>

(* An acknowledged write changes its sector; a failed one may have. *)
Write ==
  /\ sel \in Sectors
  /\ prot = 0
  /\ LET written == [disk EXCEPT ![sel] = mem[dma]] IN
     \/ status' = OK      /\ disk' = written
     \/ status' = IoError /\ disk' \in {disk, written}
  /\ medium' \in {disk, disk'}
  /\ UNCHANGED <<mem, sel, dma, prot>>

Refuse ==
  /\ \/ sel \in Sectors /\ status' = Refused
     \/ sel[1] \notin {0, 8} /\ status' = NoDrive
  /\ medium' \in {medium, disk}
  /\ UNCHANGED <<disk, mem, sel, dma, prot>>

(* The emulator starts again; what was only in its memory may be gone. *)
Restart ==
  /\ disk' \in {disk, medium}
  /\ medium' = disk'
  /\ mem' \in [Pages -> Value]
  /\ \/ UNCHANGED <<sel, dma, status, prot>>
     \/ sel' = <<0, 0, 0>> /\ dma' = <<0, 0>> /\ status' = OK /\ prot' = 0

Next ==
  \/ Select \/ SelectArea \/ Poke \/ Protect \/ Sync
  \/ Read \/ Write \/ Refuse \/ Restart

Spec == Init /\ [][Next]_vars

(* What a restart can take back is the contents of one sector: the medium is *)
(* never behind by two sectors.                                              *)
LagsByOneSector ==
  \A s, t \in Sectors : medium[s] # disk[s] /\ medium[t] # disk[t] => s = t
==============================================================================
