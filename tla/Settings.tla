------------------------------- MODULE Settings -------------------------------
(* The settings the monitor keeps in the EEPROM: the automatic boot (a) and  *)
(* the name of the mounted image (mount, machine_boot of machine.c), on the  *)
(* three kinds of EEPROM: the AVR's own (eeprom_avr.c), the image file of    *)
(* POSIX (eeprom_image.c over eeprom_posix.c), and the image that UEFI and   *)
(* U-Boot load with 0 bytes at every access (eeprom_uefi.c, eeprom_uboot.c). *)
(* Between any two writes of a byte the power of the AVR may fail, or the    *)
(* process be killed; on the AVR an interrupt may make the hardware drop a   *)
(* write.  The array of eeprom_espidf.c, which is never saved, is left out.  *)
EXTENDS Integers, Sequences

CONSTANTS
  Size,            \* cells; machine_boot clears all of them (256 in the code)
  MountNames,      \* names given to m: sequences of characters
  Backends         \* subset of {"avr", "posix", "refill"}

Mark == 136        \* 0x88
Blank == 255
Byte == 0..255
Cells == 0..Size - 1
InitCell == 0      \* addresses the code uses, without the gaps between them
AutoCell == 1      \* 8
NameCell == 2      \* 16

SettingsAssumption ==
  /\ Size \in Nat /\ Size <= 256
  /\ MountNames \subseteq Seq(1..127) \ {<<>>}
  /\ \A n \in MountNames : NameCell + Len(n) + 1 < Size
  /\ NameCell < Size
  /\ Backends \subseteq {"avr", "posix", "refill"}

VARIABLES
  backend,         \* of the build
  file, exists,    \* what is stored; whether the image file is there
  buffer, loaded,  \* eeprom_image.c
  busy,            \* avr: <<cell, old contents>> being programmed, or <<>>
  mode,            \* "off", "loading" in machine_boot, or "prompt"
  job, arg, step,  \* the writes under way and the number of those done
  want,            \* the automatic boot last asked for, or found
  okAuto, okName,  \* the settings a boot may find (<<>>: no image)
  dropped          \* avr: an interrupt came into a timed write

ram == <<buffer, loaded>>
ok == <<okAuto, okName>>
build == <<backend, dropped>>
vars == <<backend, dropped, file, exists, ram, busy, mode, job, arg, step, want, ok>>

AllBlank == [c \in Cells |-> Blank]

-----------------------------------------------------------------------------
(* eeprom_read and eeprom_write. *)

(* The cells as an access sees them: eeprom_load reads the image file at the *)
(* first access (a new one is empty), or never gives a byte.                 *)
Contents ==
  CASE backend = "avr" -> file
    [] backend = "refill" -> AllBlank
    [] backend = "posix" /\ loaded -> buffer
    [] backend = "posix" /\ ~ loaded -> IF exists THEN file ELSE AllBlank

Read ==
  /\ busy = <<>>
  /\ buffer' = Contents
  /\ loaded' = TRUE

(* Mutation: the image stays in a stdio buffer. *)
WriteBuffered(c, v) ==
  /\ busy = <<>> /\ UNCHANGED <<file, busy, dropped>>
  /\ buffer' = [Contents EXCEPT ![c] = v] /\ loaded' = TRUE /\ exists' = TRUE

(* The write goes to the image file at once (fflush).  The AVR goes on while *)
(* it programs the cell, and drops a write whose last two instructions an    *)
(* interrupt has parted.                                                     *)
Write(c, v) ==
  /\ busy = <<>>
  /\ \/ /\ file' = [Contents EXCEPT ![c] = v]
        /\ busy' = IF backend = "avr" THEN <<c, file[c]>> ELSE <<>>
        /\ UNCHANGED dropped
     \/ backend = "avr" /\ dropped' = TRUE /\ UNCHANGED <<file, busy>>
  /\ buffer' = file' /\ loaded' = TRUE /\ exists' = TRUE

(* The hardware ends the programming of a cell: of the last one of a command *)
(* only then can no power failure undo it. *)
Programmed ==
  /\ busy # <<>>
  /\ busy' = <<>>
  /\ okAuto' = IF busy[1] = AutoCell /\ job \in {"idle", "mount"} THEN {want} ELSE okAuto
  /\ okName' = IF busy[1] = NameCell /\ job \in {"idle", "auto"} THEN okName \ {<<>>} ELSE okName
  /\ UNCHANGED <<build, file, exists, ram, mode, job, arg, step, want>>

-----------------------------------------------------------------------------
(* The sequences of writes: all cells, then the mark of a valid EEPROM; the  *)
(* mount's mark cleared, the name with its end, the mark set; one byte.      *)

Last(j, n) ==
  CASE j = "init" -> Size [] j = "mount" -> Len(n) + 2 [] j = "auto" -> 0

Cell(j, n, k) ==
  CASE j = "init" -> IF k < Size THEN k ELSE InitCell
    [] j = "mount" -> IF k \in 1..Len(n) + 1 THEN NameCell + k ELSE NameCell
    [] j = "auto" -> AutoCell

(* Mutation: mount() leaves the mark set while it writes the name.           *)
DatumKeepsMark(j, n, k) ==
  IF j = "auto" THEN IF want THEN Mark ELSE 0
  ELSE IF j = "mount" /\ k \in 1..Len(n) THEN n[k]
  ELSE IF k = Last(j, n) \/ (j = "mount" /\ k = 0) THEN Mark ELSE 0

Datum(j, n, k) ==
  CASE j = "init" -> IF k < Size THEN 0 ELSE Mark
    [] j = "mount" -> IF k \in 1..Len(n) THEN n[k]
                      ELSE IF k = Len(n) + 2 THEN Mark ELSE 0
    [] j = "auto" -> IF want THEN Mark ELSE 0

(* A name as it is stored, and as eeprom_read_string finds it. *)
Holds(img, n) ==
  /\ \A i \in 1..Len(n) : img[NameCell + i] = n[i]
  /\ img[NameCell + Len(n) + 1] = 0

Begin(j, n) == job' = j /\ arg' = n /\ step' = 0

WriteNext ==
  /\ job # "idle"
  /\ Write(Cell(job, arg, step), Datum(job, arg, step))
  /\ IF step < Last(job, arg)
     THEN step' = step + 1 /\ UNCHANGED <<job, arg, okAuto, okName>>
     ELSE /\ job' = "idle" /\ step' = 0 /\ arg' = <<>>
          /\ okAuto' = IF job = "auto" /\ busy' = <<>> THEN {want} ELSE okAuto
          /\ okName' = IF job # "mount" THEN okName
                       ELSE {arg} \cup (IF busy' = <<>> THEN {} ELSE {<<>>})
  /\ mode' = IF job = "init" /\ job' = "idle" THEN "prompt" ELSE mode
  /\ UNCHANGED <<backend, want>>

(* machine_boot: what was found counts as what is wanted from now on. *)
InitializeCells ==
  /\ mode = "off" /\ Read
  /\ Contents[InitCell] # Mark
  /\ Begin("init", <<>>)
  /\ mode' = "loading"
  /\ want' = FALSE /\ okAuto' = {FALSE} /\ okName' = {<<>>}
  /\ UNCHANGED <<build, file, exists, busy>>

(* A stored name is mounted again, and stored again if its file is found.    *)
(* Cells that hold no name that was given to m name no file.                 *)
LoadSettings ==
  /\ mode = "off" /\ Read
  /\ Contents[InitCell] = Mark
  /\ mode' = "loading"
  /\ IF Contents[NameCell] # Mark
     THEN okName' = {<<>>} /\ UNCHANGED <<job, arg, step>>
     ELSE \/ \E n \in MountNames :
               /\ Holds(Contents, n)
               /\ \/ Begin("mount", n) /\ okName' = {n, <<>>}
                  \/ UNCHANGED <<job, arg, step>> /\ okName' = {n}
          \/ /\ \A n \in MountNames : ~ Holds(Contents, n)
             /\ okName' = {<<>>} /\ UNCHANGED <<job, arg, step>>
  /\ UNCHANGED <<build, file, exists, busy, want, okAuto>>

AutoBoot == Contents[AutoCell] = Mark

LoadAutoBoot ==
  /\ mode = "loading" /\ job = "idle" /\ Read
  /\ mode' = "prompt"
  /\ want' = AutoBoot /\ okAuto' = {AutoBoot}
  /\ UNCHANGED <<build, file, exists, busy, job, arg, step, okName>>

(* The commands a and m; r resets the machine and keeps the variables. *)
SetAutoBoot(b) ==
  /\ mode = "prompt" /\ job = "idle"
  /\ Begin("auto", <<>>)
  /\ want' = b
  /\ okAuto' = okAuto \cup {b} \cup (IF backend = "avr" THEN {FALSE} ELSE {})
  /\ UNCHANGED <<build, file, exists, ram, busy, mode, okName>>

MountName(n) ==
  /\ mode = "prompt" /\ job = "idle"
  /\ Begin("mount", n)
  /\ okName' = okName \cup {<<>>}
  /\ UNCHANGED <<build, file, exists, ram, busy, mode, want, okAuto>>

Reset ==
  /\ mode = "prompt" /\ job = "idle"
  /\ mode' = "off"
  /\ UNCHANGED <<build, file, exists, ram, busy, job, arg, step, want, ok>>

(* On the AVR the power fails: a cell that is being programmed is left with  *)
(* anything between.  On the other back ends the process is killed, or ends: *)
(* what eeprom_flush has given to fflush stays in the file.  The code never  *)
(* calls fsync, and nothing is claimed when the power of the host fails.     *)
PowerCycle ==
  /\ mode # "off"
  /\ mode' = "off" /\ job' = "idle" /\ arg' = <<>> /\ step' = 0
  /\ loaded' = FALSE /\ buffer' = AllBlank
  /\ IF busy = <<>> THEN UNCHANGED file
     ELSE \E v \in {Blank, busy[2], file[busy[1]]} : file' = [file EXCEPT ![busy[1]] = v]
  /\ busy' = <<>>
  /\ UNCHANGED <<build, exists, want, ok>>

Init ==
  /\ backend \in Backends /\ dropped = FALSE
  /\ file = AllBlank /\ exists = FALSE
  /\ buffer = AllBlank /\ loaded = FALSE
  /\ busy = <<>>
  /\ mode = "off" /\ job = "idle" /\ arg = <<>> /\ step = 0
  /\ want = FALSE /\ okAuto = {FALSE} /\ okName = {<<>>}

Next ==
  \/ InitializeCells \/ LoadSettings \/ LoadAutoBoot
  \/ WriteNext \/ Programmed
  \/ \E b \in BOOLEAN : SetAutoBoot(b)
  \/ \E n \in MountNames : MountName(n)
  \/ Reset \/ PowerCycle

Spec == Init /\ [][Next]_vars

-----------------------------------------------------------------------------
(* The cells keep bytes, a sequence of writes stays in its cells and ends    *)
(* (mount, machine_boot).                                                    *)
TypeOK ==
  /\ file \in [Cells -> Byte] /\ buffer \in [Cells -> Byte]
  /\ exists \in BOOLEAN /\ loaded \in BOOLEAN
  /\ busy \in {<<>>} \cup (Cells \X Byte)
  /\ mode \in {"off", "loading", "prompt"}
  /\ job \in {"idle", "init", "mount", "auto"}
  /\ arg \in MountNames \cup {<<>>}
  /\ step \in 0..(IF job = "idle" THEN 0 ELSE Last(job, arg))
  /\ want \in BOOLEAN /\ backend \in Backends /\ dropped \in BOOLEAN
  /\ okAuto \subseteq BOOLEAN /\ okName \subseteq MountNames \cup {<<>>}

(* A name marked valid is a whole name that was given to mount(), never a    *)
(* mixture of two, whenever the power fails (unless a write was dropped).    *)
NameWhole ==
  ~ dropped /\ file[InitCell] = Mark /\ file[NameCell] = Mark
    => \E n \in MountNames : Holds(file, n)

(* The next start boots as the last completed a command said; a command that *)
(* the power failure interrupted may have worked or not.  Cleared settings   *)
(* are found only where none were left.  A dropped write is not noticed.     *)
AutoBootKept ==
  [][~ dropped /\ (LoadAutoBoot \/ InitializeCells) => want' \in okAuto]_vars

(* The next start mounts the image whose mount was completed last, unless a  *)
(* power failure interrupted a mount, which leaves none.                     *)
MountKept ==
  [][~ dropped =>
     /\ InitializeCells => <<>> \in okName
     /\ LoadSettings /\ Contents[NameCell] # Mark => <<>> \in okName
     /\ LoadSettings /\ Contents[NameCell] = Mark =>
          \E n \in okName \cap MountNames : Holds(Contents, n)]_vars
=============================================================================
