--------------------------------- MODULE Fdc ---------------------------------
(* The floppy disk controller of the emulated machine (I/O ports 10 to 16 of *)
(* machine.c) on top of the 512-byte block driver (sdcard_*.c), for a raw    *)
(* disk image (sd_fat = 0).                                                  *)
(*                                                                           *)
(* The image is counted in 128-byte records, a block being four of them.     *)
(* The byte position of the code is 128 times a record number, so its 32-bit *)
(* wrap-around is a wrap-around of the record number at 2^25.                *)
EXTENDS Integers

CONSTANTS
  Value, Zero,          \* contents of a record; that of cleared memory
  Records,              \* records the card or the image file holds
  Drives, Tracks, Sects,\* bytes the CPU sends to ports 10, 11 and 12
  DmaLo, DmaHi,         \* bytes the CPU sends to ports 15 and 16
  Commands,             \* bytes the CPU sends to port 13
  MonBlocks,            \* blocks named in the monitor's sf and ss commands
                        \* (of a file that fwrite could extend: those in it)
  Images,               \* initial contents of the card
  Sectors,              \* addresses the BIOS of the CP/M image uses
  ReadErrors,           \* TRUE: any fetch may fail
  WriteErrors,          \* TRUE: any store may fail
  CurBlkFirst,          \* TRUE: cur_blk is set before the fetch (sdcard_avr.c)
  WriteBehind           \* TRUE: stores stay in a stdio buffer (sdcard_posix.c)

Byte == 0..255
Slots == 0..3           \* the records of the block buffer

(* The first record of drive I: 256256 bytes into the image. *)
DriveI == 2002
RecordWrap == 33554432  \* 2^32 bytes

(* pos of the command handler, in records, for a drive, track and sector. *)
Record(d, t, s) ==
  (t * (IF d = 0 THEN 26 ELSE 128) + s - 1 + (IF d = 0 THEN 0 ELSE DriveI))
    % RecordWrap
Block(r) == r \div 4
Slot(r) == r % 4

RecordOf(a) == Record(a[1], a[2], a[3])

(* The geometry the handler's comment gives for its two drives. *)
ValidAddress(a) ==
  \/ a[1] = 0 /\ a[2] \in 0..76 /\ a[3] \in 1..26
  \/ a[1] = 8 /\ a[2] \in 0..254 /\ a[3] \in 1..128

ASSUME ConstantsAssumption ==
  /\ Zero \in Value
  /\ Records \subseteq Nat
  /\ Slots \subseteq Records
  /\ Drives \subseteq Byte /\ Tracks \subseteq Byte /\ Sects \subseteq Byte
  /\ DmaLo \subseteq {0, 128} /\ DmaHi \subseteq Byte
  /\ 0 \in DmaLo /\ 0 \in DmaHi
  /\ Commands \subseteq Byte
  /\ MonBlocks \subseteq Nat
  /\ WriteBehind => \A b \in MonBlocks : {4 * b + i : i \in Slots} \subseteq Records
  /\ Images \subseteq [Records -> Value]
  /\ Sectors \subseteq Drives \X Tracks \X Sects
  /\ \A a \in Sectors : ValidAddress(a)
  /\ ReadErrors \in BOOLEAN /\ WriteErrors \in BOOLEAN
  /\ CurBlkFirst \in BOOLEAN /\ WriteBehind \in BOOLEAN

Pages == DmaHi \X DmaLo \* the areas ports 15 and 16 can name

VARIABLES
  drive, track, sect, disk_err, dma_lo, dma_hi, wr_prt,  \* machine.c
  buffer, cur_blk,      \* the block driver's: records of the block, its number
  file,                 \* the image as the driver reads it
  card,                 \* the image as the next start of the emulator finds it
  sram                  \* area -> contents

regs == <<drive, track, sect, disk_err, dma_lo, dma_hi, wr_prt>>
store == <<buffer, cur_blk, file, card>>
vars == <<regs, store, sram>>

-----------------------------------------------------------------------------
(* The block driver. *)

BlockRecords(b) == {4 * b + i : i \in Slots}

(* How many records a fetch of block b may bring into the buffer: all four,  *)
(* fewer at the end of the image or on an error.  sdcard_avr.c fails before  *)
(* the first byte arrives, fread may deliver part of the block.              *)
FetchCounts(b) ==
  {k \in 0..4 :
     /\ \A i \in Slots : i < k => 4 * b + i \in Records
     /\ k < 4 => ReadErrors \/ 4 * b + k \notin Records
     /\ CurBlkFirst => k \in {0, 4}}

FetchedFrom(img, old, b, k) ==
  [i \in Slots |-> IF i < k THEN img[4 * b + i] ELSE old[i]]

(* Mutation: only half of the block is read. *)
FetchedHalf(b, k) == FetchedFrom(file, buffer, b, IF k > 2 THEN 2 ELSE k)

Fetched(b, k) == FetchedFrom(file, buffer, b, k)

(* Mutations: sdcard_posix.c forgets cur_blk, sdcard_avr.c sets it too late, *)
(* a fetch that fails clears it.                                             *)
FetchedBlkNever(b, k) == IF CurBlkFirst THEN b ELSE cur_blk
FetchedBlkAfter(b, k) == IF k = 4 THEN b ELSE cur_blk
FetchedBlkCleared(b, k) == IF k = 4 \/ CurBlkFirst THEN b ELSE 0

FetchedBlk(b, k) == IF k = 4 \/ CurBlkFirst THEN b ELSE cur_blk

(* Positioning the stream writes the data it holds out, unless it fails. *)
CardsAfterFetch(k) == IF k = 4 THEN {file} ELSE {card, file}

(* The image after the buffer buf is stored as block b. *)
Stored(b, buf) ==
  [r \in Records |-> IF Block(r) = b THEN buf[Slot(r)] ELSE file[r]]

(* The <<result, image>> pairs sdcard_store may end with; an error may come  *)
(* before or after the data was taken.                                       *)
StoreOutcomes(b, buf) ==
  {o \in {0, -1} \X {file, Stored(b, buf)} :
     IF o[1] = 0 THEN BlockRecords(b) \subseteq Records /\ o[2] = Stored(b, buf)
     ELSE WriteErrors \/ ~ BlockRecords(b) \subseteq Records}

(* fseek writes earlier data out; fwrite leaves the new data in the stream. *)
CardAfterStore(o, c) ==
  IF WriteBehind THEN (IF o[1] = 0 THEN file ELSE c) ELSE o[2]

-----------------------------------------------------------------------------
(* out() and in() *)

Address == <<drive, track, sect>>
Area == <<dma_hi, dma_lo>>
Blk == Block(RecordOf(Address))

(* Mutation: the offset is masked with 0xff. *)
OffInHalfBlock == RecordOf(Address) % 2

Off == Slot(RecordOf(Address))

OutDrive ==
  /\ drive' \in Drives
  /\ UNCHANGED <<track, sect, disk_err, dma_lo, dma_hi, wr_prt, store, sram>>

OutTrack ==
  /\ track' \in Tracks
  /\ UNCHANGED <<drive, sect, disk_err, dma_lo, dma_hi, wr_prt, store, sram>>

OutSect ==
  /\ sect' \in Sects
  /\ UNCHANGED <<drive, track, disk_err, dma_lo, dma_hi, wr_prt, store, sram>>

OutDmaLo ==
  /\ dma_lo' \in DmaLo
  /\ UNCHANGED <<drive, track, sect, disk_err, dma_hi, wr_prt, store, sram>>

OutDmaHi ==
  /\ dma_hi' \in DmaHi
  /\ UNCHANGED <<drive, track, sect, disk_err, dma_lo, wr_prt, store, sram>>

SetDiskErr(e) ==
  /\ disk_err' = e
  /\ UNCHANGED <<drive, track, sect, dma_lo, dma_hi, wr_prt>>

HasDrive == drive \in {0, 8}

(* Port 13 with a drive other than A and I. *)
NoSuchDrive ==
  /\ ~ HasDrive
  /\ SetDiskErr(1)
  /\ UNCHANGED <<store, sram>>

(* Mutation: the result of the driver becomes the status. *)
DriverStatus(rc) == rc % 256

WriteStatus(rc) == IF rc = 0 THEN 0 ELSE 6

(* disk_read(), whose result the handler does not look at: the buffer and    *)
(* cur_blk are whatever the fetch leaves.                                    *)
ReadSector(k) ==
  /\ HasDrive
  /\ buffer' = Fetched(Blk, k)
  /\ cur_blk' = FetchedBlk(Blk, k)
  /\ card' \in CardsAfterFetch(k)
  /\ sram' = [sram EXCEPT ![Area] = buffer'[Off]]
  /\ SetDiskErr(0)
  /\ UNCHANGED file

WriteSector(k) ==
  /\ HasDrive
  /\ wr_prt = 0
  /\ buffer' = [Fetched(Blk, k) EXCEPT ![Off] = sram[Area]]
  /\ cur_blk' = FetchedBlk(Blk, k)
  /\ \E c \in CardsAfterFetch(k), o \in StoreOutcomes(cur_blk', buffer') :
       /\ file' = o[2]
       /\ card' = CardAfterStore(o, c)
       /\ SetDiskErr(WriteStatus(o[1]))
  /\ UNCHANGED sram

RefuseCommand(k) ==
  /\ HasDrive
  /\ buffer' = Fetched(Blk, k)
  /\ cur_blk' = FetchedBlk(Blk, k)
  /\ card' \in CardsAfterFetch(k)
  /\ SetDiskErr(7)
  /\ UNCHANGED <<file, sram>>

Command ==
  \E val \in Commands :
    \/ NoSuchDrive
    \/ \E k \in FetchCounts(Blk) :
         \/ val = 0 /\ ReadSector(k)
         \/ val = 1 /\ WriteSector(k)
         \/ (val > 1 \/ (val = 1 /\ wr_prt # 0)) /\ RefuseCommand(k)

In(port) ==
  CASE port = 10 -> drive
    [] port = 11 -> track
    [] port = 12 -> sect
    [] port = 13 -> 0
    [] port = 14 -> disk_err
    [] port = 15 -> dma_lo
    [] port = 16 -> dma_hi

-----------------------------------------------------------------------------
(* The CPU, the monitor and the machine around them *)

(* The program fills an area; the CPU's own stores are not modelled finer.   *)
Poke ==
  /\ \E p \in Pages, v \in Value : sram' = [sram EXCEPT ![p] = v]
  /\ UNCHANGED <<regs, store>>

(* Monitor command wp. *)
WriteProtect ==
  /\ wr_prt' \in {0, 1}
  /\ UNCHANGED <<drive, track, sect, disk_err, dma_lo, dma_hi, store, sram>>

(* Monitor command sf. *)
FetchBlock ==
  /\ \E b \in MonBlocks : \E k \in FetchCounts(b) :
       /\ buffer' = Fetched(b, k)
       /\ cur_blk' = FetchedBlk(b, k)
       /\ card' \in CardsAfterFetch(k)
  /\ UNCHANGED <<regs, file, sram>>

(* Monitor command ss: the buffer goes to any block, write-protected or not. *)
StoreBlock ==
  /\ \E b \in MonBlocks : \E o \in StoreOutcomes(b, buffer) :
       /\ file' = o[2]
       /\ card' = CardAfterStore(o, card)
  /\ UNCHANGED <<regs, buffer, cur_blk, sram>>

(* The fetches of block 0 machine_boot makes (sdc_chk, fat_init), in the     *)
(* builds that have them.                                                    *)
BootCounts == IF CurBlkFirst THEN {0} ELSE FetchCounts(0)

ClearedBuffer == [i \in Slots |-> Zero]

(* The emulator stops and is started again.  On the AVR power is lost.  On   *)
(* POSIX its process ends, is killed or fails: what the stream has handed to *)
(* the kernel stays in the file, what waits in the stream may be gone.  (The *)
(* host itself stays up: sdcard_posix.c never calls fsync, and a power       *)
(* failure of the host may take back any number of stores.)                  *)
Restart ==
  /\ drive' = 0 /\ track' = 0 /\ sect' = 0 /\ disk_err' = 0
  /\ dma_lo' = 0 /\ dma_hi' = 0 /\ wr_prt' = 0
  /\ file' \in {card, file}
  /\ card' = file'
  /\ \E k \in BootCounts : buffer' = FetchedFrom(file', ClearedBuffer, 0, k)
  /\ cur_blk' = 0
  /\ sram' \in [Pages -> Value]

(* Monitor command r of the POSIX build: a longjmp to machine_boot, which    *)
(* closes the image but clears none of the static variables.                 *)
MonitorReset ==
  /\ WriteBehind
  /\ card' = file
  /\ \E k \in BootCounts : buffer' = FetchedFrom(file, buffer, 0, k)
  /\ cur_blk' = 0
  /\ sram' \in [Pages -> Value]
  /\ UNCHANGED <<regs, file>>

Init ==
  /\ drive = 0 /\ track = 0 /\ sect = 0 /\ disk_err = 0
  /\ dma_lo = 0 /\ dma_hi = 0 /\ wr_prt = 0
  /\ file \in Images
  /\ card = file
  /\ \E k \in BootCounts : buffer = FetchedFrom(file, ClearedBuffer, 0, k)
  /\ cur_blk = 0
  /\ sram \in [Pages -> Value]

Others ==
  \/ OutDrive \/ OutTrack \/ OutSect \/ OutDmaLo \/ OutDmaHi
  \/ Poke \/ WriteProtect \/ FetchBlock \/ Restart \/ MonitorReset

Next == Command \/ StoreBlock \/ Others

Spec == Init /\ [][Next]_vars

(* The BIOS of the CP/M image commands only sectors that exist, and nobody   *)
(* stores raw blocks from the monitor.                                       *)
BiosCommand == (HasDrive => Address \in Sectors) /\ Command
BiosNext == BiosCommand \/ Others
BiosSpec == Init /\ [][BiosNext]_vars

-----------------------------------------------------------------------------
(* Properties *)

TypeOK ==
  /\ drive \in Byte /\ track \in Byte /\ sect \in Byte
  /\ disk_err \in {0, 1, 6, 7}
  /\ dma_lo \in DmaLo /\ dma_hi \in DmaHi
  /\ wr_prt \in {0, 1}
  /\ buffer \in [Slots -> Value]
  /\ cur_blk \in Nat
  /\ file \in [Records -> Value]
  /\ card \in [Records -> Value]
  /\ sram \in [Pages -> Value]

(* What the registers and the image mean to a program. *)
CD == INSTANCE CpmDisk WITH
  disk <- [a \in Sectors |-> file[RecordOf(a)]],
  medium <- [a \in Sectors |-> card[RecordOf(a)]],
  mem <- sram,
  sel <- <<In(10), In(11), In(12)>>,
  dma <- <<In(16), In(15)>>,
  status <- In(14),
  prot <- wr_prt

(* The controller is the disk of independent sectors that CpmDisk describes: *)
(* sectors share blocks, and the block buffer keeps the contents of earlier  *)
(* commands, yet a command reads and changes its own sector only (out() and  *)
(* in() of machine.c, for an image that holds every sector and fetches that  *)
(* do not fail; stores may fail).                                            *)
ImplementsCpmDisk == CD!Spec

(* A start of the emulator that follows the loss of the AVR's power, or a    *)
(* kill of the POSIX process, finds all but at most the sector written last, *)
(* also where the stored block waits in the stream (sdcard_store of          *)
(* sdcard_posix.c).                                                          *)
CrashLosesOneSectorAtMost == CD!LagsByOneSector

(* Whatever fails, a command of the controller changes nothing outside the   *)
(* block it addresses; a driver that sets cur_blk only after a fetch may     *)
(* change the block fetched before instead (disk_read's result is ignored    *)
(* and sdcard_flush stores to cur_blk).                                      *)
BlocksAtRisk == IF CurBlkFirst THEN {Blk} ELSE {Blk, cur_blk}
CommandStaysInBlock ==
  [][Command => \A r \in Records : file'[r] # file[r] => Block(r) \in BlocksAtRisk]_vars

(* README.md:20: one can use the image for z80pack as sdcard.img.  A write    *)
(* that the controller acknowledges is then in the image, and nothing else   *)
(* is changed by it (case 13 of out()).                                      *)
AcknowledgedWriteLands ==
  [][(\E k \in FetchCounts(Blk) : WriteSector(k)) /\ disk_err' = 0 =>
       file' = [file EXCEPT ![RecordOf(Address)] = sram[Area]]]_vars
==============================================================================
