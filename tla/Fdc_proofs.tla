----------------------------- MODULE Fdc_proofs -----------------------------
(* Proofs about Fdc, for every value of its constants. *)
EXTENDS Fdc, TLAPS

-----------------------------------------------------------------------------
(* The map from addresses to records. *)

LEMMA ModSmall == \A n, m \in Nat : n < m => n % m = n
BY SMT

LEMMA NoWrap == \A n \in Nat : n < 40000 => n % RecordWrap = n
<1>1. 40000 < RecordWrap /\ RecordWrap \in Nat
  BY SMT DEF RecordWrap
<1> QED
  BY <1>1, ModSmall, SMT

LEMMA ModNat == \A n \in Int, m \in Nat \ {0} : n % m \in Nat
BY SMT

(* Any byte triple names a record of the 32-bit byte space. *)
LEMMA RecordType ==
  ASSUME NEW d \in Byte, NEW t \in Byte, NEW s \in Byte
  PROVE  Record(d, t, s) \in Nat
<1>1. t * (IF d = 0 THEN 26 ELSE 128) + s - 1 + (IF d = 0 THEN 0 ELSE DriveI) \in Int
  BY SMT DEF Byte, DriveI
<1>2. RecordWrap \in Nat \ {0}
  BY SMT DEF RecordWrap
<1> QED
  BY <1>1, <1>2, ModNat DEF Record

LEMMA BlockType == \A r \in Nat : Block(r) \in Nat /\ Slot(r) \in Slots
BY SMT DEF Block, Slot, Slots

LEMMA BlockSlot == \A r \in Nat : r = 4 * Block(r) + Slot(r)
BY SMT DEF Block, Slot

(* For the geometry of the comment at machine.c:861 the wrap-around never    *)
(* happens, drive A stays below record 2002 and drive I starts there.        *)
LEMMA PartA ==
  ASSUME NEW t \in 0..76, NEW s \in 1..26
  PROVE  Record(0, t, s) = t * 26 + s - 1 /\ Record(0, t, s) \in 0..(DriveI - 1)
<1>1. /\ t * 26 + s - 1 + 0 = t * 26 + s - 1 /\ t * 26 + s - 1 \in 0..2001
      /\ t * 26 + s - 1 \in Nat /\ t * 26 + s - 1 < 40000
  BY SMT
<1>2. Record(0, t, s) = (t * 26 + s - 1 + 0) % RecordWrap
  BY DEF Record
<1> DEFINE r == t * 26 + s - 1
<1>3. /\ Record(0, t, s) = r % RecordWrap
      /\ r \in Nat /\ r < 40000 /\ r \in 0..2001
  BY <1>1, <1>2
<1> HIDE DEF r
<1>4. Record(0, t, s) = r
  BY <1>3, NoWrap
<1>5. r \in 0..(DriveI - 1)
  BY <1>3 DEF DriveI
<1> QED
  BY <1>4, <1>5 DEF r

LEMMA PartI ==
  ASSUME NEW t \in 0..254, NEW s \in 1..128
  PROVE  /\ Record(8, t, s) = t * 128 + s - 1 + DriveI
         /\ Record(8, t, s) \in Nat /\ Record(8, t, s) >= DriveI
<1>1. t * 128 + s - 1 + DriveI \in Nat /\ t * 128 + s - 1 + DriveI < 40000
  BY SMT DEF DriveI
<1>2. (t * 128 + s - 1 + DriveI) % RecordWrap = t * 128 + s - 1 + DriveI
  BY <1>1, NoWrap, SMT
<1>3. Record(8, t, s) = t * 128 + s - 1 + DriveI
  BY <1>2, SMT DEF Record
<1> QED
  BY <1>1, <1>3, SMT DEF DriveI

(* Two valid addresses never share a record (the pos computation of case 13  *)
(* of out()).                                                                *)
THEOREM RecordInjective ==
  ASSUME NEW d, NEW t, NEW s, NEW d2, NEW t2, NEW s2,
         ValidAddress(<<d, t, s>>), ValidAddress(<<d2, t2, s2>>),
         Record(d, t, s) = Record(d2, t2, s2)
  PROVE  d = d2 /\ t = t2 /\ s = s2
<1>1. CASE d = 0 /\ d2 = 0
  <2>1. t \in 0..76 /\ t2 \in 0..76 /\ s \in 1..26 /\ s2 \in 1..26
    BY <1>1 DEF ValidAddress
  <2>2. Record(d, t, s) = t * 26 + s - 1 /\ Record(d2, t2, s2) = t2 * 26 + s2 - 1
    BY <1>1, <2>1, PartA, Zenon
  <2>3. t * 26 + s - 1 = t2 * 26 + s2 - 1
    BY <2>2, Zenon
  <2>4. t = t2 /\ s = s2
    BY <2>1, <2>3, SMT
  <2> QED
    BY <1>1, <2>4
<1>2. CASE d = 8 /\ d2 = 8
  <2>1. t \in 0..254 /\ t2 \in 0..254 /\ s \in 1..128 /\ s2 \in 1..128
    BY <1>2 DEF ValidAddress
  <2>2. /\ Record(d, t, s) = t * 128 + s - 1 + DriveI
        /\ Record(d2, t2, s2) = t2 * 128 + s2 - 1 + DriveI
    BY <1>2, <2>1, PartI, ZenonT(60)
  <2>3. t * 128 + s - 1 + DriveI = t2 * 128 + s2 - 1 + DriveI
    BY <2>2, Zenon
  <2>4. t = t2 /\ s = s2
    BY <2>1, <2>3, SMT DEF DriveI
  <2> QED
    BY <1>2, <2>4
<1>3. ASSUME NEW u, NEW v, NEW u2, NEW v2,
             ValidAddress(<<0, u, v>>), ValidAddress(<<8, u2, v2>>)
      PROVE  Record(0, u, v) # Record(8, u2, v2)
  <2>1. u \in 0..76 /\ v \in 1..26 /\ u2 \in 0..254 /\ v2 \in 1..128
    BY <1>3 DEF ValidAddress
  <2>2. Record(0, u, v) \in 0..(DriveI - 1)
    BY <2>1, PartA, ZenonT(60)
  <2>3. Record(8, u2, v2) \in Nat /\ Record(8, u2, v2) >= DriveI
    BY <2>1, PartI, ZenonT(60)
  <2> QED
    BY <2>2, <2>3, SMTT(30) DEF DriveI
<1>4. d \in {0, 8} /\ d2 \in {0, 8}
  BY DEF ValidAddress
<1> QED
  BY <1>1, <1>2, <1>3, <1>4

-----------------------------------------------------------------------------
(* Types *)

LEMMA FetchedType ==
  ASSUME NEW img \in [Records -> Value], NEW old \in [Slots -> Value],
         NEW b \in Nat, NEW k \in {0} \cup FetchCounts(b)
  PROVE  FetchedFrom(img, old, b, k) \in [Slots -> Value]
<1>1. \A i \in Slots : i < k => 4 * b + i \in Records
  BY SMT DEF FetchCounts, Slots
<1> QED
  BY <1>1 DEF FetchedFrom

LEMMA FetchedBlkType ==
  ASSUME TypeOK, NEW b \in Nat, NEW k
  PROVE  FetchedBlk(b, k) \in Nat
BY DEF FetchedBlk, TypeOK

LEMMA StoredType ==
  ASSUME TypeOK, NEW b, NEW buf \in [Slots -> Value]
  PROVE  Stored(b, buf) \in [Records -> Value]
<1>1. \A r \in Records : Slot(r) \in Slots
  BY ConstantsAssumption, BlockType DEF ConstantsAssumption
<1> QED
  BY <1>1 DEF Stored, TypeOK

LEMMA StoreOutcomeType ==
  ASSUME TypeOK, NEW b, NEW buf \in [Slots -> Value],
         NEW o \in StoreOutcomes(b, buf),
         NEW c \in [Records -> Value]
  PROVE  /\ o[1] \in {0, -1}
         /\ o[2] \in {file, Stored(b, buf)}
         /\ o[2] \in [Records -> Value]
         /\ CardAfterStore(o, c) \in [Records -> Value]
<1>1. o \in {0, -1} \X {file, Stored(b, buf)}
  BY DEF StoreOutcomes
<1>2. o[1] \in {0, -1} /\ o[2] \in {file, Stored(b, buf)}
  BY <1>1
<1> QED
  BY <1>2, StoredType DEF CardAfterStore, TypeOK

LEMMA AddressType ==
  ASSUME TypeOK
  PROVE  /\ Blk \in Nat /\ Off \in Slots
         /\ RecordOf(Address) = Record(drive, track, sect)
         /\ RecordOf(Address) \in Nat
         /\ Area \in Pages
<1>1. Record(drive, track, sect) \in Nat
  BY RecordType DEF TypeOK
<1>2. RecordOf(Address) = Record(drive, track, sect)
  BY DEF RecordOf, Address
<1>3. Area \in Pages
  BY DEF Area, Pages, TypeOK
<1> QED
  BY <1>1, <1>2, <1>3, BlockType DEF Blk, Off

LEMMA InitType == Init => TypeOK
<1> SUFFICES ASSUME Init PROVE TypeOK
  OBVIOUS
<1>1. file \in [Records -> Value] /\ card \in [Records -> Value]
  BY ConstantsAssumption DEF Init, ConstantsAssumption
<1>2. buffer \in [Slots -> Value]
  <2>1. PICK k \in BootCounts : buffer = FetchedFrom(file, ClearedBuffer, 0, k)
    BY DEF Init
  <2>2. ClearedBuffer \in [Slots -> Value]
    BY ConstantsAssumption DEF ClearedBuffer, ConstantsAssumption
  <2>3. k \in {0} \cup FetchCounts(0)
    BY <2>1 DEF BootCounts
  <2> QED
    BY <1>1, <2>1, <2>2, <2>3, FetchedType
<1> QED
  BY <1>1, <1>2, ConstantsAssumption DEF Init, TypeOK, Byte, ConstantsAssumption

(* What a command leaves in the driver and on the image. *)
LEMMA FetchType ==
  ASSUME TypeOK, NEW b \in Nat, NEW k \in FetchCounts(b)
  PROVE  /\ Fetched(b, k) \in [Slots -> Value]
         /\ FetchedBlk(b, k) \in Nat
         /\ \A c \in CardsAfterFetch(k) : c \in [Records -> Value]
<1>1. Fetched(b, k) \in [Slots -> Value]
  BY FetchedType DEF Fetched, TypeOK
<1> QED
  BY <1>1, FetchedBlkType DEF CardsAfterFetch, TypeOK

LEMMA CommandType == TypeOK /\ Command => TypeOK'
<1> SUFFICES ASSUME TypeOK, Command PROVE TypeOK'
  OBVIOUS
<1>1. CASE NoSuchDrive
  BY <1>1 DEF NoSuchDrive, SetDiskErr, store, TypeOK, Pages
<1>2. ASSUME NEW k \in FetchCounts(Blk), ReadSector(k) PROVE TypeOK'
  <2>1. Fetched(Blk, k) \in [Slots -> Value] /\ FetchedBlk(Blk, k) \in Nat
        /\ \A c \in CardsAfterFetch(k) : c \in [Records -> Value]
    BY <1>2, AddressType, FetchType
  <2>2. buffer'[Off] \in Value
    BY <1>2, <2>1, AddressType DEF ReadSector
  <2> QED
    BY <1>2, <2>1, <2>2, AddressType DEF ReadSector, SetDiskErr, TypeOK, Pages
<1>3. ASSUME NEW k \in FetchCounts(Blk), WriteSector(k) PROVE TypeOK'
  <2>1. Fetched(Blk, k) \in [Slots -> Value] /\ FetchedBlk(Blk, k) \in Nat
        /\ \A c \in CardsAfterFetch(k) : c \in [Records -> Value]
    BY <1>3, AddressType, FetchType
  <2>2. sram[Area] \in Value
    BY AddressType DEF TypeOK
  <2>3. buffer' \in [Slots -> Value] /\ cur_blk' \in Nat
    BY <1>3, <2>1, <2>2 DEF WriteSector
  <2>4. PICK c \in CardsAfterFetch(k), o \in StoreOutcomes(cur_blk', buffer') :
          /\ file' = o[2]
          /\ card' = CardAfterStore(o, c)
          /\ SetDiskErr(WriteStatus(o[1]))
    BY <1>3 DEF WriteSector
  <2>5. file' \in [Records -> Value] /\ card' \in [Records -> Value]
    BY <2>1, <2>3, <2>4, StoreOutcomeType
  <2> QED
    BY <1>3, <2>3, <2>4, <2>5 DEF WriteSector, WriteStatus, SetDiskErr, TypeOK, Pages
<1>4. ASSUME NEW k \in FetchCounts(Blk), RefuseCommand(k) PROVE TypeOK'
  <2>1. Fetched(Blk, k) \in [Slots -> Value] /\ FetchedBlk(Blk, k) \in Nat
        /\ \A c \in CardsAfterFetch(k) : c \in [Records -> Value]
    BY <1>4, AddressType, FetchType
  <2> QED
    BY <1>4, <2>1 DEF RefuseCommand, SetDiskErr, TypeOK, Pages
<1> QED
  BY <1>1, <1>2, <1>3, <1>4 DEF Command

LEMMA RestartType ==
  ASSUME NEW img \in [Records -> Value], NEW old \in [Slots -> Value],
         NEW k \in BootCounts
  PROVE  FetchedFrom(img, old, 0, k) \in [Slots -> Value]
<1>1. k \in {0} \cup FetchCounts(0)
  BY DEF BootCounts
<1> QED
  BY <1>1, FetchedType

LEMMA OthersType == TypeOK /\ Others => TypeOK'
<1> SUFFICES ASSUME TypeOK, Others PROVE TypeOK'
  OBVIOUS
<1>1. CASE OutDrive
  BY <1>1, ConstantsAssumption
     DEF OutDrive, store, TypeOK, Pages, ConstantsAssumption
<1>2. CASE OutTrack
  BY <1>2, ConstantsAssumption
     DEF OutTrack, store, TypeOK, Pages, ConstantsAssumption
<1>3. CASE OutSect
  BY <1>3, ConstantsAssumption
     DEF OutSect, store, TypeOK, Pages, ConstantsAssumption
<1>4. CASE OutDmaLo
  BY <1>4 DEF OutDmaLo, store, TypeOK, Pages
<1>5. CASE OutDmaHi
  BY <1>5 DEF OutDmaHi, store, TypeOK, Pages
<1>6. CASE Poke
  BY <1>6 DEF Poke, regs, store, TypeOK
<1>7. CASE WriteProtect
  BY <1>7 DEF WriteProtect, store, TypeOK, Pages
<1>8. CASE FetchBlock
  <2>1. PICK b \in MonBlocks : \E k \in FetchCounts(b) :
          /\ buffer' = Fetched(b, k)
          /\ cur_blk' = FetchedBlk(b, k)
          /\ card' \in CardsAfterFetch(k)
    BY <1>8 DEF FetchBlock
  <2>2. b \in Nat
    BY ConstantsAssumption DEF ConstantsAssumption
  <2>3. buffer' \in [Slots -> Value] /\ cur_blk' \in Nat /\ card' \in [Records -> Value]
    BY <2>1, <2>2, FetchType
  <2> QED
    BY <1>8, <2>3 DEF FetchBlock, regs, TypeOK, Pages
<1>9. CASE Restart
  <2>1. file' \in [Records -> Value] /\ card' \in [Records -> Value]
    BY <1>9 DEF Restart, TypeOK
  <2>2. ClearedBuffer \in [Slots -> Value]
    BY ConstantsAssumption DEF ClearedBuffer, ConstantsAssumption
  <2>3. buffer' \in [Slots -> Value]
    BY <1>9, <2>1, <2>2, RestartType DEF Restart
  <2> QED
    BY <1>9, <2>1, <2>3, ConstantsAssumption
       DEF Restart, TypeOK, Pages, Byte, ConstantsAssumption
<1>10. CASE MonitorReset
  <2>1. buffer' \in [Slots -> Value]
    BY <1>10, RestartType DEF MonitorReset, TypeOK
  <2> QED
    BY <1>10, <2>1 DEF MonitorReset, regs, TypeOK, Pages
<1> QED
  BY <1>1, <1>2, <1>3, <1>4, <1>5, <1>6, <1>7, <1>8, <1>9, <1>10 DEF Others

LEMMA StoreBlockType == TypeOK /\ StoreBlock => TypeOK'
<1> SUFFICES ASSUME TypeOK, StoreBlock PROVE TypeOK'
  OBVIOUS
<1>1. PICK b \in MonBlocks : \E o \in StoreOutcomes(b, buffer) :
        /\ file' = o[2]
        /\ card' = CardAfterStore(o, card)
  BY DEF StoreBlock
<1>2. file' \in [Records -> Value] /\ card' \in [Records -> Value]
  BY <1>1, StoreOutcomeType DEF TypeOK
<1> QED
  BY <1>2 DEF StoreBlock, regs, TypeOK, Pages

LEMMA NextType == TypeOK /\ [Next]_vars => TypeOK'
<1>1. TypeOK /\ UNCHANGED vars => TypeOK'
  BY DEF vars, regs, store, TypeOK, Pages
<1> QED
  BY <1>1, CommandType, OthersType, StoreBlockType DEF Next

(* Every variable keeps to its range, whatever the CPU and the monitor do    *)
(* and whatever fails (machine.c and the block drivers).                     *)
THEOREM Typing == Spec => []TypeOK
BY InitType, NextType, PTL DEF Spec

LEMMA BiosIsSpec == BiosSpec => Spec
<1>1. [BiosNext]_vars => [Next]_vars
  BY DEF BiosNext, BiosCommand, Next
<1> QED
  BY <1>1, PTL DEF BiosSpec, Spec

-----------------------------------------------------------------------------
(* What a failure can reach. *)

LEMMA WriteReach ==
  ASSUME TypeOK, NEW k \in FetchCounts(Blk), WriteSector(k), NEW r \in Records,
         file'[r] # file[r]
  PROVE  Block(r) \in BlocksAtRisk
<1>1. PICK c \in CardsAfterFetch(k), o \in StoreOutcomes(cur_blk', buffer') :
        file' = o[2]
  BY DEF WriteSector
<1>2. file' \in {file, Stored(cur_blk', buffer')}
  BY <1>1 DEF StoreOutcomes
<1>3. Block(r) = cur_blk'
  BY <1>2 DEF Stored
<1> QED
  BY <1>3 DEF WriteSector, FetchedBlk, BlocksAtRisk

LEMMA CommandReach ==
  TypeOK /\ Command => \A r \in Records : file'[r] # file[r] => Block(r) \in BlocksAtRisk
<1> SUFFICES ASSUME TypeOK, Command, NEW r \in Records, file'[r] # file[r]
             PROVE  Block(r) \in BlocksAtRisk
  OBVIOUS
<1>1. ~ NoSuchDrive
  BY DEF NoSuchDrive, store
<1>2. PICK k \in FetchCounts(Blk) : WriteSector(k)
  BY <1>1 DEF Command, ReadSector, RefuseCommand
<1> QED
  BY <1>2, WriteReach

(* Whatever the CPU sends and whatever fails, a command changes no record    *)
(* outside the block it addresses or, with a driver that sets cur_blk after  *)
(* the fetch, the block fetched before (case 13 of out(), sdcard_fetch).     *)
THEOREM CommandContained == Spec => CommandStaysInBlock
<1>1. TypeOK /\ [Next]_vars =>
        [Command => \A r \in Records : file'[r] # file[r] => Block(r) \in BlocksAtRisk]_vars
  BY CommandReach
<1> QED
  BY <1>1, Typing, PTL DEF Spec, CommandStaysInBlock

-----------------------------------------------------------------------------
(* The controller implements the disk of independent sectors. *)

(* The image holds every sector in use, and fetches do not fail. *)
Reliable ==
  /\ ~ ReadErrors
  /\ \A a \in Sectors : BlockRecords(Block(RecordOf(a))) \subseteq Records

LEMMA SectorFacts ==
  ASSUME NEW a \in Sectors, Reliable
  PROVE  /\ a = <<a[1], a[2], a[3]>> /\ a \in Byte \X Byte \X Byte
         /\ ValidAddress(a)
         /\ RecordOf(a) = Record(a[1], a[2], a[3])
         /\ RecordOf(a) \in Nat /\ RecordOf(a) \in Records
<1>1. a = <<a[1], a[2], a[3]>> /\ a \in Byte \X Byte \X Byte /\ ValidAddress(a)
  BY ConstantsAssumption DEF ConstantsAssumption
<1>2. RecordOf(a) \in Nat
  BY <1>1, RecordType DEF RecordOf
<1>3. RecordOf(a) \in BlockRecords(Block(RecordOf(a)))
  BY <1>2, BlockType, BlockSlot DEF BlockRecords
<1> QED
  BY <1>1, <1>2, <1>3 DEF Reliable, RecordOf

LEMMA SectorsApart ==
  ASSUME NEW a \in Sectors, NEW b \in Sectors, Reliable, RecordOf(a) = RecordOf(b)
  PROVE  a = b
<1>1. a = <<a[1], a[2], a[3]>> /\ b = <<b[1], b[2], b[3]>>
  BY SectorFacts
<1>2. ValidAddress(<<a[1], a[2], a[3]>>) /\ ValidAddress(<<b[1], b[2], b[3]>>)
  BY <1>1, SectorFacts
<1>3. Record(a[1], a[2], a[3]) = Record(b[1], b[2], b[3])
  BY SectorFacts
<1>4. a[1] = b[1] /\ a[2] = b[2] /\ a[3] = b[3]
  BY <1>2, <1>3, RecordInjective
<1> QED
  BY <1>1, <1>4

LEMMA FetchWhole ==
  ASSUME Reliable, Address \in Sectors, NEW k \in FetchCounts(Blk)
  PROVE  k = 4
<1>1. k \in 0..4
  BY DEF FetchCounts
<1>2. k < 4 => 4 * Blk + k \notin Records
  BY DEF FetchCounts, Reliable
<1>3. k < 4 => 4 * Blk + k \in BlockRecords(Blk)
  BY <1>1, SMT DEF BlockRecords, Slots
<1> QED
  BY <1>1, <1>2, <1>3, SMT DEF Reliable, Blk

(* A fetched buffer holds the addressed sector ... *)
LEMMA FetchedSector ==
  ASSUME TypeOK, Reliable, Address \in Sectors, NEW k \in FetchCounts(Blk)
  PROVE  /\ Fetched(Blk, k)[Off] = file[RecordOf(Address)]
         /\ \A i \in Slots : Fetched(Blk, k)[i] = file[4 * Blk + i]
         /\ FetchedBlk(Blk, k) = Blk
         /\ CardsAfterFetch(k) = {file}
<1>1. k = 4
  BY FetchWhole
<1>2. \A i \in Slots : Fetched(Blk, k)[i] = file[4 * Blk + i]
  BY <1>1, SMT DEF Fetched, FetchedFrom, Slots
<1>3. Off \in Slots /\ 4 * Blk + Off = RecordOf(Address)
  BY AddressType, BlockSlot DEF Blk, Off
<1> QED
  BY <1>1, <1>2, <1>3 DEF FetchedBlk, CardsAfterFetch

(* ... and storing it with that sector changed changes one record. *)
LEMMA StoredSector ==
  ASSUME TypeOK, Reliable, Address \in Sectors, NEW k \in FetchCounts(Blk), NEW v
  PROVE  Stored(Blk, [Fetched(Blk, k) EXCEPT ![Off] = v])
           = [file EXCEPT ![RecordOf(Address)] = v]
<1> DEFINE buf == [Fetched(Blk, k) EXCEPT ![Off] = v]
           R == RecordOf(Address)
<1>1. R \in Nat /\ Off = Slot(R) /\ Blk = Block(R) /\ Off \in Slots
  BY AddressType DEF Blk, Off
<1>2. Fetched(Blk, k) = [i \in Slots |-> file[4 * Blk + i]]
  BY FetchWhole, SMT DEF Fetched, FetchedFrom, Slots
<1>3. ASSUME NEW r \in Records
      PROVE  Stored(Blk, buf)[r] = IF r = R THEN v ELSE file[r]
  <2>1. r \in Nat /\ Slot(r) \in Slots /\ r = 4 * Block(r) + Slot(r)
    BY ConstantsAssumption, BlockType, BlockSlot DEF ConstantsAssumption
  <2>2. r = R <=> Block(r) = Blk /\ Slot(r) = Off
    BY <1>1, <2>1, BlockSlot
  <2>3. buf[Slot(r)] = IF Slot(r) = Off THEN v ELSE file[4 * Blk + Slot(r)]
    BY <1>2, <2>1
  <2>4. Stored(Blk, buf)[r] = IF Block(r) = Blk THEN buf[Slot(r)] ELSE file[r]
    BY DEF Stored
  <2> HIDE DEF buf, R
  <2> QED
    BY <2>1, <2>2, <2>3, <2>4
<1>4. Stored(Blk, buf) = [r \in Records |-> IF r = R THEN v ELSE file[r]]
  BY <1>3 DEF Stored
<1> QED
  BY <1>4 DEF TypeOK

(* The disk of sectors an image stands for, as in the refinement mapping. *)
DiskOf(img) == [a \in Sectors |-> img[RecordOf(a)]]

LEMMA DiskOfType ==
  ASSUME Reliable, NEW img \in [Records -> Value]
  PROVE  DiskOf(img) \in [Sectors -> Value]
BY SectorFacts DEF DiskOf

LEMMA DiskOfWrite ==
  ASSUME Reliable, NEW img \in [Records -> Value], NEW a \in Sectors, NEW v
  PROVE  DiskOf([img EXCEPT ![RecordOf(a)] = v]) = [DiskOf(img) EXCEPT ![a] = v]
<1>1. \A b \in Sectors : RecordOf(b) \in Records
  BY SectorFacts
<1>2. \A b \in Sectors : RecordOf(b) = RecordOf(a) => b = a
  BY SectorsApart
<1> HIDE DEF RecordOf
<1> QED
  BY <1>1, <1>2 DEF DiskOf

LEMMA Registers ==
  /\ In(10) = drive /\ In(11) = track /\ In(12) = sect
  /\ In(14) = disk_err /\ In(15) = dma_lo /\ In(16) = dma_hi
BY SMT DEF In

LEMMA RegistersPrime ==
  /\ In(10)' = drive' /\ In(11)' = track' /\ In(12)' = sect'
  /\ In(14)' = disk_err' /\ In(15)' = dma_lo' /\ In(16)' = dma_hi'
BY SMT DEF In

LEMMA InitRefines ==
  ASSUME Reliable, Init
  PROVE  CD!Init
<1>1. file \in [Records -> Value] /\ card = file
  BY InitType DEF Init, TypeOK
<1>2. DiskOf(file) \in [Sectors -> Value]
  BY <1>1, DiskOfType
<1> QED
  BY <1>1, <1>2, Registers DEF Init, CD!Init, CD!OK, DiskOf

LEMMA CommandRefines ==
  ASSUME Reliable, TypeOK, BiosCommand
  PROVE  CD!Next
<1>1. CASE NoSuchDrive
  <2>1. CD!Refuse
    BY <1>1, Registers, RegistersPrime
       DEF NoSuchDrive, HasDrive, SetDiskErr, store, CD!Refuse, CD!NoDrive
  <2> QED
    BY <2>1 DEF CD!Next
<1>2. ASSUME Address \in Sectors, NEW k \in FetchCounts(Blk), ReadSector(k)
      PROVE  CD!Next
  <2>1. buffer'[Off] = file[RecordOf(Address)]
    BY <1>2, FetchedSector DEF ReadSector
  <2>2. card' = file /\ file' = file
    BY <1>2, FetchedSector DEF ReadSector
  <2>3. CD!Read
    BY <1>2, <2>1, <2>2, Registers, RegistersPrime
       DEF ReadSector, SetDiskErr, Address, Area, CD!Read, CD!OK
  <2> QED
    BY <2>3 DEF CD!Next
<1>3. ASSUME Address \in Sectors, NEW k \in FetchCounts(Blk), WriteSector(k)
      PROVE  CD!Next
  <2> DEFINE new == [file EXCEPT ![RecordOf(Address)] = sram[Area]]
  <2>1. cur_blk' = Blk /\ buffer' = [Fetched(Blk, k) EXCEPT ![Off] = sram[Area]]
    BY <1>3, FetchedSector DEF WriteSector
  <2>2. PICK o \in StoreOutcomes(Blk, buffer') :
          /\ file' = o[2]
          /\ card' = CardAfterStore(o, file)
          /\ SetDiskErr(WriteStatus(o[1]))
    BY <1>3, <2>1, FetchedSector DEF WriteSector
  <2>3. Stored(Blk, buffer') = new
    BY <1>3, <2>1, StoredSector
  <2>4. /\ o[1] \in {0, -1} /\ o[2] \in {file, new}
        /\ o[1] = 0 => o[2] = new
    BY <2>3 DEF StoreOutcomes
  <2>5. card' \in {file, file'}
    BY <2>2 DEF CardAfterStore
  <2>6. DiskOf(new) = [DiskOf(file) EXCEPT ![Address] = sram[Area]]
    BY <1>3, DiskOfWrite DEF TypeOK
  <2>7. DiskOf(file') \in {DiskOf(file), DiskOf(new)}
        /\ DiskOf(card') \in {DiskOf(file), DiskOf(file')}
    BY <2>2, <2>4, <2>5
  <2>8. \/ disk_err' = 0 /\ DiskOf(file') = DiskOf(new)
        \/ disk_err' = 6 /\ DiskOf(file') \in {DiskOf(file), DiskOf(new)}
    BY <2>2, <2>4, <2>7 DEF SetDiskErr, WriteStatus
  <2>9. CD!Write
    BY <1>3, <2>2, <2>6, <2>7, <2>8, Registers, RegistersPrime
       DEF WriteSector, SetDiskErr, Address, Area, DiskOf,
           CD!Write, CD!OK, CD!IoError
  <2> QED
    BY <2>9 DEF CD!Next
<1>4. ASSUME Address \in Sectors, NEW k \in FetchCounts(Blk), RefuseCommand(k)
      PROVE  CD!Next
  <2>1. card' = file /\ file' = file
    BY <1>4, FetchedSector DEF RefuseCommand
  <2>2. CD!Refuse
    BY <1>4, <2>1, Registers, RegistersPrime
       DEF RefuseCommand, SetDiskErr, Address, CD!Refuse, CD!Refused
  <2> QED
    BY <2>2 DEF CD!Next
<1> QED
  BY <1>1, <1>2, <1>3, <1>4
     DEF BiosCommand, Command, ReadSector, WriteSector, RefuseCommand

LEMMA OthersRefine ==
  ASSUME Reliable, TypeOK, Others
  PROVE  CD!Next \/ UNCHANGED CD!vars
<1>1. CASE OutDrive
  <2>1. CD!Select
    BY <1>1, Registers, RegistersPrime DEF OutDrive, store, CD!Select
  <2> QED
    BY <2>1 DEF CD!Next
<1>2. CASE OutTrack
  <2>1. CD!Select
    BY <1>2, Registers, RegistersPrime DEF OutTrack, store, CD!Select
  <2> QED
    BY <2>1 DEF CD!Next
<1>3. CASE OutSect
  <2>1. CD!Select
    BY <1>3, Registers, RegistersPrime DEF OutSect, store, CD!Select
  <2> QED
    BY <2>1 DEF CD!Next
<1>4. CASE OutDmaLo
  <2>1. CD!SelectArea
    BY <1>4, Registers, RegistersPrime DEF OutDmaLo, store, CD!SelectArea
  <2> QED
    BY <2>1 DEF CD!Next
<1>5. CASE OutDmaHi
  <2>1. CD!SelectArea
    BY <1>5, Registers, RegistersPrime DEF OutDmaHi, store, CD!SelectArea
  <2> QED
    BY <2>1 DEF CD!Next
<1>6. CASE Poke
  <2>1. CD!Poke
    BY <1>6, Registers, RegistersPrime DEF Poke, regs, store, CD!Poke
  <2> QED
    BY <2>1 DEF CD!Next
<1>7. CASE WriteProtect
  <2>1. CD!Protect
    BY <1>7, Registers, RegistersPrime DEF WriteProtect, store, CD!Protect
  <2> QED
    BY <2>1 DEF CD!Next
<1>8. CASE FetchBlock
  <2>1. card' \in {card, file} /\ file' = file /\ UNCHANGED <<regs, sram>>
    BY <1>8 DEF FetchBlock, CardsAfterFetch
  <2>2. CD!Sync \/ UNCHANGED CD!vars
    BY <2>1, Registers, RegistersPrime DEF regs, CD!Sync, CD!vars
  <2> QED
    BY <2>2 DEF CD!Next
<1>9. CASE Restart
  <2>1. CD!Restart
    BY <1>9, Registers, RegistersPrime DEF Restart, CD!Restart, CD!OK
  <2> QED
    BY <2>1 DEF CD!Next
<1>10. CASE MonitorReset
  <2>1. CD!Restart
    BY <1>10, Registers, RegistersPrime DEF MonitorReset, regs, CD!Restart
  <2> QED
    BY <2>1 DEF CD!Next
<1> QED
  BY <1>1, <1>2, <1>3, <1>4, <1>5, <1>6, <1>7, <1>8, <1>9, <1>10 DEF Others

(* On an image that holds every sector in use, with fetches that do not fail *)
(* and a BIOS that keeps to those sectors, the controller and the block      *)
(* driver are the disk of independent sectors (machine.c and sdcard_*.c).    *)
THEOREM Refinement ==
  ASSUME Reliable
  PROVE  BiosSpec => ImplementsCpmDisk
<1>1. Init => CD!Init
  BY InitRefines
<1>2. TypeOK /\ [BiosNext]_vars => [CD!Next]_(CD!vars)
  <2> SUFFICES ASSUME TypeOK, [BiosNext]_vars
               PROVE  CD!Next \/ UNCHANGED CD!vars
    OBVIOUS
  <2>1. CASE UNCHANGED vars
    BY <2>1, Registers, RegistersPrime DEF vars, regs, store, CD!vars
  <2> QED
    BY <2>1, CommandRefines, OthersRefine DEF BiosNext
<1>3. BiosSpec => []TypeOK
  BY BiosIsSpec, Typing, PTL
<1> QED
  BY <1>1, <1>2, <1>3, PTL DEF BiosSpec, CD!Spec, ImplementsCpmDisk

-----------------------------------------------------------------------------
(* What a restart can take back. *)

IsDisk(f) == f = [a \in Sectors |-> f[a]]

(* The disk lags by one sector at most: a property of every step of CpmDisk. *)
LEMMA LagStep ==
  ASSUME NEW disk, NEW medium, NEW disk1, NEW medium1, NEW a \in Sectors, NEW v,
         IsDisk(disk), IsDisk(medium),
         disk1 \in {disk, medium, [disk EXCEPT ![a] = v]},
         medium1 \in {medium, disk, disk1},
         disk1 # disk => medium1 \in {disk, disk1},
         NEW s \in Sectors, NEW t \in Sectors,
         medium[s] # disk[s] /\ medium[t] # disk[t] => s = t,
         medium1[s] # disk1[s], medium1[t] # disk1[t]
  PROVE  s = t
BY DEF IsDisk

LEMMA LagNext ==
  CD!LagsByOneSector /\ [CD!Next]_(CD!vars) => CD!LagsByOneSector'
<1> SUFFICES ASSUME CD!LagsByOneSector, [CD!Next]_(CD!vars)
             PROVE  CD!LagsByOneSector'
  OBVIOUS
<1> DEFINE disk == DiskOf(file)
           medium == DiskOf(card)
           disk1 == DiskOf(file')
           medium1 == DiskOf(card')
<1>1. IsDisk(disk) /\ IsDisk(medium)
  BY DEF DiskOf, IsDisk
<1>2. \A s, t \in Sectors : medium[s] # disk[s] /\ medium[t] # disk[t] => s = t
  BY DEF CD!LagsByOneSector, DiskOf
<1>3. \/ disk1 = disk /\ medium1 \in {medium, disk}
      \/ disk1 = medium /\ medium1 = disk1
      \/ \E a \in Sectors : \E v :
           disk1 \in {disk, [disk EXCEPT ![a] = v]} /\ medium1 \in {disk, disk1}
  <2>1. CASE UNCHANGED CD!vars \/ CD!Select \/ CD!SelectArea \/ CD!Poke \/ CD!Protect
    <3>1. disk1 = disk /\ medium1 = medium
      BY <2>1 DEF CD!vars, CD!Select, CD!SelectArea, CD!Poke, CD!Protect, DiskOf
    <3> QED
      BY <3>1
  <2>2. CASE CD!Sync \/ CD!Read \/ CD!Refuse
    <3>1. disk1 = disk /\ medium1 \in {medium, disk}
      BY <2>2 DEF CD!Sync, CD!Read, CD!Refuse, DiskOf
    <3> QED
      BY <3>1
  <2>3. CASE CD!Write
    <3> DEFINE a == <<In(10), In(11), In(12)>>
               v == sram[<<In(16), In(15)>>]
    <3>1. /\ a \in Sectors
          /\ disk1 \in {disk, [disk EXCEPT ![a] = v]}
          /\ medium1 \in {disk, disk1}
      BY <2>3 DEF CD!Write, DiskOf
    <3> HIDE DEF a, v
    <3> QED
      BY <3>1
  <2>4. CASE CD!Restart
    <3>1. disk1 \in {disk, medium} /\ medium1 = disk1
      BY <2>4 DEF CD!Restart, DiskOf
    <3> QED
      BY <3>1
  <2> QED
    BY <2>1, <2>2, <2>3, <2>4 DEF CD!Next
<1> HIDE DEF disk, medium, disk1, medium1
<1>4. \A s, t \in Sectors : medium1[s] # disk1[s] /\ medium1[t] # disk1[t] => s = t
  BY <1>1, <1>2, <1>3, LagStep
<1> QED
  BY <1>4 DEF CD!LagsByOneSector, disk1, medium1, DiskOf

(* Whenever the AVR loses its power or the POSIX process is killed, the next *)
(* start finds all but at most the sector written last (sdcard_posix.c       *)
(* leaves the stored block to stdio).                                        *)
THEOREM CrashBound ==
  ASSUME Reliable
  PROVE  BiosSpec => []CrashLosesOneSectorAtMost
<1>1. CD!Init => CD!LagsByOneSector
  BY DEF CD!Init, CD!LagsByOneSector
<1>2. CD!Spec => []CD!LagsByOneSector
  BY <1>1, LagNext, PTL DEF CD!Spec
<1> QED
  BY <1>2, Refinement, PTL DEF ImplementsCpmDisk, CrashLosesOneSectorAtMost
==============================================================================
