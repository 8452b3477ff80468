--------------------------------- MODULE Fat ---------------------------------
(* The FAT16 reader (fat.c) under the monitor's ls, cd, m, sf and b commands *)
(* and under the floppy disk controller, when the card holds a FAT file      *)
(* system and a disk image is a file of it (sd_fat = 1).                     *)
(*                                                                           *)
(* The buffer of the block driver is known by the block it holds, cur_blk.   *)
(* Offsets are counted in directory entries (32 bytes), EPB to a block.      *)
(* No fetch fails here (Fdc treats that), and the FAT is one block long.     *)
EXTENDS Integers, FiniteSetsExt, TLC

CONSTANTS
  SPC,               \* sectors_per_cluster
  EPB,               \* directory entries in a block: 16
  DirEntries,        \* dir_entries of the root directory
  KeyBlocks,         \* blocks the cache's 16-bit offset tells apart: 128
  BootBlocks,        \* blocks boot() loads: 13
  FatNext,           \* the FAT: cluster -> next cluster, or 0 at the end
  Directory,         \* block -> slot -> entry, or None; other blocks hold none
  Names, None,
  Commands,          \* the monitor commands that are given
  MountNames, MonBlocks, DiskBlocks   \* their arguments; those of port 13

Mbr == 0
Bpb == 1
FatBlock == 2        \* fat_first_sect + reserved_sectors
DirSector == 3
Slot == 0..EPB - 1
RootBlocks == (DirEntries + EPB - 1) \div EPB
DirSize == (DirEntries \div EPB + SPC - 1) \div SPC     \* in clusters
Clusters == DOMAIN FatNext
ClusterLength == SPC * EPB

(* An empty file and the entry of the root directory have cluster 0. *)
Entry == [name : Names, isDir : BOOLEAN, cluster : Clusters \cup {0}, size : Nat]

FatAssumption ==
  /\ SPC \in Nat \ {0} /\ EPB \in Nat \ {0}
  /\ DirEntries \in Nat \ {0} /\ DirEntries % EPB = 0
  /\ KeyBlocks \in Nat \ {0, 1} /\ RootBlocks <= KeyBlocks
  /\ BootBlocks \in Nat \ {0} /\ None \notin Nat \cup Names
  /\ Clusters \subseteq Nat \ {0, 1} /\ FatNext \in [Clusters -> Clusters \cup {0}]
  /\ \A b \in DOMAIN Directory : \A s \in Slot : Directory[b][s] \in Entry \cup {None}
  /\ Commands \subseteq {"r", "b", "ls", "cd", "cd /", "m", "sf"}
  /\ MonBlocks \subseteq Nat /\ DiskBlocks \subseteq Nat /\ MountNames \subseteq Names

VARIABLES
  dir_cluster,                            \* of the directory in use, 0: root
  file_cluster, file_offset, file_size,   \* offset and size in blocks
  last_cluster, last_offset,              \* the cache; the offset in blocks
  cur_blk,                                \* block in the driver's buffer
  sd_fat, eeprom,                         \* machine.c; stored name, or None
  mode, next_blk,                         \* who runs; block boot() reads next
  asked,                                  \* block the last disk_read was for
  seen,                                   \* blocks of the image read in a row
                                          \* that the cache's key does not tell apart
  mixed,                                  \* sf, cd, r or a boot without an image
                                          \* used the buffer
  damaged                                 \* a write went outside the image

file == <<file_cluster, file_offset, file_size>>
cache == <<last_cluster, last_offset, cur_blk>>
vars == <<dir_cluster, file, cache, sd_fat, eeprom, mode, next_blk, asked,
          seen, mixed, damaged>>

-----------------------------------------------------------------------------
(* fetch_cluster: the cache, the walk along the FAT and the block fetched.   *)

Key(off) == (off \div EPB) % KeyBlocks

(* Mutation: the key has room for half the offset only. *)
HitNarrow(c, off) ==
  c = last_cluster /\ Key(off) % (KeyBlocks \div 2) = last_offset % (KeyBlocks \div 2)

(* Offsets that differ above their low 16 bits have one key. *)
Hit(c, off) == c = last_cluster /\ Key(off) = last_offset % KeyBlocks

(* The cluster that p[2] links of the FAT lead to from p[1], or 0. *)
Chain[p \in (Clusters \cup {0}) \X Nat] ==
  IF p[1] = 0 \/ p[2] = 0 THEN p[1] ELSE Chain[<<FatNext[p[1]], p[2] - 1>>]

(* `while (offset > cluster)`: how often it follows the FAT. *)
Hops(off) == IF off = 0 THEN 0 ELSE (off - 1) \div ClusterLength

ClusterSector(c) == DirSector + (DirSize + c - 2) * SPC

(* The block of an offset, or FatBlock, which the buffer is left with, when  *)
(* the chain ends before it.                                                 *)
Located(c, off) ==
  IF c = 0 THEN DirSector + off \div EPB
  ELSE LET d == Chain[<<c, Hops(off)>>]
       IN  IF d = 0 THEN FatBlock
           ELSE ClusterSector(d) + (off - Hops(off) * ClusterLength) \div EPB

FetchCluster(c, off) ==
  \/ Hit(c, off) /\ UNCHANGED cache
  \/ /\ ~ Hit(c, off)
     /\ last_cluster' = c
     /\ last_offset' = off \div EPB
     /\ cur_blk' = Located(c, off)

-----------------------------------------------------------------------------
(* fat_next, repeated from fat_rewind: the scan of a directory, with the     *)
(* block buf in the buffer at its start.  Only the first block can be in the *)
(* cache then, and only the first entry of a block needs a fetch.            *)

ScanBlock(buf, d, i) ==
  IF i < EPB /\ Hit(d, 0) THEN buf ELSE Located(d, i - (i % EPB))

(* Mutation: the directory ends with its first block. *)
ScannedFirst(buf, d) == 0..EPB - 1

(* Entries before the scan's limit or the end of the directory's chain. *)
Scanned(buf, d) ==
  {i \in 0..DirEntries - 1 : \A j \in 0..i : ScanBlock(buf, d, j) # FatBlock}

EntryAt(buf, d, i) ==
  LET b == ScanBlock(buf, d, i)
  IN  IF b \in DOMAIN Directory THEN Directory[b][i % EPB] ELSE None

Matches(buf, d, n, dirsOnly) ==
  {i \in Scanned(buf, d) :
     LET e == EntryAt(buf, d, i)
     IN  e # None /\ e.name = n /\ (dirsOnly => e.isDir)}

ScanStops(buf, d, i) ==
  /\ last_cluster' = d
  /\ last_offset' = IF i < EPB /\ Hit(d, 0) THEN last_offset ELSE i \div EPB
  /\ cur_blk' = ScanBlock(buf, d, i)
  /\ seen' = {}

(* The scan looks at every entry, or at the one past the chain's end too. *)
ScanAll(buf, d) ==
  ScanStops(buf, d, IF Scanned(buf, d) = {} THEN 0
                    ELSE IF Max(Scanned(buf, d)) = DirEntries - 1 THEN DirEntries - 1
                    ELSE Max(Scanned(buf, d)) + 1)

(* fat_open and its fat_seek(0), which fails on an empty file. *)
FatOpen(e) ==
  /\ file_cluster' = e.cluster
  /\ file_size' = e.size
  /\ file_offset' = IF e.size > 0 THEN 0 ELSE file_offset

MountIn(buf, d, n) ==
  IF Matches(buf, d, n, FALSE) = {}
  THEN /\ ScanAll(buf, d)
       /\ sd_fat' = 0
       /\ UNCHANGED <<file, eeprom>>
  ELSE LET i == Min(Matches(buf, d, n, FALSE))
       IN  /\ ScanStops(buf, d, i)
           /\ FatOpen(EntryAt(buf, d, i))
           /\ sd_fat' = 1
           /\ eeprom' = n

-----------------------------------------------------------------------------
(* The monitor. *)

Monitor(c) ==
  /\ mode = "monitor" /\ ~ damaged
  /\ c \in Commands
  /\ asked' = None
  /\ mixed' = (mixed \/ c \in {"sf", "cd /"})
  /\ UNCHANGED damaged

Ls ==
  /\ Monitor("ls")
  /\ ScanAll(cur_blk, dir_cluster)
  /\ UNCHANGED <<dir_cluster, file, sd_fat, eeprom, mode, next_blk>>

Cd(n) ==
  /\ Monitor("cd")
  /\ LET found == Matches(cur_blk, dir_cluster, n, TRUE)
     IN  IF found = {} THEN ScanAll(cur_blk, dir_cluster) /\ UNCHANGED dir_cluster
         ELSE /\ ScanStops(cur_blk, dir_cluster, Min(found))
              /\ dir_cluster' = EntryAt(cur_blk, dir_cluster, Min(found)).cluster
  /\ UNCHANGED <<file, sd_fat, eeprom, mode, next_blk>>

(* cd without an argument is fat_init. *)
CdRoot ==
  /\ Monitor("cd /")
  /\ dir_cluster' = 0
  /\ cur_blk' = Bpb
  /\ UNCHANGED <<file, last_cluster, last_offset, sd_fat, eeprom, mode, next_blk, seen>>

Mount(n) ==
  /\ Monitor("m")
  /\ MountIn(cur_blk, dir_cluster, n)
  /\ UNCHANGED <<dir_cluster, mode, next_blk>>

SdFetch(b) ==
  /\ Monitor("sf")
  /\ cur_blk' = b
  /\ UNCHANGED <<dir_cluster, file, last_cluster, last_offset, sd_fat, eeprom, mode,
                 next_blk, seen>>

(* machine_boot, after power-on or after r: the static variables of fat.c    *)
(* live on over a reset.  The automatic boot is the choice of a mode.        *)
MachineBoot ==
  /\ mode = "off" \/ (mode = "monitor" /\ "r" \in Commands /\ ~ damaged)
  /\ dir_cluster' = 0
  /\ IF eeprom # None THEN MountIn(Bpb, 0, eeprom)
     ELSE /\ cur_blk' = Bpb /\ sd_fat' = 1
          /\ UNCHANGED <<file, last_cluster, last_offset, eeprom, seen>>
  /\ mode' \in {"monitor", "boot"}
  /\ next_blk' = 0 /\ asked' = None
  /\ mixed' = (mixed \/ mode = "monitor")
  /\ UNCHANGED damaged

Boot ==
  /\ Monitor("b")
  /\ mode' = "boot" /\ next_blk' = 0
  /\ UNCHANGED <<dir_cluster, file, cache, sd_fat, eeprom, seen>>

(* HALT leads back to the monitor. *)
Halt ==
  /\ mode = "cpm" /\ ~ damaged
  /\ mode' = "monitor" /\ asked' = None
  /\ UNCHANGED <<dir_cluster, file, cache, sd_fat, eeprom, next_blk, seen, mixed, damaged>>

-----------------------------------------------------------------------------
(* disk_read, of boot() and of the controller. *)

(* Mutation: the seek does not look at the size. *)
FatSeekBlind(b) == file_offset' = b

FatSeek(b) == file_offset' = IF b < file_size THEN b ELSE file_offset

(* Past the end of the image the read is one of the block sought before.     *)
Sees(b) == seen' = {b} \cup {a \in seen : a % KeyBlocks = b % KeyBlocks}

DiskRead(b) ==
  /\ asked' = b
  /\ IF sd_fat = 0
     THEN cur_blk' = b /\ UNCHANGED <<last_cluster, last_offset, file_offset, seen>>
     ELSE /\ FatSeek(b) /\ FetchCluster(file_cluster, file_offset' * EPB)
          /\ Sees(IF b < file_size THEN b ELSE file_offset)
  /\ UNCHANGED <<dir_cluster, file_cluster, file_size, sd_fat, eeprom>>

BootRead ==
  /\ mode = "boot"
  /\ DiskRead(next_blk)
  /\ IF next_blk + 1 < BootBlocks
     THEN next_blk' = next_blk + 1 /\ UNCHANGED mode
     ELSE next_blk' = 0 /\ mode' = "cpm"
  /\ mixed' = (mixed \/ sd_fat = 0 \/ file_size = 0)
  /\ UNCHANGED damaged

(* The block of the b-th block of a file, by the layout of the file system. *)
BlockOf(c, b) == ClusterSector(Chain[<<c, b \div SPC>>]) + (b % SPC)
FileBlocks == {BlockOf(file_cluster, b) : b \in 0..file_size - 1}

(* A write goes where the read before it went (sdcard_flush).  Only an image *)
(* holds a system that gives commands.  Once one wrote outside the image, to *)
(* another file or directory, only commands follow.                          *)
Command(b, write) ==
  /\ mode = "cpm"
  /\ sd_fat = 1 /\ file_size > 0
  /\ DiskRead(b)
  /\ damaged' = (damaged \/ (write /\ cur_blk' \notin FileBlocks))
  /\ UNCHANGED <<mode, next_blk, mixed>>

Init ==
  /\ dir_cluster = 0
  /\ file_cluster = 0 /\ file_offset = 0 /\ file_size = 0
  /\ last_cluster = None /\ last_offset = 0
  /\ cur_blk = Mbr
  /\ sd_fat = 0 /\ eeprom \in {None} \cup MountNames
  /\ mode = "off" /\ next_blk = 0
  /\ asked = None /\ seen = {} /\ mixed = FALSE /\ damaged = FALSE

Next ==
  \/ MachineBoot \/ Boot \/ BootRead \/ Halt
  \/ Ls \/ CdRoot
  \/ \E n \in MountNames : Mount(n)
  \/ \E n \in Names : Cd(n)
  \/ \E b \in MonBlocks : SdFetch(b)
  \/ \E b \in DiskBlocks, write \in BOOLEAN : Command(b, write)

Spec == Init /\ [][Next]_vars

-----------------------------------------------------------------------------
(* The offset of fat_seek stays inside the file, also when the file was      *)
(* changed since (an empty file keeps the offset of the file before), and    *)
(* the boot stays within its blocks.                                         *)
TypeOK ==
  /\ dir_cluster \in Clusters \cup {0} /\ file_cluster \in Clusters \cup {0}
  /\ file_size \in Nat /\ file_offset \in Nat
  /\ file_size > 0 => file_offset < file_size
  /\ last_cluster \in Clusters \cup {0, None} /\ last_offset \in Nat
  /\ cur_blk \in Nat /\ seen \subseteq Nat
  /\ sd_fat \in {0, 1} /\ eeprom \in Names \cup {None}
  /\ mode \in {"off", "monitor", "boot", "cpm"} /\ next_blk \in 0..BootBlocks - 1
  /\ asked \in Nat \cup {None} /\ mixed \in BOOLEAN /\ damaged \in BOOLEAN

(* Block b is the first of a cluster that does not follow the one before it  *)
(* on the card: `while (offset > cluster)` stops one cluster short of it.    *)
BeginsPiece(c, b) ==
  /\ b > 0 /\ b % SPC = 0
  /\ Chain[<<c, b \div SPC>>] \notin {0, Chain[<<c, b \div SPC - 1>>] + 1}

(* A block of the mounted image was read, and the buffer is the cache's: sf, *)
(* cd without a name, r and a boot without an image bring another block into *)
(* it than the cache believes, until boot() has loaded its blocks.           *)
ImageRead ==
  sd_fat = 1 /\ (mixed => mode = "cpm") /\ asked # None /\ asked < file_size

(* What boot() and the controller get for a block of the mounted image is    *)
(* that block, or one read just before it whose offset is the same in its    *)
(* low 16 bits: for an image of up to 64 KiB, that block and no other.  The  *)
(* walk goes wrong on the first block of a piece only.  Cache, seek and walk *)
(* of fat.c answer with no other block, whatever the monitor did before.     *)
ReachesItsBlock ==
  ImageRead =>
    \E b \in seen : /\ b % KeyBlocks = asked % KeyBlocks
                   /\ (BeginsPiece(file_cluster, b) \/ cur_blk = BlockOf(file_cluster, b))

(* A block of the mounted image is that block of the file, wherever the      *)
(* clusters of the file lie (disk_read, fetch_cluster).                      *)
FileRead == ImageRead => cur_blk = BlockOf(file_cluster, asked)

(* Whatever block a command names, one past the end of the image included,   *)
(* it writes to no block outside the mounted image (fat_seek, fat_read): only*)
(* one on the first block of a piece may.                                    *)
StaysInImage ==
  [][damaged' => damaged \/ \E b \in seen' : BeginsPiece(file_cluster', b)]_vars

(* The entries of a directory, by the layout of the file system. *)
DirBlocks(d) ==
  IF d = 0 THEN {DirSector + i : i \in 0..RootBlocks - 1}
  ELSE {BlockOf(d, i) : i \in {j \in 0..RootBlocks - 1 : Chain[<<d, j \div SPC>>] # 0}}
EntriesOf(d) ==
  {Directory[b][s] : b \in DirBlocks(d) \cap DOMAIN Directory, s \in Slot} \ {None}

(* The cards: every file has the clusters its size needs, in any order, an   *)
(* image has no less than the two blocks that a boot tells apart, a file is  *)
(* no directory, and the names of a directory differ.                        *)
Entries == {Directory[b][s] : b \in DOMAIN Directory, s \in Slot} \ {None}
DirClusters == {0} \cup {e.cluster : e \in {f \in Entries : f.isDir}}
Fits(c, size) == size # 1 /\ \A b \in 0..size - 1 : Chain[<<c, b \div SPC>>] # 0
Layout ==
  /\ \A e \in Entries : Fits(e.cluster, e.size) /\ (e.size > 0 => e.cluster \notin DirClusters)
  /\ \A d \in Clusters \cup {0} : \A e, f \in EntriesOf(d) : e.name = f.name => e = f
  /\ BootBlocks > 1

InOnePiece(d) == \A b \in 0..RootBlocks - 1 : ~ BeginsPiece(d, b)

(* m, and the mount of the stored name when the machine boots, find a file   *)
(* that is in the directory, if that lies in one piece, unless sf, cd, r or  *)
(* a boot without an image left another block in the buffer (after `cd .`,   *)
(* the cache may claim it).                                                  *)
MountFindsFile ==
  [][\A e \in EntriesOf(dir_cluster') :
       InOnePiece(dir_cluster') /\ ~ mixed'
         /\ (Mount(e.name) \/ (MachineBoot /\ eeprom = e.name))
         => sd_fat' = 1 /\ file_cluster' = e.cluster /\ file_size' = e.size]_vars
=============================================================================
