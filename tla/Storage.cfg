SPECIFICATION StorageSpec
CONSTANTS
  SPC = 2
  EPB = 2
  DirEntries = 8
  KeyBlocks = 4
  BootBlocks = 2
  FatNext <- MCLargeNext
  Directory <- MCLarge
  Names = {"DISK1", "DISK2", "DISK3", "SUB", "EMPTY", ".", ".."}
  None = None
  Commands = {"b", "ls", "cd", "m", "r", "cd /", "sf"}
  MountNames = {"DISK1", "DISK2", "DISK3", "EMPTY"}
  MonBlocks = {0, 4, 9}
  DiskBlocks = {0, 1, 2, 4, 6}
INVARIANTS
  StorageTypeOK
  ReachesItsBlock
  NameWhole
PROPERTIES
  StaysInImage
  MountFindsFile
  AutoBootKept
  MountKept
  TruncatedStaysInBlock
