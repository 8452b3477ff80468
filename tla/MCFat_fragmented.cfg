SPECIFICATION Spec
CONSTANTS
  SPC = 2
  EPB = 2
  DirEntries = 8
  KeyBlocks = 4
  BootBlocks = 2
  FatNext <- MCFragmented
  Directory <- MCSmall
  Names = {"DISK1", "DISK2", "DISK3", "SUB", "EMPTY", ".", ".."}
  None = None
  Commands = {"b", "m"}
  MountNames = {"DISK1", "DISK2", "DISK3"}
  MonBlocks = {}
  DiskBlocks = {0, 1, 2, 3}
INVARIANT FileRead
