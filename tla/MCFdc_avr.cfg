SPECIFICATION BiosSpec
CONSTANTS
  Value = {0, 1}
  Zero = 0
  Records <- McRecords
  Drives = {0, 1, 8}
  Tracks = {0, 76}
  Sects = {0, 1, 26}
  DmaLo = {0, 128}
  DmaHi = {0}
  Commands = {0, 1, 2}
  MonBlocks = {0}
  Images <- McImages
  Sectors <- McSectors
  ReadErrors = FALSE
  WriteErrors = TRUE
  CurBlkFirst = TRUE
  WriteBehind = FALSE
INVARIANTS
  TypeOK
PROPERTIES
  ImplementsCpmDisk
