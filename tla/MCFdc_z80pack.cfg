SPECIFICATION BiosSpec
CONSTANTS
  Value = {0, 1}
  Zero = 0
  Records <- McRecordsA
  Drives = {0, 1, 8}
  Tracks = {0, 76}
  Sects = {0, 1, 26}
  DmaLo = {0, 128}
  DmaHi = {0}
  Commands = {0, 1, 2}
  MonBlocks = {0}
  Images <- McImages
  Sectors <- McSectorsA
  ReadErrors = FALSE
  WriteErrors = FALSE
  CurBlkFirst = FALSE
  WriteBehind = TRUE
PROPERTIES
  AcknowledgedWriteLands
