SPECIFICATION Spec
CONSTANTS
  Value = {0, 1}
  Zero = 0
  Records <- McRecordsE
  Drives = {0, 1, 8}
  Tracks = {0}
  Sects = {1}
  DmaLo = {0}
  DmaHi = {0}
  Commands = {0, 1}
  MonBlocks = {0}
  Images <- McBlankImages
  Sectors = {}
  ReadErrors = TRUE
  WriteErrors = FALSE
  CurBlkFirst = TRUE
  WriteBehind = FALSE
PROPERTIES
  CommandStaysInBlock
