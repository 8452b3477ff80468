SPECIFICATION ProgramsSpec
CHECK_DEADLOCK FALSE
CONSTANTS
  Images <- MCImages
  Answers = {0, 255}
  MaxSteps = 8
  Length = 3
  Operands = {0, 1, 15, 16, 127, 128, 254, 255}
  Rows = 2
  Cols = 2
  Bytes = {20, 26, 27, 32, 33, 59, 61, 62}
  Characters = {20, 26, 27, 33, 61}
INVARIANTS
  ProgramsTypeOK
  EmulatorsAgree
PROPERTIES
  WordsComeBack
  Framed
  ImplementsScreen
