SPECIFICATION SerialSpec
CONSTANTS
  Bits = 3
  Size = 8
  MaxSent = 20
INVARIANTS
  SerialTypeOK
PROPERTIES
  Exact
  InOrder
  PeekKept
  DuplexExact
  FramesExact
