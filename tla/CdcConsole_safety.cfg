SPECIFICATION Spec
CONSTANTS
  TxSize = 4
  RxSize = 4
  PacketSizes = {1, 3}
  Requests = {"dte_present", "handled", "unsupported"}
  MaxPut = 5
  MaxSent = 5
  MaxResets = 1
INVARIANTS
  TypeOK
  TxExact
  RxExact
PROPERTIES
  PeekHolds
