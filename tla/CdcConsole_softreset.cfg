SPECIFICATION Spec
CONSTANTS
  TxSize = 4
  RxSize = 4
  PacketSizes = {1, 3}
  Requests = {"dte_present"}
  MaxPut = 1
  MaxSent = 4
  MaxResets = 1
PROPERTIES
  InputSurvivesReset
