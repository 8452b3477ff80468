SPECIFICATION DevicesSpec
CHECK_DEADLOCK FALSE
CONSTANTS
  Ports = {64, 65}
  DataBytes = {0, 7}
  MaxTyped = 4
INVARIANTS
  DevicesTypeOK
  BusReleased
  Paired
  CcsRight
  OneWakeup
  NothingLost
PROPERTIES
  FetchRight
  StoreRight
  CallsReturn
  SleepEnds
  PutReturns
  TxDrains
