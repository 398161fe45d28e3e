SPECIFICATION JackSpec
CONSTANTS
  Capacity = 3
  TxPeriod = 2
  RxPeriod = 2
  MaxIdx = 6
  MaxLen = 4
  TxPorts = 2
  RxPorts = 2
  MaxTime = 2
  MaxFrames = 2
INVARIANT MissingSamplesPadded
CHECK_DEADLOCK FALSE
