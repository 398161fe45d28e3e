SPECIFICATION Spec
CONSTANTS
  Capacity = 2
  TxPeriod = 2
  RxPeriod = 2
  MaxIdx = 4
  MaxLen = 2
INVARIANT RxWakeHasSpace
