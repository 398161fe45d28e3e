SPECIFICATION FairSpec
CONSTANTS
  Base = 10
  Headers <- MCHeaders
  FormatLists <- MCFormatLists
  Payloads <- MCPayloads
  Foreign <- MCForeign
  BufLen = 18
  EncLen = 2
  MaxQueue = 1
INVARIANTS
  TypeOK
  HandedAsSent
PROPERTY LoopsKeepServing
CHECK_DEADLOCK FALSE
