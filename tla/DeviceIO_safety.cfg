SPECIFICATION Spec
CONSTANTS
  Clients = {c1, c2, c3}
  MAX_CLIENTS = 2
  TICKS_PER_TIMESTAMP = 2
  FRAMES_PER_TIMESTAMP = 3
  MaxTime = 7
INVARIANTS TypeOK CountIsClients TimestampsLinear LatestTimestamp PanicNeedsOverlap
PROPERTY ClockContract
CHECK_DEADLOCK FALSE
