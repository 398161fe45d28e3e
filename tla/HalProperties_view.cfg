SPECIFICATION Spec
CONSTANTS
  N_CHANNELS = 1
  VOL_DB_RANGE = 2
  Power10 <- MCPower10
  Threads = {t1, t2}
  MaxSets = 2
INVARIANTS TypeOK ObjectTree  ViewCurrent
PROPERTY SetReadsBack
CHECK_DEADLOCK FALSE
