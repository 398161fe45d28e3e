SPECIFICATION FairSpec
CONSTANTS
  Addr = {a1, a2}
  CONN_TIMEOUT = 4
  REQUEST_POLL_PERIOD = 2
  SocketTimeout = {2}
  IoMayFail = TRUE
INVARIANTS
  TypeOK
  DeadlinesOfServers
  ActiveHasDeadline
  DeadlinePerServer
  NeverStopsItself
PROPERTIES
  TypestateContract
  SilentServersExpire
