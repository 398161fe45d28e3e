SPECIFICATION FairSpec
CONSTANTS
  Addr = {a1}
  CONN_TIMEOUT = 2
  REQUEST_POLL_PERIOD = 1
  SocketTimeout = {1}
  IoMayFail = FALSE
PROPERTY ConnectedServersExpire
