SPECIFICATION FairSessionSpec
CONSTANTS
  Addr = {a1}
  CONN_TIMEOUT = 2
  REQUEST_POLL_PERIOD = 1
  SocketTimeout = {1}
  IoMayFail = FALSE
  SendsWritten = FALSE
  MaxFaults = 0
  MaxSessions = 1
PROPERTY ConnectRequestsAnswered
