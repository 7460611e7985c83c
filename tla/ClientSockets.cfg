SPECIFICATION Spec
CONSTANTS
  NumClients = 2
  MaxFd = 3
  Delays <- RetryDelays
INVARIANTS TypeOK SocketsAccounted NoDanglingChannel
CHECK_DEADLOCK FALSE
