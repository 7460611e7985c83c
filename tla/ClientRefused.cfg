SPECIFICATION Spec
CONSTANTS
  NumClients = 1
  MaxFd = 3
  Delays <- RetryDelays
INVARIANTS RetryFindsNoChannel
CHECK_DEADLOCK FALSE
