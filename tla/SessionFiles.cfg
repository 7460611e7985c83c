SPECIFICATION FairSpec
CONSTANTS
  c1 = c1
  c2 = c2
  u1 = u1
  u2 = u2
  f = f
  g = g
  NoFile = NoFile
  Clients = {c1}
  Users = {u1}
  Names = {f, g}
  Params <- FileParams
  Commands = {"puts", "gets", "remove", "mkdir", "cd", "ls", "pwd"}
  MaxDepth = 1
  MaxWay = 2
  NumInodes = 4
  BufLen = 2
  PollOrders = {"getsFirst"}
  FdsRunOut = TRUE
  Users0 = {u1}
  Local0 <- TextLocal
  Stored0 <- TextStored
INVARIANTS TypeOK InStep
PROPERTIES DiskSpec CommandsAnswered TransfersEnd
CHECK_DEADLOCK FALSE
