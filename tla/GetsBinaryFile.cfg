SPECIFICATION FairSpec
CONSTANTS
  c1 = c1
  c2 = c2
  u1 = u1
  u2 = u2
  f = f
  g = g
  NoFile = NoFile
  Clients = {c1}
  Users = {u1}
  Names = {f}
  Params <- OneParam
  Commands = {"gets"}
  MaxDepth = 1
  MaxWay = 0
  NumInodes = 3
  BufLen = 2
  PollOrders = {"getsFirst"}
  FdsRunOut = FALSE
  Users0 = {u1}
  Local0 <- NoLocal
  Stored0 <- BinaryStored
PROPERTIES
  CommandsAnswered
CHECK_DEADLOCK FALSE
