SPECIFICATION Spec
CONSTANTS
  c1 = c1
  c2 = c2
  u1 = u1
  u2 = u2
  f = f
  g = g
  NoFile = NoFile
  Clients = {c1, c2}
  Users = {u1}
  Names = {f}
  Params <- OneParam
  Commands = {"puts", "remove", "mkdir"}
  MaxDepth = 1
  MaxWay = 0
  NumInodes = 4
  BufLen = 2
  PollOrders = {"getsFirst"}
  FdsRunOut = FALSE
  Users0 = {}
  Local0 <- TwoLocals
  Stored0 <- NoStored
PROPERTIES DiskSpec
CHECK_DEADLOCK FALSE
