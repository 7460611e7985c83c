SPECIFICATION Spec
CONSTANTS
  c1 = c1
  c2 = c2
  u1 = u1
  u2 = u2
  f = f
  g = g
  NoFile = NoFile
  Clients = {c1}
  Users = {u1}
  Names = {f}
  Params <- TreeParams
  Commands = {"puts", "gets", "remove", "mkdir", "cd", "ls", "pwd"}
  MaxDepth = 2
  MaxWay = 4
  NumInodes = 4
  BufLen = 2
  PollOrders = {"getsFirst"}
  FdsRunOut = FALSE
  Users0 = {}
  Local0 <- SmallLocal
  Stored0 <- NoStored
 
PROPERTIES WorkingDirStays
CHECK_DEADLOCK FALSE
