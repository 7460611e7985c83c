SPECIFICATION FairSpec
CONSTANTS
  base = base
  io1 = io1
  NoConn = 0
  Conns = {1, 2}
  Base = base
  Pools <- NoneOrOne
  MaxFd = 3
  MaxOther <- OneOfTwo
  MaxFrames = 2
INVARIANTS TypeOK NoAssertionFails NoDanglingChannel
PROPERTIES LifeSpec ClosedPeersFreed BacklogServed
