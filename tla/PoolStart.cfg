SPECIFICATION FairSpec
CONSTANTS
  NumThreads = 3
  MaxSpurious = 2
INVARIANTS
  TypeOK
  TidKnown
  LoopsExist
PROPERTIES
  PoolStarts
CHECK_DEADLOCK FALSE
