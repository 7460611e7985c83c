SPECIFICATION FairSpec
CONSTANTS
  Header = 2
  Sizes = {0, 1, 3}
  MaxFrames = 3
  Room = 3
INVARIANTS TypeOK WritingWithOutput WholeFrames AllBeforeEnd
PROPERTIES EveryFrameArrives ShutdownArrives
CHECK_DEADLOCK FALSE
