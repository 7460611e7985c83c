SPECIFICATION Spec
CONSTANTS
  Byte <- MCByte
  Zero = 0
  CheapPrepend = 1
  InitialSize = 2
  ExtraSize = 2
  MaxContent = 3
  MaxPiece = 2
INVARIANT TypeOK
PROPERTIES
  QueueSpec
  EachOperation
  GrowsWhenFull
