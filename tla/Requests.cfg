SPECIFICATION FairSpec
CONSTANTS
  Requests <- MCRequests
  BufferSize = 12
  SizeMax = 12
INVARIANTS TypeOK HeadIntact NoEarlyAnswer BodyReadFits LengthExact
PROPERTIES AnsweredWhenWellCut
CHECK_DEADLOCK FALSE
