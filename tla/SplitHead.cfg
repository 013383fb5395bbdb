SPECIFICATION Spec
CONSTANTS
  Requests <- MCRequests
  BufferSize = 12
  SizeMax = 12
INVARIANTS WellFormedHeadParses
CHECK_DEADLOCK FALSE
