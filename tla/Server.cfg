SPECIFICATION FairSpec
CONSTANTS
  Clients = {c1, c2}
  NoClient = noClient
  Workers = {w1}
  Handlers <- MCHandlers
  StopPath <- MCStopPath
  Requests <- MCRequests
  Pieces = 2
  Faults = {"oom", "refused", "unreported", "failed", "pending", "handler"}
INVARIANTS TypeOK RegistryExact OwnBytesUnlessShared AnswerRight NothingForgotten ReadsHaveTheirBuffer CallbacksSeeLiveConnections DestroyedOnce
PROPERTIES ClientServed
CHECK_DEADLOCK FALSE
