SPECIFICATION FairSpec
CONSTANTS
  ReadTasks = {r1}
  WriteTasks = {}
  AcceptTasks = {a1}
  nWorkerThreads = 2
  Main = main
  NoTask = noTask
  MaxRuns = 2
  Faults = {"io", "spurious"}
PROPERTIES WokenRunReturns StopEndsRun CompletionDispatched
CHECK_DEADLOCK FALSE
