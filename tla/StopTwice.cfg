SPECIFICATION Spec
CONSTANTS
  ReadTasks = {r1}
  WriteTasks = {}
  AcceptTasks = {a1}
  nWorkerThreads = 1
  Main = main
  NoTask = noTask
  MaxRuns = 1
  Faults = {}
SYMMETRY Symmetry
INVARIANTS StopAssertMeansNotRunning
CHECK_DEADLOCK FALSE
