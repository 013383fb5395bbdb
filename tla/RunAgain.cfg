SPECIFICATION Spec
CONSTANTS
  ReadTasks = {r1}
  WriteTasks = {}
  AcceptTasks = {a1}
  nWorkerThreads = 1
  Main = main
  NoTask = noTask
  MaxRuns = 2
  Faults = {}
SYMMETRY Symmetry
INVARIANTS RunAssertMeansRunning
CHECK_DEADLOCK FALSE
