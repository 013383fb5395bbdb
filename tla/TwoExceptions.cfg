SPECIFICATION Spec
CONSTANTS
  ReadTasks = {r1}
  WriteTasks = {}
  AcceptTasks = {a1}
  nWorkerThreads = 2
  Main = main
  NoTask = noTask
  MaxRuns = 1
  Faults = {}
SYMMETRY Symmetry
INVARIANTS NoUnhandledException
CHECK_DEADLOCK FALSE
