SPECIFICATION Spec
CONSTANTS
  ReadTasks = {r1}
  WriteTasks = {w1}
  AcceptTasks = {a1}
  nWorkerThreads = 1
  Main = main
  NoTask = noTask
  MaxRuns = 1
  Faults = {"issue"}
SYMMETRY Symmetry
INVARIANTS NoDoubleRelease
CHECK_DEADLOCK FALSE
