SPECIFICATION Spec
CONSTANTS
  ReadTasks = {r1, r2}
  WriteTasks = {w1}
  AcceptTasks = {}
  nWorkerThreads = 2
  Main = main
  NoTask = noTask
  MaxRuns = 1
  Faults = {"oom", "issue", "io"}
SYMMETRY Symmetry
INVARIANTS TypeOK RefCountExact Ownership ReadTasksSafe JoinCovered
PROPERTIES KeepsPromise
CHECK_DEADLOCK FALSE
