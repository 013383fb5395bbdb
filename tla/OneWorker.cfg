SPECIFICATION Spec
CONSTANTS
  ReadTasks = {r1, r2}
  WriteTasks = {w1}
  AcceptTasks = {a1}
  nWorkerThreads = 1
  Main = main
  NoTask = noTask
  MaxRuns = 1
  Faults = {"io"}
SYMMETRY Symmetry
INVARIANTS NoUndefinedBehaviour PacketFindsItsTask
PROPERTIES EveryKeepsPromise
CHECK_DEADLOCK FALSE
