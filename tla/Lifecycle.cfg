SPECIFICATION Spec
CONSTANTS
  ReadTasks = {r1}
  WriteTasks = {}
  AcceptTasks = {a1}
  nWorkerThreads = 3
  Main = main
  NoTask = noTask
  MaxRuns = 2
  Faults = {"io", "issue", "unmapped", "spurious"}
SYMMETRY Symmetry
INVARIANTS AsleepReason JoinNeverStuck KernelNeverWritesFreed
CHECK_DEADLOCK FALSE
