-------------------------- MODULE MCWin32IOService --------------------------
(* Win32IOService for TLC: the tasks of a kind are interchangeable.        *)
EXTENDS Win32Refinement, TLC

Symmetry ==
  Permutations(ReadTasks) \cup Permutations(WriteTasks) \cup Permutations(AcceptTasks)
=============================================================================
