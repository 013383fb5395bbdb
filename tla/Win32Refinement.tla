-------------------------- MODULE Win32Refinement --------------------------
(***************************************************************************)
(* For its read tasks the IOCP service is an AsyncOperation.  For write and*)
(* accept tasks it is one when a single worker takes the packets and no    *)
(* call fails; in general it is not, as the violation runs show.           *)
(***************************************************************************)
EXTENDS Win32IOService

\* How far the operation of task k is, as a client sees it.  A packet that
\* was thrown away, or that reports a failure, leaves it finished.
ClientView(k) ==
  CASE io[k] = "unused"  -> "idle"
    [] io[k] = "failed"  -> "refused"
    [] io[k] = "pending" -> "started"
    [] io[k] = "queued" \/ (io[k] = "taken" /\ k \in ovlRef) -> "finished"
    [] io[k] = "taken" /\ k \notin ovlRef /\ Handled(k)  -> "inCallback"
    [] io[k] = "taken" /\ k \notin ovlRef /\ ~Handled(k) -> "over"

\* What the clients of the tasks of S see.
View(S) == [k \in S |-> ClientView(k)]
Held(S) == outRef \cap S
Gone(S) == {k \in S : released[k] # 0}

Abstract == INSTANCE AsyncOperation WITH
  Tasks <- ReadTasks, op <- View(ReadTasks), held <- Held(ReadTasks), gone <- Gone(ReadTasks)

Every == INSTANCE AsyncOperation WITH
  Tasks <- Tasks, op <- View(Tasks), held <- Held(Tasks), gone <- Gone(Tasks)

\* Every step of readAsync, of a worker and of the kernel is a step of the
\* promise, or invisible to the client of a read task: its callback runs at
\* most once, after the operation finished, and the task object outlives the
\* callback and the client's own reference, and goes away once.
KeepsPromise == Abstract!Spec

\* The same for the tasks of readAsync, writeAsync and acceptAsync together:
\* what the example server with its one worker thread relies on.
EveryKeepsPromise == Every!Spec
=============================================================================
