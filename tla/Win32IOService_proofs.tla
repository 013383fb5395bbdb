----------------------- MODULE Win32IOService_proofs -----------------------
(* Theorems of module Win32IOService, for any number of worker threads, any *)
(* set of tasks, any faults and any number of calls of run().               *)
EXTENDS Win32IOService, TLAPS

\* A worker is a thread, so it makes asynchronous calls like the main thread.
LEMMA WorkersAreThreads == Workers \subseteq Threads
  BY DEF Threads

\* The types of the functions over threads, for a thread at hand.
LEMMA ThreadTypes ==
  /\ Main \in Threads
  /\ \A w \in Workers : w \in 0 .. nWorkerThreads /\ w + 1 \in 0 .. nWorkerThreads
  BY SocketAssumption DEF Threads, Workers

\* The service starts with every variable in its type.
LEMMA TypeInit == Init => TypeOK
<1> SUFFICES ASSUME Init PROVE TypeOK
  OBVIOUS
<1>1. TaskTypeOK
  BY DEF Init, TaskInit, TaskTypeOK
<1>2. SocketTypeOK
  <2>1. queue \in Seq(Packets)
    BY DEF Init, SocketInit
  <2>2. \A t \in Threads : callAt[t] = "none"
    BY DEF Init, SocketInit
  <2> QED BY <2>1, <2>2 DEF Init, SocketInit, SocketTypeOK, IOStates, CallSteps, Endings
<1>3. ServiceTypeOK
  <2>1. runIdx \in 0 .. nWorkerThreads /\ runs \in 0 .. MaxRuns
    BY SocketAssumption, ServiceAssumption DEF Init
  <2> QED BY <2>1 DEF Init, ServiceTypeOK, WorkerSteps, HandlingSteps, RunSteps
<1> QED BY <1>1, <1>2, <1>3 DEF TypeOK

\* The type invariant is inductive.
LEMMA TypeStep == TypeOK /\ [Next]_vars => TypeOK'
<1> SUFFICES ASSUME TypeOK, [Next]_vars PROVE TypeOK'
  OBVIOUS
<1> USE DEF TypeOK
<1>t. UNCHANGED taskVars => TaskTypeOK'
  BY DEF taskVars, TaskTypeOK
<1>s. UNCHANGED socketVars => SocketTypeOK'
  BY DEF socketVars, SocketTypeOK
<1>v. UNCHANGED serviceVars => ServiceTypeOK'
  BY DEF serviceVars, workerVars, runVars, ServiceTypeOK
<1>1. ASSUME NEW t \in Threads, IssueStep(t) PROVE TypeOK'
  <2> PICK k \in Tasks : Issue(t, k) \/ IssueWithoutOverlapped(t, k) \/ IssueRejected(t, k) \/ IssueUnmapped(t, k)
    BY <1>1 DEF IssueStep
  <2>1. TaskTypeOK'
    <3>1. CASE Issue(t, k)
      BY <3>1 DEF Issue, TaskTypeOK, LocalRef
    <3>2. CASE IssueWithoutOverlapped(t, k)
      BY <3>2 DEF IssueWithoutOverlapped, Destroy, Passes, TaskTypeOK
    <3>3. CASE IssueRejected(t, k)
      BY <3>3 DEF IssueRejected, Destroy, Passes, TaskTypeOK
    <3>4. CASE IssueUnmapped(t, k)
      BY <3>4, <1>t DEF IssueUnmapped
    <3> QED BY <3>1, <3>2, <3>3, <3>4
  <2>2. CASE Issue(t, k)
    BY <2>2, <2>1, <1>1, <1>v DEF IssueStep, Issue, EnterCall, SocketTypeOK, IOStates, CallSteps
  <2>3. CASE IssueWithoutOverlapped(t, k) \/ IssueRejected(t, k)
    BY <2>3, <2>1, <1>1, <1>v DEF IssueStep, IssueWithoutOverlapped, IssueRejected, SocketTypeOK, IOStates
  <2>4. CASE IssueUnmapped(t, k)
    BY <2>4, <2>1, <1>1, <1>v DEF IssueStep, IssueUnmapped, SocketTypeOK, Endings
  <2> QED BY <2>2, <2>3, <2>4
<1>2. ASSUME NEW t \in Threads, CallStep(t) PROVE TypeOK'
  <2>0. callTask[t] \in Tasks
    BY <1>2 DEF CallStep, Post, PostFails, HandOver, SocketTypeOK
  <2>1. TaskTypeOK'
    BY <1>2, <2>0 DEF CallStep, Post, PostFails, HandOver, TaskTypeOK, LocalRef, IncRef, DecRef, Destroy, Passes
  <2>2. SocketTypeOK'
    BY <1>2, <2>0 DEF CallStep, Post, PostFails, HandOver, LeaveCall, SocketTypeOK, CallSteps
  <2> QED BY <1>2, <1>v, <2>1, <2>2 DEF CallStep
<1>3. ASSUME NEW k \in Tasks, CallerDrops(k) PROVE TypeOK'
  <2>1. TaskTypeOK'
    BY <1>3 DEF CallerDrops, DropOut, DecRef, Destroy, Passes, TaskTypeOK
  <2> QED BY <1>3, <1>s, <1>v, <2>1 DEF CallerDrops, DropOut
<1>4. ASSUME NEW k \in Tasks, KernelCompletes(k) PROVE TypeOK'
  <2>1. Packet("ok", k) \in Packets /\ Packet("error", k) \in Packets
    BY DEF Packet, Packets
  <2>2. queue' \in Seq(Packets)
    <3>1. queue \in Seq(Packets)
      BY DEF SocketTypeOK
    <3>2. queue' = Append(queue, Packet("ok", k)) \/ queue' = Append(queue, Packet("error", k))
      BY <1>4 DEF KernelCompletes, Complete
    <3> QED BY <2>1, <3>1, <3>2
  <2>3. io' \in [Tasks -> IOStates]
    BY <1>4 DEF KernelCompletes, Complete, SocketTypeOK, IOStates
  <2>4. SocketTypeOK'
    BY <1>4, <2>2, <2>3 DEF KernelCompletes, Complete, SocketTypeOK
  <2> QED BY <1>4, <1>t, <1>v, <2>4 DEF KernelCompletes, Complete
<1>5. ASSUME NEW w \in Workers, TakePacket(w) PROVE Head(queue) \in Packets /\ queue' \in Seq(Packets)
  <2>1. queue \in Seq(Packets) /\ queue # <<>>
    BY <1>5 DEF TakePacket, SocketTypeOK
  <2> QED BY <1>5, <2>1 DEF TakePacket
<1>6. ASSUME NEW w \in Workers, DequeueOk(w) PROVE TypeOK'
  <2>1. Head(queue).task \in Tasks
    BY <1>5, <1>6 DEF DequeueOk, Packets, Packet
  <2>2. queue' \in Seq(Packets)
    BY <1>5, <1>6 DEF DequeueOk
  <2>3. TaskTypeOK'
    BY <1>6, <1>t DEF DequeueOk, TakePacket
  <2>4. SocketTypeOK'
    BY <1>6, <2>1, <2>2 DEF DequeueOk, TakePacket, SocketTypeOK, IOStates
  <2>5. ServiceTypeOK'
    BY <1>6, <2>1 DEF DequeueOk, Goto, ServiceTypeOK, WorkerSteps, runVars
  <2> QED BY <2>3, <2>4, <2>5
<1>7. ASSUME NEW w \in Workers, DequeueError(w) PROVE TypeOK'
  <2>1. Head(queue).task \in Tasks
    BY <1>5, <1>7 DEF DequeueError, Packets, Packet
  <2>2. queue' \in Seq(Packets)
    BY <1>5, <1>7 DEF DequeueError
  <2>3. TaskTypeOK'
    BY <1>7, <1>t DEF DequeueError, TakePacket
  <2>4. SocketTypeOK'
    BY <1>7, <2>1, <2>2 DEF DequeueError, TakePacket, SocketTypeOK, IOStates, Endings
  <2>5. ServiceTypeOK'
    BY <1>7 DEF DequeueError, Goto, ServiceTypeOK, WorkerSteps, HandlingSteps, runVars
  <2> QED BY <2>3, <2>4, <2>5
<1>8. ASSUME NEW w \in Workers, DequeuePill(w) PROVE TypeOK'
  <2>1. queue' \in Seq(Packets)
    BY <1>5, <1>8 DEF DequeuePill
  <2>2. TaskTypeOK'
    BY <1>8, <1>t DEF DequeuePill, TakePacket
  <2>3. SocketTypeOK'
    BY <1>8, <2>1 DEF DequeuePill, TakePacket, SocketTypeOK
  <2>4. ServiceTypeOK'
    BY <1>8 DEF DequeuePill, Goto, ServiceTypeOK, WorkerSteps, HandlingSteps, runVars
  <2> QED BY <2>2, <2>3, <2>4
<1>9. ASSUME NEW w \in Workers, HoldTask(w) PROVE TypeOK'
  <2>1. workerTask[w] \in Tasks
    BY <1>9 DEF HoldTask, ServiceTypeOK, HandlingSteps
  <2>2. TaskTypeOK'
    BY <1>9, <2>1 DEF HoldTask, IncRef, TaskTypeOK
  <2>3. ServiceTypeOK'
    BY <1>9, <2>1 DEF HoldTask, Goto, ServiceTypeOK, WorkerSteps, runVars
  <2> QED BY <1>9, <1>s, <2>2, <2>3 DEF HoldTask
<1>10. ASSUME NEW w \in Workers, Dispatch(w) PROVE TypeOK'
  <2>1. workerTask[w] \in Tasks
    BY <1>10 DEF Dispatch, ServiceTypeOK, HandlingSteps
  <2>2. TaskTypeOK'
    BY <1>10, <2>1 DEF Dispatch, DecRef, Destroy, Passes, TaskTypeOK
  <2>3. SocketTypeOK'
    BY <1>10 DEF Dispatch, SocketTypeOK
  <2>4. ServiceTypeOK'
    BY <1>10, <2>1 DEF Dispatch, Goto, ServiceTypeOK, WorkerSteps, runVars
  <2> QED BY <2>2, <2>3, <2>4
<1>11. ASSUME NEW w \in Workers, Discard(w) \/ CallbackReturns(w) PROVE TypeOK'
  <2>1. workerTask[w] \in Tasks
    BY <1>11 DEF Discard, CallbackReturns, InCallback, ServiceTypeOK, HandlingSteps
  <2>2. ServiceTypeOK'
    BY <1>11, <2>1 DEF Discard, CallbackReturns, Goto, ServiceTypeOK, WorkerSteps, runVars
  <2> QED BY <1>11, <1>t, <1>s, <2>2 DEF Discard, CallbackReturns
<1>12. ASSUME WakeRun PROVE runAt' \in RunSteps /\ runIdx' \in 0 .. nWorkerThreads /\ runs' \in 0 .. MaxRuns /\ earlyWake' \in BOOLEAN
  BY <1>12, SocketAssumption DEF WakeRun, ServiceTypeOK, RunSteps
<1>13. ASSUME NEW w \in Workers, CallbackThrows(w) PROVE TypeOK'
  <2>1. workerTask[w] \in Tasks
    BY <1>13 DEF CallbackThrows, InCallback, ServiceTypeOK, HandlingSteps
  <2>2. ServiceTypeOK'
    BY <1>12, <1>13, <2>1 DEF CallbackThrows, Goto, ServiceTypeOK, WorkerSteps
  <2> QED BY <1>13, <1>t, <1>s, <2>2 DEF CallbackThrows
<1>14. ASSUME NEW w \in Workers, ReleaseTask(w) PROVE TypeOK'
  <2>1. workerTask[w] \in Tasks
    BY <1>14 DEF ReleaseTask, ServiceTypeOK, HandlingSteps
  <2>2. TaskTypeOK'
    BY <1>14, <2>1 DEF ReleaseTask, DecRef, Destroy, Passes, TaskTypeOK
  <2>3. ServiceTypeOK'
    BY <1>14 DEF ReleaseTask, Goto, ServiceTypeOK, WorkerSteps, HandlingSteps, runVars
  <2> QED BY <1>14, <1>s, <2>2, <2>3 DEF ReleaseTask
<1>15. ASSUME NEW w \in Workers, StopChecks(w) PROVE TypeOK'
  <2>1. SocketTypeOK'
    BY <1>15, WorkersAreThreads DEF StopChecks, SocketTypeOK, CallSteps, Endings
  <2> QED BY <1>15, <1>t, <1>v, <2>1 DEF StopChecks, taskVars
<1>16. ASSUME NEW w \in Workers, StopWakes(w) PROVE TypeOK'
  <2>1. SocketTypeOK'
    BY <1>16, WorkersAreThreads DEF StopWakes, SocketTypeOK, CallSteps
  <2>2. ServiceTypeOK'
    BY <1>12, <1>16 DEF StopWakes, ServiceTypeOK, workerVars
  <2> QED BY <1>16, <1>t, <2>1, <2>2 DEF StopWakes
<1>17. CASE RunEnters
  <2>1. TaskTypeOK'
    BY <1>17, <1>t DEF RunEnters
  <2>2. SocketTypeOK'
    BY <1>17 DEF RunEnters, SocketTypeOK, Endings
  <2>3. runs' \in 0 .. MaxRuns
    BY <1>17, ServiceAssumption DEF RunEnters, ServiceTypeOK
  <2>4. runIdx' \in 0 .. nWorkerThreads
    BY <1>17, SocketAssumption DEF RunEnters, ServiceTypeOK
  <2>5. exceptionStorage' \subseteq Workers
    BY <1>17 DEF RunEnters, TakeFirstException, ServiceTypeOK
  <2>6. ServiceTypeOK'
    BY <1>17, <2>3, <2>4, <2>5 DEF RunEnters, ServiceTypeOK, RunSteps, workerVars
  <2> QED BY <2>1, <2>2, <2>6
<1>18. CASE RunResumes
  <2>1. runIdx' \in 0 .. nWorkerThreads
    BY <1>18, SocketAssumption DEF RunResumes, ServiceTypeOK
  <2>2. workerAt' \in [Workers -> WorkerSteps]
    BY <1>18 DEF RunResumes, ServiceTypeOK, WorkerSteps
  <2>3. \A w \in Workers : workerAt'[w] \in HandlingSteps => workerAt[w] \in HandlingSteps
    BY <1>18 DEF RunResumes, ServiceTypeOK, HandlingSteps
  <2>4. ServiceTypeOK'
    BY <1>18, <2>1, <2>2, <2>3 DEF RunResumes, ServiceTypeOK
  <2> QED BY <1>18, <1>t, <1>s, <2>4 DEF RunResumes
<1>19. CASE RunSleeps \/ RunStartsJoin
  <2>1. ServiceTypeOK'
    BY <1>19 DEF RunSleeps, RunStartsJoin, ServiceTypeOK, RunSteps, workerVars
  <2> QED BY <1>19, <1>t, <1>s, <2>1 DEF RunSleeps, RunStartsJoin
<1>20. CASE RunWakesSpuriously
  <2>1. ServiceTypeOK'
    BY <1>12, <1>20 DEF RunWakesSpuriously, ServiceTypeOK, workerVars
  <2> QED BY <1>20, <1>t, <1>s, <2>1 DEF RunWakesSpuriously
<1>21. CASE RunPostsPill
  <2>1. Packet("pill", NoTask) \in Packets
    BY DEF Packets
  <2>2. queue' \in Seq(Packets)
    BY <1>21, <2>1 DEF RunPostsPill, SocketTypeOK
  <2>3. SocketTypeOK'
    BY <1>21, <2>2 DEF RunPostsPill, SocketTypeOK
  <2>4. runIdx' \in 0 .. nWorkerThreads
    BY <1>21, SocketAssumption DEF RunPostsPill, ServiceTypeOK
  <2>5. ServiceTypeOK'
    BY <1>21, <2>4 DEF RunPostsPill, ServiceTypeOK, workerVars
  <2> QED BY <1>21, <1>t, <2>3, <2>5 DEF RunPostsPill
<1>22. CASE RunReturns
  <2>1. ServiceTypeOK'
    BY <1>22 DEF RunReturns, TakeFirstException, ServiceTypeOK, RunSteps, workerVars
  <2> QED BY <1>22, <1>t, <1>s, <2>1 DEF RunReturns
<1>23. CASE Destroys
  <2>1. TaskTypeOK'
    BY <1>23 DEF Destroys, TaskTypeOK
  <2>2. SocketTypeOK'
    BY <1>23 DEF Destroys, SocketTypeOK, Endings
  <2>3. ServiceTypeOK'
    BY <1>23 DEF Destroys, ServiceTypeOK, RunSteps, workerVars
  <2> QED BY <2>1, <2>2, <2>3
<1>24. CASE UNCHANGED vars
  BY <1>24, <1>t, <1>s, <1>v DEF vars
<1> QED
  BY <1>1, <1>2, <1>3, <1>4, <1>6, <1>7, <1>8, <1>9, <1>10, <1>11, <1>13, <1>14, <1>15, <1>16,
     <1>17, <1>18, <1>19, <1>20, <1>21, <1>22, <1>23, <1>24
     DEF Next, WorkerStep, RunStep

\* Every variable has its type in every state.
THEOREM TypeCorrect == Spec => []TypeOK
  BY TypeInit, TypeStep, PTL DEF Spec
=============================================================================
