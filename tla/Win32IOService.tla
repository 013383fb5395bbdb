--------------------------- MODULE Win32IOService ---------------------------
(***************************************************************************)
(* The IOCP service: the worker threads (_workerThreadProc), run() in the  *)
(* main thread, stop() from a callback, destruction, and the asynchronous  *)
(* calls of module Win32Socket made by the main thread (when it is not in  *)
(* run()) and by the callbacks.  A callback is client code: it makes any   *)
(* calls, any number of times, and returns success or an exception.        *)
(***************************************************************************)
EXTENDS Win32Socket, FiniteSets

CONSTANT MaxRuns  \* bound: how often the main thread calls run()

ASSUME ServiceAssumption == MaxRuns \in Nat

VARIABLES
  workerAt,          \* workerAt[w]: where _workerThreadProc is
  workerTask,        \* workerTask[w]: the task of the packet it took
  exceptionStorage,  \* workers whose exceptionStorage holds an exception
  isRunning,         \* Win32IOService::_isRunning
  runAt,             \* where the main thread is in run()
  runIdx,            \* index of the loop run() is in
  runs,              \* calls of run() so far
  earlyWake          \* a wake came between _isRunning = true and the sleep

workerVars == <<workerAt, workerTask>>
runVars == <<runAt, runIdx, runs, earlyWake>>
serviceVars == <<workerVars, exceptionStorage, isRunning, runVars>>
vars == <<taskVars, socketVars, serviceVars>>

WorkerSteps ==
  {"suspended", "waiting", "taken", "held", "callback", "done", "threw", "exited"}
HandlingSteps == {"taken", "held", "callback", "done", "threw"}
RunSteps == {"out", "resume", "asleep", "pills", "join", "destroyed"}

Init ==
  /\ TaskInit
  /\ SocketInit
  /\ workerAt         = [w \in Workers |-> "suspended"]
  /\ workerTask       = [w \in Workers |-> NoTask]
  /\ exceptionStorage = {}
  /\ isRunning        = FALSE
  /\ runAt            = "out"
  /\ runIdx           = 0
  /\ runs             = 0
  /\ earlyWake        = FALSE

\* Worker w has the packet of task k and is not finished with it.
Handling(w, k) ==
  /\ workerAt[w] \in HandlingSteps
  /\ workerTask[w] = k

\* Somebody still has a pointer to task k and will use it.
InUse(k) ==
  \/ k \in currentTasks \cup outRef
  \/ io[k] \in {"pending", "queued"}
  \/ \E t \in Threads : Posting(t, k)
  \/ \E w \in Workers : Handling(w, k)

(***************************************************************************)
(* A pointer to released memory is about to be used, or memory was released*)
(* twice: C++ promises nothing from here on, so no step follows.           *)
(***************************************************************************)
UndefinedBehaviour ==
  \E k \in Tasks : released[k] > 1 \/ (released[k] = 1 /\ InUse(k))

Up == process = "up" /\ ~UndefinedBehaviour

\* WakeAllConditionVariable: lost unless run() is asleep.
WakeRun ==
  /\ runAt'     = IF runAt = "asleep" THEN "pills" ELSE runAt
  /\ runIdx'    = IF runAt = "asleep" THEN 0 ELSE runIdx
  /\ earlyWake' = (earlyWake \/ runAt = "resume")
  /\ UNCHANGED runs

-----------------------------------------------------------------------------
\* Mutant: the main thread may call while run() is in progress.
MayCallAnyTime(t) == IF t = Main THEN TRUE ELSE workerAt[t] = "callback"

\* The asynchronous calls.
MayCall(t) ==
  \/ t = Main /\ runAt = "out"
  \/ t \in Workers /\ workerAt[t] = "callback"

IssueStep(t) ==
  /\ Up
  /\ MayCall(t)
  /\ \E k \in Tasks :
       Issue(t, k) \/ IssueWithoutOverlapped(t, k) \/ IssueRejected(t, k) \/ IssueUnmapped(t, k)
  /\ UNCHANGED serviceVars

CallStep(t) ==
  /\ Up
  /\ Post(t) \/ PostFails(t) \/ HandOver(t)
  /\ UNCHANGED serviceVars

CallerDrops(k) ==
  /\ Up
  /\ DropOut(k)
  /\ UNCHANGED serviceVars

KernelCompletes(k) ==
  /\ Up
  /\ Complete(k)
  /\ UNCHANGED serviceVars

-----------------------------------------------------------------------------
\* The worker thread.
Goto(w, step) == workerAt' = [workerAt EXCEPT ![w] = step]

TakePacket(w) ==
  /\ Up
  /\ workerAt[w] = "waiting"
  /\ queue # <<>>
  /\ queue' = Tail(queue)
  /\ UNCHANGED <<taskVars, currentTasks, callAt, callTask>>

\* GetQueuedCompletionStatus returns a packet of an operation that succeeded.
DequeueOk(w) ==
  LET k == Head(queue).task IN
  /\ TakePacket(w)
  /\ Head(queue).what = "ok"
  /\ io' = [io EXCEPT ![k] = "taken"]
  /\ Goto(w, "taken")
  /\ workerTask' = [workerTask EXCEPT ![w] = k]
  /\ UNCHANGED <<process, exceptionStorage, isRunning, runVars>>

\* It returns FALSE for an operation that failed: the thread ends with the
\* exception, or without one when NetworkError::alloc is out of memory.  It
\* wakes nobody, and the task stays in currentTasks.
DequeueError(w) ==
  LET k == Head(queue).task IN
  /\ TakePacket(w)
  /\ Head(queue).what = "error"
  /\ io' = [io EXCEPT ![k] = "taken"]
  /\ \/ /\ exceptionStorage' = exceptionStorage \cup {w}
        /\ UNCHANGED process
     \/ /\ "oom" \in Faults
        /\ UNCHANGED <<exceptionStorage, process>>
     \/ /\ "unmapped" \in Faults
        /\ process' = "unmappedError"
        /\ UNCHANGED exceptionStorage
  /\ Goto(w, "exited")
  /\ UNCHANGED <<workerTask, isRunning, runVars>>

\* A packet with a null key, posted by run().
DequeuePill(w) ==
  /\ TakePacket(w)
  /\ Head(queue).what = "pill"
  /\ Goto(w, "exited")
  /\ UNCHANGED <<io, process, workerTask, exceptionStorage, isRunning, runVars>>

\* Mutant: rawTask takes over the reference of the overlapped block.
HoldTaskTakesOver(w) ==
  /\ Up
  /\ workerAt[w] = "taken"
  /\ ovlRef' = ovlRef \ {workerTask[w]}
  /\ Goto(w, "held")
  /\ UNCHANGED <<refs, released, outRef, socketVars, workerTask, exceptionStorage, isRunning, runVars>>

\* rawTask = iocpOverlapped->asyncTask.  The second smart pointer, task, is
\* taken and given up while rawTask is held, and is not modelled.
HoldTask(w) ==
  /\ Up
  /\ workerAt[w] = "taken"
  /\ IncRef(workerTask[w])
  /\ Goto(w, "held")
  /\ UNCHANGED <<released, ovlRef, outRef, socketVars, workerTask, exceptionStorage, isRunning, runVars>>

\* Under currentTasksMutex, the task is found: it leaves currentTasks, the
\* reference of its overlapped block is given up, its status is Done and its
\* callback starts.
Dispatch(w) ==
  LET k == workerTask[w] IN
  /\ Up
  /\ workerAt[w] = "held"
  /\ k \in currentTasks
  /\ currentTasks' = currentTasks \ {k}
  /\ ovlRef' = ovlRef \ {k}
  /\ DecRef(k, 2)
  /\ Goto(w, "callback")
  /\ UNCHANGED <<outRef, io, queue, callAt, callTask, process, workerTask, exceptionStorage, isRunning, runVars>>

\* It is not found: the packet overtook postAsyncTask and is thrown away.
Discard(w) ==
  /\ Up
  /\ workerAt[w] = "held"
  /\ workerTask[w] \notin currentTasks
  /\ Goto(w, "done")
  /\ UNCHANGED <<taskVars, socketVars, workerTask, exceptionStorage, isRunning, runVars>>

InCallback(w) == Up /\ workerAt[w] = "callback" /\ callAt[w] = "none"

CallbackReturns(w) ==
  /\ InCallback(w)
  /\ Goto(w, "done")
  /\ UNCHANGED <<taskVars, socketVars, workerTask, exceptionStorage, isRunning, runVars>>

\* Mutant: WakeAllConditionVariable is missing in a case of the switch.
CallbackThrowsQuietly(w) ==
  /\ InCallback(w)
  /\ exceptionStorage' = exceptionStorage \cup {w}
  /\ Goto(w, "threw")
  /\ UNCHANGED <<taskVars, socketVars, workerTask, isRunning, runVars>>

\* The exception is stored, run() is woken and the thread ends.
CallbackThrows(w) ==
  /\ InCallback(w)
  /\ exceptionStorage' = exceptionStorage \cup {w}
  /\ WakeRun
  /\ Goto(w, "threw")
  /\ UNCHANGED <<taskVars, socketVars, workerTask, isRunning>>

\* rawTask goes out of scope.
ReleaseTask(w) ==
  /\ Up
  /\ \/ workerAt[w] = "done"  /\ Goto(w, "waiting")
     \/ workerAt[w] = "threw" /\ Goto(w, "exited")
  /\ DecRef(workerTask[w], 1)
  /\ workerTask' = [workerTask EXCEPT ![w] = NoTask]
  /\ UNCHANGED <<ovlRef, outRef, socketVars, exceptionStorage, isRunning, runVars>>

-----------------------------------------------------------------------------
\* stop(), from a callback: the test of _isRunning, then the rest.
StopChecks(w) ==
  /\ InCallback(w)
  /\ \/ isRunning  /\ callAt' = [callAt EXCEPT ![w] = "stop"] /\ UNCHANGED process
     \/ ~isRunning /\ process' = "stopAssert" /\ UNCHANGED callAt
  /\ UNCHANGED <<taskVars, io, queue, currentTasks, callTask, serviceVars>>

\* Mutant: WakeAllConditionVariable is missing.
StopForgetsWake(w) ==
  /\ Up
  /\ callAt[w] = "stop"
  /\ callAt' = [callAt EXCEPT ![w] = "none"]
  /\ isRunning' = FALSE
  /\ UNCHANGED <<taskVars, io, queue, currentTasks, callTask, process, workerVars, exceptionStorage, runVars>>

StopWakes(w) ==
  /\ Up
  /\ callAt[w] = "stop"
  /\ callAt' = [callAt EXCEPT ![w] = "none"]
  /\ isRunning' = FALSE
  /\ WakeRun
  /\ UNCHANGED <<taskVars, io, queue, currentTasks, callTask, process, workerVars, exceptionStorage>>

-----------------------------------------------------------------------------
\* run(), in the main thread.
FirstStored == CHOOSE w \in exceptionStorage : \A v \in exceptionStorage : w <= v

\* NETKNOT_RETURN_IF_EXCEPT over threadLocalData: the first exception is
\* moved out and returned, the later ones stay.
TakeFirstException == exceptionStorage' = exceptionStorage \ {FirstStored}

RunEnters ==
  /\ Up
  /\ runAt = "out"
  /\ callAt[Main] = "none"
  /\ runs < MaxRuns
  /\ runs' = runs + 1
  /\ \/ /\ isRunning
        /\ process' = "runAssert"
        /\ UNCHANGED <<exceptionStorage, isRunning, runAt, runIdx, earlyWake>>
     \/ /\ ~isRunning
        /\ exceptionStorage # {}
        /\ TakeFirstException
        /\ UNCHANGED <<process, isRunning, runAt, runIdx, earlyWake>>
     \/ /\ ~isRunning
        /\ exceptionStorage = {}
        /\ isRunning' = TRUE
        /\ runAt' = "resume"
        /\ runIdx' = 0
        /\ earlyWake' = FALSE
        /\ UNCHANGED <<process, exceptionStorage>>
  /\ UNCHANGED <<taskVars, io, queue, currentTasks, callAt, callTask, workerVars>>

\* Mutant: the loop starts at the second thread.
RunResumesFromSecond ==
  /\ Up
  /\ runAt = "resume"
  /\ runIdx < nWorkerThreads
  /\ runIdx' = runIdx + 1
  /\ workerAt' = [workerAt EXCEPT ![runIdx] = IF @ = "suspended" /\ runIdx > 0 THEN "waiting" ELSE @]
  /\ UNCHANGED <<taskVars, socketVars, workerTask, exceptionStorage, isRunning, runAt, runs, earlyWake>>

\* ResumeThread; it does nothing to a thread that has ended.
RunResumes ==
  /\ Up
  /\ runAt = "resume"
  /\ runIdx < nWorkerThreads
  /\ runIdx' = runIdx + 1
  /\ workerAt' = [workerAt EXCEPT ![runIdx] = IF @ = "suspended" THEN "waiting" ELSE @]
  /\ UNCHANGED <<taskVars, socketVars, workerTask, exceptionStorage, isRunning, runAt, runs, earlyWake>>

\* SleepConditionVariableCS
RunSleeps ==
  /\ Up
  /\ runAt = "resume"
  /\ runIdx = nWorkerThreads
  /\ runAt' = "asleep"
  /\ UNCHANGED <<taskVars, socketVars, workerVars, exceptionStorage, isRunning, runIdx, runs, earlyWake>>

\* The condition variable may wake run() for no reason; run() does not check.
RunWakesSpuriously ==
  /\ Up
  /\ "spurious" \in Faults
  /\ runAt = "asleep"
  /\ WakeRun
  /\ UNCHANGED <<taskVars, socketVars, workerVars, exceptionStorage, isRunning>>

\* Mutant: one packet too many.
RunPostsPillOnceMore ==
  /\ Up
  /\ runAt = "pills"
  /\ runIdx <= nWorkerThreads
  /\ queue' = Append(queue, Packet("pill", NoTask))
  /\ runIdx' = runIdx + 1
  /\ UNCHANGED <<taskVars, io, currentTasks, callAt, callTask, process, workerVars, exceptionStorage, isRunning, runAt, runs, earlyWake>>

\* PostQueuedCompletionStatus, once for every worker thread.
RunPostsPill ==
  /\ Up
  /\ runAt = "pills"
  /\ runIdx < nWorkerThreads
  /\ queue' = Append(queue, Packet("pill", NoTask))
  /\ runIdx' = runIdx + 1
  /\ UNCHANGED <<taskVars, io, currentTasks, callAt, callTask, process, workerVars, exceptionStorage, isRunning, runAt, runs, earlyWake>>

\* Mutant: one packet too few.
RunStartsJoinEarly ==
  /\ Up
  /\ runAt = "pills"
  /\ runIdx >= nWorkerThreads - 1
  /\ runAt' = "join"
  /\ UNCHANGED <<taskVars, socketVars, workerVars, exceptionStorage, isRunning, runIdx, runs, earlyWake>>

RunStartsJoin ==
  /\ Up
  /\ runAt = "pills"
  /\ runIdx = nWorkerThreads
  /\ runAt' = "join"
  /\ UNCHANGED <<taskVars, socketVars, workerVars, exceptionStorage, isRunning, runIdx, runs, earlyWake>>

\* WaitForSingleObject on every thread, then the exceptions; _isRunning stays
\* as it is.
RunReturns ==
  /\ Up
  /\ runAt = "join"
  /\ \A w \in Workers : workerAt[w] = "exited"
  /\ runAt' = "out"
  /\ \/ exceptionStorage = {} /\ UNCHANGED exceptionStorage
     \/ exceptionStorage # {} /\ TakeFirstException
  /\ UNCHANGED <<taskVars, socketVars, workerVars, isRunning, runIdx, runs, earlyWake>>

\* ~Win32IOService() after run(): ~ThreadLocalData() destroys the exception
\* storages, and ~ExceptionPointer() asserts that none holds an exception;
\* then currentTasks gives up its references.
Destroys ==
  /\ Up
  /\ runAt = "out"
  /\ runs > 0
  /\ callAt[Main] = "none"
  /\ \/ /\ exceptionStorage # {}
        /\ process' = "unhandledAssert"
        /\ UNCHANGED <<refs, currentTasks, runAt>>
     \/ /\ exceptionStorage = {}
        /\ runAt' = "destroyed"
        /\ currentTasks' = {}
        /\ refs' = [k \in Tasks |-> IF k \in currentTasks THEN refs[k] - 1 ELSE refs[k]]
        /\ UNCHANGED process
  /\ UNCHANGED <<released, ovlRef, outRef, io, queue, callAt, callTask, workerVars, exceptionStorage, isRunning, runIdx, runs, earlyWake>>

-----------------------------------------------------------------------------
WorkerStep(w) ==
  \/ DequeueOk(w)
  \/ DequeueError(w)
  \/ DequeuePill(w)
  \/ HoldTask(w)
  \/ Dispatch(w)
  \/ Discard(w)
  \/ CallbackReturns(w)
  \/ CallbackThrows(w)
  \/ ReleaseTask(w)
  \/ StopChecks(w)
  \/ StopWakes(w)

RunStep ==
  \/ RunResumes
  \/ RunSleeps
  \/ RunPostsPill
  \/ RunStartsJoin
  \/ RunReturns

Next ==
  \/ \E t \in Threads : IssueStep(t) \/ CallStep(t)
  \/ \E k \in Tasks : CallerDrops(k) \/ KernelCompletes(k)
  \/ \E w \in Workers : WorkerStep(w)
  \/ RunEnters
  \/ RunStep
  \/ RunWakesSpuriously
  \/ Destroys

Spec == Init /\ [][Next]_vars

(***************************************************************************)
(* The operating system schedules every thread, and a callback that was    *)
(* started returns.  Nothing is assumed of the kernel's I/O, of the caller *)
(* of run(), or of the caller that owns an asyncTaskOut reference.         *)
(***************************************************************************)
Fairness ==
  /\ \A t \in Threads : WF_vars(CallStep(t))
  /\ \A w \in Workers : WF_vars(WorkerStep(w))
  /\ WF_vars(RunStep)

FairSpec == Spec /\ Fairness
-----------------------------------------------------------------------------
(* Properties.                                                             *)

ServiceTypeOK ==
  /\ workerAt \in [Workers -> WorkerSteps]
  /\ workerTask \in [Workers -> Tasks \cup {NoTask}]
  /\ \A w \in Workers : workerAt[w] \in HandlingSteps => workerTask[w] \in Tasks
  /\ exceptionStorage \subseteq Workers
  /\ isRunning \in BOOLEAN
  /\ runAt \in RunSteps
  /\ runIdx \in 0 .. nWorkerThreads
  /\ runs \in 0 .. MaxRuns
  /\ earlyWake \in BOOLEAN

\* Every variable has the type its declaration says.
TypeOK == TaskTypeOK /\ SocketTypeOK /\ ServiceTypeOK

B(condition) == IF condition THEN 1 ELSE 0

\* Worker w keeps rawTask, a counted pointer to task k.
Holding(w, k) == Handling(w, k) /\ workerAt[w] # "taken"

Posted(k)   == \E t \in Threads : Posting(t, k)
Handled(k)  == \E w \in Workers : Handling(w, k)
IsHeld(k)   == \E w \in Workers : Holding(w, k)

Owners(k) ==
    B(k \in currentTasks)
  + B(k \in ovlRef)
  + B(k \in outRef)
  + B(k \in ReadTasks /\ Posted(k))
  + B(IsHeld(k))

\* The count of a task that exists is the number of the counted pointers to
\* it: currentTasks, its overlapped block, asyncTaskOut, the local pointer of
\* readAsync, the rawTask of a worker.  A release follows the last of them,
\* whatever the interleaving of the call, the worker and the kernel.
RefCountExact ==
  \A k \in Tasks : Live(k) /\ io[k] # "unused" => refs[k] = Owners(k)

\* At most one call and at most one worker are busy with task k.
OneParty(k) ==
  /\ \A t, u \in Threads : Posting(t, k) /\ Posting(u, k) => t = u
  /\ \A v, w \in Workers : Handling(v, k) /\ Handling(w, k) => v = w

\* Who may have task k, by how far its operation is.  The reference of the
\* overlapped block outlives the I/O, the packet and the stay in currentTasks.
OwnersOf(k) ==
  /\ io[k] = "unused" => released[k] = 0 /\ k \notin ovlRef
  /\ io[k] \in {"unused", "failed"} => ~Posted(k) /\ k \notin currentTasks \cup outRef
  /\ io[k] # "taken" => ~Handled(k)
  /\ io[k] \in {"pending", "queued"} => k \in ovlRef
  /\ k \in currentTasks => k \in ovlRef
  /\ \A t \in Threads : Posting(t, k) =>
       /\ k \notin outRef
       /\ callAt[t] = "post" => k \in ovlRef \ currentTasks
  /\ \A w \in Workers : Handling(w, k) /\ workerAt[w] \in {"taken", "held"} => k \in ovlRef

\* Nothing holds a read task that was released.
ReadReleased(k) ==
  k \in ReadTasks /\ released[k] # 0 =>
    /\ released[k] = 1
    /\ k \notin currentTasks \cup ovlRef \cup outRef
    /\ ~Posted(k)
    /\ ~IsHeld(k)

\* The completion port has one packet for each operation that is queued.
QueueExact ==
  /\ \A i \in DOMAIN queue : queue[i].what # "pill" => io[queue[i].task] = "queued"
  /\ \A i, j \in DOMAIN queue :
       queue[i].what # "pill" /\ queue[j].what # "pill" /\ queue[i].task = queue[j].task => i = j

\* The bookkeeping behind the reference counts: one party per task on either
\* side, one packet per completion, an overlapped block that owns its task
\* for as long as the kernel, the port or currentTasks may lead to it, and
\* nobody left when a read task is released.
Ownership ==
  /\ QueueExact
  /\ \A k \in Tasks : OneParty(k) /\ OwnersOf(k) /\ ReadReleased(k)

\* A read task is never released twice and never touched after its release,
\* for any number of worker threads and any failure: readAsync counts its
\* own pointer.  (writeAsync and acceptAsync do not: see the violation runs.)
ReadTasksSafe ==
  \A k \in ReadTasks : released[k] = 0 \/ (released[k] = 1 /\ ~InUse(k))

\* No task at all is touched after its release, or released twice.
NoUndefinedBehaviour == ~UndefinedBehaviour

\* While the kernel may still write to the overlapped block of a task, or has
\* its address in the completion port, the task that owns it exists.
KernelNeverWritesFreed ==
  \A k \in Tasks : io[k] \in {"pending", "queued"} => Live(k)

\* A worker that took the packet of a finished operation finds its task in
\* currentTasks: the packet did not overtake postAsyncTask.
PacketFindsItsTask ==
  \A w \in Workers : workerAt[w] \in {"taken", "held"} => workerTask[w] \in currentTasks

Pills == {i \in DOMAIN queue : queue[i].what = "pill"}
LiveWorkers == {w \in Workers : workerAt[w] # "exited"}

\* When run() waits for its threads there is a packet with a null key for
\* every thread that is still alive, whichever way the others ended: no
\* thread takes two, and none is left without one.
JoinCovered ==
  runAt = "join" => Cardinality(LiveWorkers) <= Cardinality(Pills)

\* The join does not deadlock: none of the threads it waits for is suspended,
\* and none waits for a packet while the port is empty and run(), the only
\* one that could still send it, waits for that thread.
JoinNeverStuck ==
  runAt = "join" =>
    \A w \in LiveWorkers :
      workerAt[w] # "suspended" /\ (workerAt[w] = "waiting" => queue # <<>>)

\* run() sleeps on after stop(), or after a callback failed, only when the
\* wake came between _isRunning = true and the sleep.
AsleepReason ==
  runAt = "asleep" /\ ~earlyWake =>
    isRunning /\ \A w \in Workers : workerAt[w] # "threw"

\* Once run() is awake it posts its packets, every thread ends, and it
\* returns, unless the process ends first.
WokenRunReturns == runAt = "pills" ~> (runAt = "out" \/ ~Up)

\* stop() that is past its test while run() sleeps makes run() return.
StopEndsRun ==
  \A w \in Workers :
    (callAt[w] = "stop" /\ runAt = "asleep") ~> (runAt = "out" \/ ~Up)

\* A successful completion that is queued, with its task posted, while run()
\* is in progress reaches the callback of its task, unless every thread ends
\* first.
CompletionDispatched ==
  \A k \in Tasks :
    (Packet("ok", k) \in {queue[i] : i \in DOMAIN queue} /\ k \in currentTasks /\ runAt \in {"resume", "asleep"}) ~>
      \/ io[k] = "taken" /\ k \notin ovlRef \cup currentTasks
      \/ LiveWorkers = {}
      \/ ~Up

-----------------------------------------------------------------------------
(* What assertions of the code say, and the code does not keep.            *)

\* Every block that is released is one that was allocated and not released
\* since: MyAllocator::release, allocRecords.at(p).
NoDoubleRelease == \A k \in Tasks : released[k] <= 1

\* stop() finds _isRunning false only when run() is not in progress.
StopAssertMeansNotRunning == process = "stopAssert" => runAt = "out"

\* run() finds _isRunning true only when run() is in progress: never, for
\* the one thread that calls it.
RunAssertMeansRunning == process # "runAssert"

\* No exception is destroyed unhandled, by a main thread that is given every
\* exception that run() returns.
NoUnhandledException == process # "unhandledAssert"
=============================================================================
