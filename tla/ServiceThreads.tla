-------------------------- MODULE ServiceThreads --------------------------
(***************************************************************************)
(* run() and stop() of a UnixIOService, and the worker threads of both     *)
(* backends.  The Unix backend is unfinished: a worker waits for the start *)
(* condition and then spins; run() waits for a condition nobody signals,   *)
(* and may only be woken spuriously.  No condition has a predicate.        *)
(*                                                                         *)
(* Of a Win32IOService only start and end of the threads in one run() are  *)
(* here: the rest is module Win32IOService.                                *)
(***************************************************************************)
EXTENDS ServiceCreation

VARIABLES
  isRunning,   \* UnixIOService::_isRunning
  told,        \* threads the start condition was broadcast to
  missed,      \* history: threads it was broadcast to before they waited
  stopping     \* stop() is joining the threads

runVars == <<isRunning, told, missed, stopping>>

RunInit ==
  /\ isRunning = FALSE
  /\ told = {}
  /\ missed = {}
  /\ stopping = FALSE

OnUnix == backend = "unix"

ThreadGoes(i, from, to) == threads[i] = from /\ threads' = [threads EXCEPT ![i] = to]

ThreadOnly == UNCHANGED <<service, attempts, startups, lostStartups, process, isRunning, stopping>>

\* _workerThreadProc: pthread_cond_wait(&tld->startCond, ...).
WaitForStart(i) == ThreadGoes(i, "starting", "waiting") /\ ThreadOnly /\ UNCHANGED <<told, missed>>

\* The wait ends for no reason.
StartSpuriously(i) ==
  /\ "spurious" \in Faults
  /\ OnUnix /\ ThreadGoes(i, "waiting", "started")
  /\ ThreadOnly /\ UNCHANGED <<told, missed>>

CallOnly == UNCHANGED <<attempts, startups, lostStartups, process>>

\* Mutant: the first thread is left out.
BroadcastFromSecond(i) ==
  /\ OnUnix /\ service = "running"
  /\ i \notin told /\ 1 .. i - 1 \subseteq told
  /\ told' = told \cup {i}
  /\ threads' = [threads EXCEPT ![i] = IF @ = "waiting" /\ i > 1 THEN "started" ELSE @]
  /\ missed' = IF threads[i] = "starting" THEN missed \cup {i} ELSE missed
  /\ ThreadOnly

\* run() is entered, and finds no exception.
EnterRun ==
  /\ service = "ready" \/ (OnUnix /\ service = "returned" /\ ~isRunning /\ ~stopping)
  /\ service' = "running"
  /\ told' = {}
  /\ missed' = {}
  /\ CallOnly /\ UNCHANGED <<threads, isRunning, stopping>>

\* run() again, when the first has returned and left _isRunning set.
RunAgain ==
  /\ OnUnix /\ service = "returned" /\ isRunning /\ ~stopping
  /\ process' = "runAssert"
  /\ UNCHANGED <<service, creationVars, runVars>>

\* run() broadcasts the start condition of thread i.
Broadcast(i) ==
  /\ OnUnix /\ service = "running"
  /\ i \notin told /\ 1 .. i - 1 \subseteq told
  /\ told' = told \cup {i}
  /\ threads' = [threads EXCEPT ![i] = IF @ = "waiting" THEN "started" ELSE @]
  /\ missed' = IF threads[i] = "starting" THEN missed \cup {i} ELSE missed
  /\ ThreadOnly

\* run() wakes from the wait for terminateNotifyConditionVar, which is never
\* signalled, and only now says that it is running.
LeaveRun ==
  /\ "spurious" \in Faults
  /\ OnUnix /\ service = "running"
  /\ told = DOMAIN threads
  /\ service' = "returned"
  /\ isRunning' = TRUE
  /\ CallOnly /\ UNCHANGED <<threads, told, missed, stopping>>

\* stop(): it ends the process unless run() has returned, and else joins.
Stop ==
  /\ OnUnix /\ service \in {"running", "returned"} /\ ~stopping
  /\ \/ ~isRunning /\ process' = "stopAssert" /\ UNCHANGED stopping
     \/ isRunning /\ stopping' = TRUE /\ UNCHANGED process
  /\ UNCHANGED <<service, creationVars, isRunning, told, missed>>

\* pthread_join of a thread that was never created may return or not; one that
\* spins or waits never ends.
StopReturns ==
  /\ stopping
  /\ \A i \in DOMAIN threads : threads[i] = "missing"
  /\ stopping' = FALSE
  /\ isRunning' = FALSE
  /\ UNCHANGED <<service, creationVars, told, missed, process>>

\* Win32IOService::run resumes thread i; it ends when its null packet comes or
\* its callback fails.
ResumeThread(i) ==
  /\ OnWin32 /\ service = "running"
  /\ ThreadGoes(i, "suspended", "started")
  /\ ThreadOnly /\ UNCHANGED <<told, missed>>

EndThread(i) ==
  /\ OnWin32
  /\ ThreadGoes(i, "started", "ended")
  /\ ThreadOnly /\ UNCHANGED <<told, missed>>

\* Mutant: the threads are not joined.
ReturnUnjoined ==
  /\ OnWin32 /\ service = "running"
  /\ \A i \in DOMAIN threads : threads[i] # "suspended"
  /\ service' = "returned"
  /\ CallOnly /\ UNCHANGED <<threads, runVars>>

ReturnFromRun ==
  /\ OnWin32 /\ service = "running"
  /\ \A i \in DOMAIN threads : threads[i] \in {"missing", "ended"}
  /\ service' = "returned"
  /\ CallOnly /\ UNCHANGED <<threads, runVars>>

Thread(i) == WaitForStart(i) \/ StartSpuriously(i) \/ EndThread(i)

\* What the thread in run() or stop() does.
Running ==
  \/ EnterRun \/ RunAgain \/ LeaveRun \/ Stop \/ StopReturns \/ ReturnFromRun
  \/ \E i \in DOMAIN threads : Broadcast(i) \/ ResumeThread(i)
=============================================================================
