---------------------------- MODULE Win32Socket ----------------------------
(***************************************************************************)
(* Win32Socket::readAsync, writeAsync and acceptAsync, step by step, with  *)
(* Win32IOService::postAsyncTask that they call, and the part of the kernel*)
(* they rely on: I/O in flight and the completion port.                    *)
(*                                                                         *)
(* A call is three steps, because two other parties act between them:      *)
(*   issue      allocate the task and its overlapped block, WSARecv /      *)
(*              WSASend / AcceptEx; from here the kernel may complete it;  *)
(*   post       currentTasks.insert, under currentTasksMutex;              *)
(*   hand over  incRef, and store the task in asyncTaskOut.                *)
(* A call that cannot allocate the task itself changes nothing and is not  *)
(* modelled.  The next-state actions are built in module Win32IOService.   *)
(***************************************************************************)
EXTENDS AsyncTask, Sequences

CONSTANTS
  nWorkerThreads,  \* IOServiceCreationParams::nWorkerThreads
  Main,            \* the thread that calls run()
  NoTask,          \* "no task" for a thread that is in no call
  Faults           \* which failures the environment may produce

Workers == 0 .. (nWorkerThreads - 1)
Threads == Workers \cup {Main}

FaultKinds == {"oom", "issue", "unmapped", "io", "spurious"}

ASSUME SocketAssumption ==
  /\ nWorkerThreads \in Nat
  /\ Main \notin Workers
  /\ NoTask \notin Tasks
  /\ Faults \subseteq FaultKinds

VARIABLES
  io,            \* io[k]: where the operation of task k is
  queue,         \* the I/O completion port, first in first out
  currentTasks,  \* Win32IOService::currentTasks
  callAt,        \* callAt[t]: the step that thread t takes next in its call
  callTask,      \* callTask[t]: the task of that call
  process        \* "up", or the std::terminate() or assert that ended it

socketVars == <<io, queue, currentTasks, callAt, callTask, process>>

IOStates  == {"unused", "pending", "queued", "taken", "failed"}
CallSteps == {"none", "post", "handOver", "stop"}
Endings   == {"up", "unmappedError", "stopAssert", "runAssert", "unhandledAssert"}

SocketInit ==
  /\ io           = [k \in Tasks |-> "unused"]
  /\ queue        = <<>>
  /\ currentTasks = {}
  /\ callAt       = [t \in Threads |-> "none"]
  /\ callTask     = [t \in Threads |-> NoTask]
  /\ process      = "up"

Packet(what, k) == [what |-> what, task |-> k]
Packets == [what : {"ok", "error"}, task : Tasks] \cup {Packet("pill", NoTask)}

SocketTypeOK ==
  /\ io \in [Tasks -> IOStates]
  /\ queue \in Seq(Packets)
  /\ currentTasks \subseteq Tasks
  /\ callAt \in [Threads -> CallSteps]
  /\ callTask \in [Threads -> Tasks \cup {NoTask}]
  /\ \A t \in Threads : callAt[t] \in {"post", "handOver"} => callTask[t] \in Tasks
  /\ process \in Endings

\* Thread t is inside a call on task k, between WSARecv and the return.
Posting(t, k) == callAt[t] \in {"post", "handOver"} /\ callTask[t] = k

EnterCall(t, k) ==
  /\ callAt'   = [callAt EXCEPT ![t] = "post"]
  /\ callTask' = [callTask EXCEPT ![t] = k]

LeaveCall(t) ==
  /\ callAt'   = [callAt EXCEPT ![t] = "none"]
  /\ callTask' = [callTask EXCEPT ![t] = NoTask]

NewTask(t, k) == callAt[t] = "none" /\ io[k] = "unused"

-----------------------------------------------------------------------------
\* The system call starts the operation, or completes it at once.
Issue(t, k) ==
  /\ NewTask(t, k)
  /\ io'     = [io EXCEPT ![k] = "pending"]
  /\ refs'   = [refs EXCEPT ![k] = LocalRef(k) + 1]
  /\ ovlRef' = ovlRef \cup {k}
  /\ EnterCall(t, k)
  /\ UNCHANGED <<released, outRef, queue, currentTasks, process>>

\* allocOverlapped (or, for an accept, createSocket) is out of memory: the
\* task goes away before it has an overlapped block.
IssueWithoutOverlapped(t, k) ==
  /\ NewTask(t, k)
  /\ "oom" \in Faults
  /\ io' = [io EXCEPT ![k] = "failed"]
  /\ Destroy(k, 0, FALSE)
  /\ UNCHANGED <<ovlRef, outRef, queue, currentTasks, callAt, callTask, process>>

\* Mutant: the test for WSA_IO_PENDING is missing.
IssueRejectedPending(t, k) ==
  /\ NewTask(t, k)
  /\ io'     = [io EXCEPT ![k] = "pending"]
  /\ ovlRef' = ovlRef \cup {k}
  /\ \/ k \in ReadTasks /\ refs' = [refs EXCEPT ![k] = 1] /\ UNCHANGED released
     \/ k \notin ReadTasks /\ Destroy(k, 1, TRUE)
  /\ UNCHANGED <<outRef, queue, currentTasks, callAt, callTask, process>>

\* The system call fails with an error that wsaLastErrorToExcept knows.  The
\* pointer of readAsync drops its reference and the overlapped block keeps
\* the other one; the deleter of the other two calls onRefZero().
IssueRejected(t, k) ==
  /\ NewTask(t, k)
  /\ "issue" \in Faults
  /\ io'     = [io EXCEPT ![k] = "failed"]
  /\ ovlRef' = ovlRef \cup {k}
  /\ \/ /\ k \in ReadTasks
        /\ refs' = [refs EXCEPT ![k] = 1]
        /\ UNCHANGED released
     \/ /\ k \notin ReadTasks
        /\ Destroy(k, 1, TRUE)
  /\ UNCHANGED <<outRef, queue, currentTasks, callAt, callTask, process>>

\* The error is one that wsaLastErrorToExcept does not know.  writeAsync
\* passes it WSA_IO_PENDING too, so a send that does not complete at once
\* always ends here.
IssueUnmapped(t, k) ==
  /\ NewTask(t, k)
  /\ "unmapped" \in Faults \/ k \in WriteTasks
  /\ process' = "unmappedError"
  /\ UNCHANGED <<taskVars, io, queue, currentTasks, callAt, callTask>>

-----------------------------------------------------------------------------
\* postAsyncTask succeeds.
Post(t) ==
  /\ callAt[t] = "post"
  /\ currentTasks' = currentTasks \cup {callTask[t]}
  /\ IncRef(callTask[t])
  /\ callAt' = [callAt EXCEPT ![t] = "handOver"]
  /\ UNCHANGED <<released, ovlRef, outRef, io, queue, callTask, process>>

\* postAsyncTask is out of memory: the caller is told so although the
\* operation is in flight, and the task is dropped or destroyed as above.
PostFails(t) ==
  LET k == callTask[t] IN
  /\ callAt[t] = "post"
  /\ "oom" \in Faults
  /\ \/ k \in ReadTasks /\ DecRef(k, 1)
     \/ k \notin ReadTasks /\ Destroy(k, refs[k], TRUE)
  /\ LeaveCall(t)
  /\ UNCHANGED <<ovlRef, outRef, io, queue, currentTasks, process>>

\* Mutant: asyncTaskOut is set without incRef.
HandOverUncounted(t) ==
  LET k == callTask[t] IN
  /\ callAt[t] = "handOver"
  /\ refs'   = [refs EXCEPT ![k] = @ - LocalRef(k)]
  /\ outRef' = outRef \cup {k}
  /\ LeaveCall(t)
  /\ UNCHANGED <<released, ovlRef, io, queue, currentTasks, process>>

\* incRef for the caller; the pointer of readAsync then gives up its own.
HandOver(t) ==
  LET k == callTask[t] IN
  /\ callAt[t] = "handOver"
  /\ refs'   = [refs EXCEPT ![k] = @ + 1 - LocalRef(k)]
  /\ outRef' = outRef \cup {k}
  /\ LeaveCall(t)
  /\ UNCHANGED <<released, ovlRef, io, queue, currentTasks, process>>

\* The caller lets go of the reference that asyncTaskOut gave it.
DropOut(k) ==
  /\ k \in outRef
  /\ outRef' = outRef \ {k}
  /\ DecRef(k, 1)
  /\ UNCHANGED <<ovlRef, socketVars>>

-----------------------------------------------------------------------------
\* The kernel finishes the operation and queues its packet.
Complete(k) ==
  /\ io[k] = "pending"
  /\ io' = [io EXCEPT ![k] = "queued"]
  /\ \/ queue' = Append(queue, Packet("ok", k))
     \/ "io" \in Faults /\ queue' = Append(queue, Packet("error", k))
  /\ UNCHANGED <<taskVars, currentTasks, callAt, callTask, process>>
=============================================================================
