----------------------- MODULE Win32Ownership_proofs -----------------------
(* The reference counts of the tasks are exact and a read task is never     *)
(* used after its release, whatever the threads, tasks and faults.  All of  *)
(* the invariant but the completion port is about one task at a time, so a  *)
(* step is proved by what it does to its own task, and by SameTask for the  *)
(* others.                                                                  *)
EXTENDS Win32IOService_proofs

RefCount(k) == Live(k) /\ io[k] # "unused" => refs[k] = Owners(k)

TaskInv(k) == OneParty(k) /\ OwnersOf(k) /\ ReadReleased(k) /\ RefCount(k)

IInv == TypeOK /\ QueueExact /\ \A k \in Tasks : TaskInv(k)

\* The step leaves everything that TaskInv(k) is about as it is.
SameTask(k) ==
  /\ refs'[k] = refs[k]
  /\ released'[k] = released[k]
  /\ io'[k] = io[k]
  /\ k \in ovlRef' <=> k \in ovlRef
  /\ k \in outRef' <=> k \in outRef
  /\ k \in currentTasks' <=> k \in currentTasks
  /\ \A t \in Threads : Posting(t, k)' <=> Posting(t, k)
  /\ \A t \in Threads : Posting(t, k) => (callAt'[t] = "post" <=> callAt[t] = "post")
  /\ \A w \in Workers : Handling(w, k)' <=> Handling(w, k)
  /\ \A w \in Workers : Handling(w, k) =>
       /\ workerAt'[w] = "taken" <=> workerAt[w] = "taken"
       /\ workerAt'[w] = "held" => workerAt[w] = "held"

\* A task nothing of which changes keeps its part of the invariant.
LEMMA SameTaskKeeps ==
  ASSUME NEW k \in Tasks, TaskInv(k), SameTask(k)
  PROVE  TaskInv(k)'
<1>1. Posted(k)' <=> Posted(k)
  BY DEF SameTask, Posted
<1>2. Handled(k)' <=> Handled(k)
  BY DEF SameTask, Handled
<1>3. IsHeld(k)' <=> IsHeld(k)
  BY DEF SameTask, IsHeld, Holding
<1>4. OneParty(k)'
  BY DEF TaskInv, OneParty, SameTask
<1>5. OwnersOf(k)'
  BY <1>1, <1>2 DEF TaskInv, OwnersOf, SameTask
<1>6. ReadReleased(k)'
  BY <1>1, <1>3 DEF TaskInv, ReadReleased, SameTask
<1>7. Owners(k)' = Owners(k)
  BY <1>1, <1>3 DEF Owners, B, SameTask
<1>8. RefCount(k)'
  BY <1>7 DEF TaskInv, RefCount, Live, SameTask
<1> QED BY <1>4, <1>5, <1>6, <1>8 DEF TaskInv


\* A packet of the completion port is a task's or a null key.
LEMMA PacketTypes ==
  ASSUME TypeOK, NEW i \in DOMAIN queue
  PROVE  /\ queue[i] \in Packets
         /\ queue[i].what # "pill" => queue[i].task \in Tasks
<1>1. queue[i] \in Packets
  BY DEF TypeOK, SocketTypeOK
<1> QED BY <1>1 DEF Packets, Packet

\* A step that leaves the port alone, and every queued operation queued.
LEMMA QueueSame ==
  ASSUME TypeOK, QueueExact, queue' = queue, \A k \in Tasks : io[k] = "queued" => io'[k] = "queued"
  PROVE  QueueExact'
  BY PacketTypes DEF QueueExact

\* What the conditions about threads say of the step of one of them.
LEMMA Views ==
  ASSUME TypeOK
  PROVE  /\ \A t \in Threads : \A k \in Tasks :
              Posting(t, k) => callAt[t] \in {"post", "handOver"} /\ callTask[t] = k
         /\ \A w \in Workers : \A k \in Tasks :
              Handling(w, k) => workerAt[w] \in HandlingSteps /\ workerTask[w] = k
  BY DEF Posting, Handling

\* Steps that change nothing about any task.
LEMMA QuietSteps ==
  ASSUME IInv, NEW w,
         \/ Discard(w) \/ CallbackReturns(w) \/ CallbackThrows(w)
         \/ StopChecks(w) \/ StopWakes(w)
         \/ RunEnters \/ RunResumes \/ RunSleeps \/ RunStartsJoin
         \/ RunWakesSpuriously \/ RunReturns \/ UNCHANGED vars
  PROVE  QueueExact' /\ \A k \in Tasks : TaskInv(k)'
<1>1. UNCHANGED <<refs, released, ovlRef, outRef, io, queue, currentTasks, callTask, workerTask>>
  BY DEF Discard, CallbackReturns, CallbackThrows, StopChecks, StopWakes, RunEnters, RunResumes, RunSleeps,
     RunStartsJoin, RunWakesSpuriously, RunReturns, vars, taskVars, socketVars, serviceVars, workerVars
<1>2. \A t \in Threads : callAt'[t] = callAt[t] \/ {callAt[t], callAt'[t]} \subseteq {"none", "stop"}
  BY DEF Discard, CallbackReturns, CallbackThrows, StopChecks, StopWakes, RunEnters, RunResumes, RunSleeps,
     RunStartsJoin, RunWakesSpuriously, RunReturns, InCallback, vars, socketVars, IInv, TypeOK, SocketTypeOK
<1>3. \A v \in Workers :
        \/ workerAt'[v] = workerAt[v]
        \/ {workerAt[v], workerAt'[v]} \subseteq {"suspended", "waiting"}
        \/ workerAt[v] \in {"held", "callback"} /\ workerAt'[v] \in {"done", "threw"}
  BY DEF Discard, CallbackReturns, CallbackThrows, StopChecks, StopWakes, RunEnters, RunResumes, RunSleeps,
     RunStartsJoin, RunWakesSpuriously, RunReturns, InCallback, Goto, vars, serviceVars, workerVars, IInv, TypeOK, ServiceTypeOK
<1>4. ASSUME NEW k \in Tasks PROVE SameTask(k)
  <2>1. \A t \in Threads : /\ Posting(t, k)' <=> Posting(t, k)
                           /\ Posting(t, k) => (callAt'[t] = "post" <=> callAt[t] = "post")
    BY <1>1, <1>2 DEF Posting
  <2>2. \A v \in Workers : /\ Handling(v, k)' <=> Handling(v, k)
                           /\ Handling(v, k) => /\ workerAt'[v] = "taken" <=> workerAt[v] = "taken"
                                                /\ workerAt'[v] = "held" => workerAt[v] = "held"
    BY <1>1, <1>3 DEF Handling, HandlingSteps
  <2> QED BY <1>1, <2>1, <2>2 DEF SameTask
<1> QED BY <1>1, <1>4, SameTaskKeeps, QueueSame DEF IInv

-----------------------------------------------------------------------------
\* The asynchronous calls.
LEMMA IssueKeeps ==
  ASSUME IInv, NEW t \in Threads, NEW k \in Tasks, Issue(t, k), UNCHANGED serviceVars
  PROVE  QueueExact' /\ \A j \in Tasks : TaskInv(j)'
<1> USE DEF IInv, TypeOK, TaskTypeOK, SocketTypeOK, ServiceTypeOK
<1>1. io[k] = "unused" /\ io'[k] = "pending" /\ queue' = queue
  BY DEF Issue, NewTask
<1>2. \A j \in Tasks : j # k =>
        /\ io'[j] = io[j] /\ refs'[j] = refs[j] /\ released'[j] = released[j]
        /\ j \in ovlRef' <=> j \in ovlRef
        /\ j \in outRef' <=> j \in outRef
        /\ j \in currentTasks' <=> j \in currentTasks
  BY DEF Issue
<1>3. \A u \in Threads, j \in Tasks : Posting(u, j)' <=> Posting(u, j) \/ (u = t /\ j = k)
  BY DEF Issue, NewTask, EnterCall, Posting
<1>4. \A w \in Workers, j \in Tasks : Handling(w, j)' <=> Handling(w, j)
  BY DEF serviceVars, workerVars, Handling
<1>5. ASSUME NEW j \in Tasks, j # k PROVE TaskInv(j)'
  <2>1. SameTask(j)
    BY <1>2, <1>3, <1>4, <1>5 DEF SameTask, Issue, NewTask, EnterCall, Posting, serviceVars, workerVars
  <2> QED BY <2>1, SameTaskKeeps
<1>6. TaskInv(k)'
  <2>1. /\ TaskInv(k) /\ ~Posted(k) /\ ~Handled(k) /\ ~IsHeld(k)
        /\ k \notin currentTasks' /\ k \notin outRef' /\ k \in ovlRef'
        /\ released'[k] = 0 /\ refs'[k] = LocalRef(k) + 1
    BY <1>1 DEF TaskInv, OwnersOf, IsHeld, Holding, Handled, Issue
  <2>2. \A u \in Threads : Posting(u, k)' <=> u = t
    BY <1>3, <2>1 DEF Posted
  <2>3. \A w \in Workers : ~Handling(w, k)'
    BY <1>4, <2>1 DEF Handled
  <2>4. Posted(k)' /\ ~Handled(k)' /\ ~IsHeld(k)'
    BY <2>2, <2>3 DEF Posted, Handled, IsHeld, Holding
  <2>5. OneParty(k)'
    BY <2>2, <2>3 DEF OneParty
  <2>6. OwnersOf(k)'
    BY <1>1, <2>1, <2>2, <2>3, <2>4 DEF OwnersOf
  <2>7. ReadReleased(k)' /\ RefCount(k)'
    BY <2>1, <2>4 DEF ReadReleased, RefCount, Owners, B, LocalRef
  <2> QED BY <2>5, <2>6, <2>7 DEF TaskInv
<1>7. QueueExact'
  BY <1>1, <1>2, QueueSame
<1> QED BY <1>5, <1>6, <1>7
\* The task is gone, or left to its overlapped block, before the call returns.
LEMMA IssueFailsKeeps ==
  ASSUME IInv, NEW t \in Threads, NEW k \in Tasks,
         IssueWithoutOverlapped(t, k) \/ IssueRejected(t, k) \/ IssueUnmapped(t, k),
         UNCHANGED serviceVars
  PROVE  QueueExact' /\ \A j \in Tasks : TaskInv(j)'
<1> USE DEF IInv, TypeOK, TaskTypeOK, SocketTypeOK, ServiceTypeOK
<1>1. UNCHANGED <<queue, currentTasks, callAt, callTask, outRef, workerAt, workerTask>>
  BY DEF IssueWithoutOverlapped, IssueRejected, IssueUnmapped, taskVars, serviceVars, workerVars
<1>2. \A j \in Tasks :
        /\ \A u \in Threads : Posting(u, j)' <=> Posting(u, j)
        /\ \A w \in Workers : Handling(w, j)' <=> Handling(w, j)
  BY <1>1 DEF Posting, Handling
<1>3. \A j \in Tasks : j # k =>
        /\ io'[j] = io[j] /\ refs'[j] = refs[j] /\ released'[j] = released[j]
        /\ j \in ovlRef' <=> j \in ovlRef
  <2>1. CASE IssueWithoutOverlapped(t, k)
    BY <2>1 DEF IssueWithoutOverlapped, Destroy
  <2>2. CASE IssueRejected(t, k)
    <3>1. io' = [io EXCEPT ![k] = "failed"] /\ ovlRef' = ovlRef \cup {k}
      BY <2>2 DEF IssueRejected
    <3>2. /\ refs' = [refs EXCEPT ![k] = 1] \/ refs' = [refs EXCEPT ![k] = 0]
          /\ \/ released' = released
             \/ released' = [released EXCEPT ![k] = @ + Passes(1, TRUE)]
      BY <2>2 DEF IssueRejected, Destroy
    <3> QED
      BY <3>1, <3>2
  <2>3. CASE IssueUnmapped(t, k)
    BY <2>3 DEF IssueUnmapped, taskVars
  <2> QED
    BY <2>1, <2>2, <2>3
<1>4. ASSUME NEW j \in Tasks, j # k PROVE TaskInv(j)'
  <2>1. SameTask(j)
    BY <1>1, <1>2, <1>3, <1>4 DEF SameTask
  <2> QED BY <2>1, SameTaskKeeps
<1>5. CASE IssueUnmapped(t, k)
  <2>1. SameTask(k)
    BY <1>1, <1>2, <1>5 DEF SameTask, IssueUnmapped, taskVars
  <2>2. QueueExact'
    BY <1>5, QueueSame DEF IssueUnmapped
  <2> QED BY <1>4, <2>1, <2>2, SameTaskKeeps
<1>6. CASE IssueWithoutOverlapped(t, k) \/ IssueRejected(t, k)
  <2>1. io[k] = "unused" /\ io'[k] = "failed"
    BY <1>6 DEF IssueWithoutOverlapped, IssueRejected, NewTask
  <2>2. /\ ~Posted(k) /\ ~Handled(k) /\ ~IsHeld(k) /\ released[k] = 0
        /\ k \notin currentTasks' \cup outRef' /\ k \notin ovlRef
    BY <1>1, <2>1 DEF TaskInv, OwnersOf, IsHeld, Holding, Handled
  <2>3. ~Posted(k)' /\ ~Handled(k)' /\ ~IsHeld(k)'
    BY <1>1, <1>2, <2>2 DEF Posted, Handled, IsHeld, Holding
  <2>4. OneParty(k)'
    BY <2>3 DEF OneParty, Posted, Handled
  <2>5. OwnersOf(k)'
    BY <2>1, <2>2, <2>3 DEF OwnersOf, Posted, Handled
  <2>6. ReadReleased(k)' /\ RefCount(k)'
    <3>1. CASE IssueWithoutOverlapped(t, k)
      BY <3>1, <2>2, <2>3 DEF IssueWithoutOverlapped, Destroy, Passes, ReadReleased, RefCount, Live
    <3>2. CASE IssueRejected(t, k) /\ k \in ReadTasks
      <4>1. k \in ovlRef' /\ refs'[k] = 1 /\ released'[k] = 0
        BY <3>2, <2>2 DEF IssueRejected
      <4>2. Owners(k)' = 1
        BY <4>1, <2>2, <2>3 DEF Owners, B
      <4> QED BY <4>1, <4>2 DEF ReadReleased, RefCount
    <3>3. CASE IssueRejected(t, k) /\ k \notin ReadTasks
      BY <3>3, <2>2 DEF IssueRejected, Destroy, Passes, ReadReleased, RefCount, Live
    <3> QED BY <2>3, <3>1, <3>2, <3>3, <1>6
  <2>7. QueueExact'
    BY <1>1, <1>3, <2>1, QueueSame
  <2> QED BY <1>4, <2>4, <2>5, <2>6, <2>7 DEF TaskInv
<1> QED BY <1>5, <1>6

\* postAsyncTask: currentTasks gets its counted reference.
LEMMA PostKeeps ==
  ASSUME IInv, NEW t \in Threads, Post(t), UNCHANGED serviceVars
  PROVE  QueueExact' /\ \A j \in Tasks : TaskInv(j)'
<1> USE DEF IInv, TypeOK, TaskTypeOK, SocketTypeOK, ServiceTypeOK
<1> PICK k \in Tasks : k = callTask[t]
  BY DEF Post
<1>1. Posting(t, k) /\ callAt[t] = "post" /\ callAt'[t] = "handOver"
  BY DEF Post, Posting
<1>2. \A j \in Tasks : j # k => refs'[j] = refs[j] /\ (j \in currentTasks' <=> j \in currentTasks)
  BY DEF Post, IncRef
<1>3. UNCHANGED <<released, ovlRef, outRef, io, queue, callTask, workerAt, workerTask>>
  BY DEF Post, serviceVars, workerVars
<1>4. \A u \in Threads : u # t => callAt'[u] = callAt[u]
  BY DEF Post
<1>5. \A j \in Tasks :
        /\ \A u \in Threads : Posting(u, j)' <=> Posting(u, j)
        /\ \A w \in Workers : Handling(w, j)' <=> Handling(w, j)
  BY <1>1, <1>3, <1>4 DEF Posting, Handling
<1>6. ASSUME NEW j \in Tasks, j # k PROVE TaskInv(j)'
  <2>1. SameTask(j)
    BY <1>1, <1>2, <1>3, <1>4, <1>5, <1>6 DEF SameTask, Posting
  <2> QED BY <2>1, SameTaskKeeps
<1>7. TaskInv(k)'
  <2>1. /\ TaskInv(k)
        /\ k \in ovlRef /\ k \notin currentTasks /\ k \notin outRef
        /\ k \in currentTasks' /\ refs'[k] = refs[k] + 1
        /\ io[k] \notin {"unused", "failed"}
    BY <1>1 DEF TaskInv, OwnersOf, Posted, Post, IncRef
  <2>2. \A u \in Threads : Posting(u, k)' => u = t
    BY <1>1, <1>5, <2>1 DEF TaskInv, OneParty
  <2>3. (Posted(k)' <=> Posted(k)) /\ (Handled(k)' <=> Handled(k)) /\ (IsHeld(k)' <=> IsHeld(k))
    BY <1>3, <1>5 DEF Posted, Handled, IsHeld, Holding
  <2>4. OneParty(k)'
    BY <1>5, <2>1 DEF TaskInv, OneParty
  <2>5. OwnersOf(k)'
    BY <1>1, <1>3, <1>5, <2>1, <2>2, <2>3 DEF TaskInv, OwnersOf
  <2>6. ReadReleased(k)'
    BY <1>3, <2>1, <2>3 DEF TaskInv, ReadReleased
  <2>7. Owners(k)' = Owners(k) + 1
    BY <1>3, <2>1, <2>3 DEF Owners, B
  <2>8. RefCount(k)'
    BY <1>3, <2>1, <2>7 DEF TaskInv, RefCount, Live
  <2> QED BY <2>4, <2>5, <2>6, <2>8 DEF TaskInv
<1>8. QueueExact'
  BY <1>3, QueueSame
<1> QED BY <1>6, <1>7, <1>8

\* postAsyncTask out of memory: readAsync drops its reference, the others
\* destroy the task.
LEMMA PostFailsKeeps ==
  ASSUME IInv, NEW t \in Threads, PostFails(t), UNCHANGED serviceVars
  PROVE  QueueExact' /\ \A j \in Tasks : TaskInv(j)'
<1> USE DEF IInv, TypeOK, TaskTypeOK, SocketTypeOK, ServiceTypeOK
<1> PICK k \in Tasks : k = callTask[t]
  BY DEF PostFails
<1>1. Posting(t, k) /\ callAt[t] = "post" /\ callAt'[t] = "none"
  BY DEF PostFails, Posting, LeaveCall
<1>2. \A j \in Tasks : j # k => refs'[j] = refs[j] /\ released'[j] = released[j]
  BY DEF PostFails, DecRef, Destroy
<1>3. UNCHANGED <<ovlRef, outRef, io, queue, currentTasks, workerAt, workerTask>>
  BY DEF PostFails, serviceVars, workerVars
<1>4. \A u \in Threads : u # t => callAt'[u] = callAt[u] /\ callTask'[u] = callTask[u]
  BY DEF PostFails, LeaveCall
<1>5. \A j \in Tasks :
        /\ \A u \in Threads : Posting(u, j)' <=> Posting(u, j) /\ u # t
        /\ \A w \in Workers : Handling(w, j)' <=> Handling(w, j)
  BY <1>1, <1>3, <1>4 DEF Posting, Handling
<1>6. ASSUME NEW j \in Tasks, j # k PROVE TaskInv(j)'
  <2>1. \A u \in Threads : Posting(u, j) => u # t
    BY <1>6 DEF Posting
  <2>2. SameTask(j)
    BY <1>2, <1>3, <1>4, <1>5, <1>6, <2>1 DEF SameTask
  <2> QED BY <2>2, SameTaskKeeps
<1>7. TaskInv(k)'
  <2>1. /\ TaskInv(k) /\ Posted(k) /\ k \in ovlRef /\ k \notin outRef
        /\ io[k] \notin {"unused", "failed"}
    BY <1>1 DEF TaskInv, OwnersOf, Posted
  <2>2. \A u \in Threads : ~Posting(u, k)'
    BY <1>1, <1>5, <2>1 DEF TaskInv, OneParty
  <2>3. ~Posted(k)' /\ (Handled(k)' <=> Handled(k)) /\ (IsHeld(k)' <=> IsHeld(k))
    BY <1>3, <1>5, <2>2 DEF Posted, Handled, IsHeld, Holding
  <2>4. OneParty(k)'
    BY <1>5, <2>1, <2>2 DEF TaskInv, OneParty
  <2>5. OwnersOf(k)'
    BY <1>3, <1>5, <2>1, <2>2, <2>3 DEF TaskInv, OwnersOf
  <2>6. ReadReleased(k)' /\ RefCount(k)'
    <3>1. CASE k \in ReadTasks
      <4>1. released[k] = 0 /\ refs[k] = Owners(k)
        BY <2>1, <3>1 DEF TaskInv, ReadReleased, RefCount, Live
      <4>2. Owners(k) \in Int /\ Owners(k) >= 2
        BY <2>1, <3>1 DEF Owners, B
      <4>3. Owners(k)' = Owners(k) - 1
        BY <1>3, <2>1, <2>3, <3>1 DEF Owners, B
      <4>4. refs'[k] = refs[k] - 1 /\ released'[k] = 0
        <5>1. refs[k] # 1
          BY <4>1, <4>2
        <5>2. \/ refs' = [refs EXCEPT ![k] = @ - 1] /\ released' = released
              \/ refs[k] = 1
          BY <3>1 DEF PostFails, DecRef
        <5> QED BY <4>1, <5>1, <5>2
      <4> QED BY <4>1, <4>3, <4>4 DEF ReadReleased, RefCount
    <3>2. CASE k \notin ReadTasks
      <4>1. released'[k] > 0
        BY <3>2 DEF PostFails, Destroy, Passes
      <4> QED BY <3>2, <4>1 DEF ReadReleased, RefCount, Live
    <3> QED BY <3>1, <3>2
  <2> QED BY <2>4, <2>5, <2>6 DEF TaskInv
<1>8. QueueExact'
  BY <1>3, QueueSame
<1> QED BY <1>6, <1>7, <1>8

\* incRef and asyncTaskOut: the caller's reference replaces the call's.
LEMMA HandOverKeeps ==
  ASSUME IInv, NEW t \in Threads, HandOver(t), UNCHANGED serviceVars
  PROVE  QueueExact' /\ \A j \in Tasks : TaskInv(j)'
<1> USE DEF IInv, TypeOK, TaskTypeOK, SocketTypeOK, ServiceTypeOK
<1> PICK k \in Tasks : k = callTask[t]
  BY DEF HandOver
<1>1. Posting(t, k) /\ callAt'[t] = "none"
  BY DEF HandOver, Posting, LeaveCall
<1>2. \A j \in Tasks : j # k => refs'[j] = refs[j] /\ (j \in outRef' <=> j \in outRef)
  BY DEF HandOver
<1>3. UNCHANGED <<released, ovlRef, io, queue, currentTasks, workerAt, workerTask>>
  BY DEF HandOver, serviceVars, workerVars
<1>4. \A u \in Threads : u # t => callAt'[u] = callAt[u] /\ callTask'[u] = callTask[u]
  BY DEF HandOver, LeaveCall
<1>5. \A j \in Tasks :
        /\ \A u \in Threads : Posting(u, j)' <=> Posting(u, j) /\ u # t
        /\ \A w \in Workers : Handling(w, j)' <=> Handling(w, j)
  BY <1>1, <1>3, <1>4 DEF Posting, Handling
<1>6. ASSUME NEW j \in Tasks, j # k PROVE TaskInv(j)'
  <2>1. \A u \in Threads : Posting(u, j) => u # t
    BY <1>6 DEF Posting
  <2>2. SameTask(j)
    BY <1>2, <1>3, <1>4, <1>5, <1>6, <2>1 DEF SameTask
  <2> QED BY <2>2, SameTaskKeeps
<1>7. TaskInv(k)'
  <2>1. /\ TaskInv(k) /\ Posted(k) /\ k \notin outRef /\ k \in outRef'
        /\ io[k] \notin {"unused", "failed"}
        /\ refs'[k] = refs[k] + 1 - LocalRef(k)
    BY <1>1 DEF TaskInv, OwnersOf, Posted, HandOver
  <2>2. \A u \in Threads : ~Posting(u, k)'
    BY <1>1, <1>5, <2>1 DEF TaskInv, OneParty
  <2>3. ~Posted(k)' /\ (Handled(k)' <=> Handled(k)) /\ (IsHeld(k)' <=> IsHeld(k))
    BY <1>3, <1>5, <2>2 DEF Posted, Handled, IsHeld, Holding
  <2>4. OneParty(k)'
    BY <1>5, <2>1, <2>2 DEF TaskInv, OneParty
  <2>5. OwnersOf(k)'
    BY <1>3, <1>5, <2>1, <2>2, <2>3 DEF TaskInv, OwnersOf
  <2>6. ReadReleased(k)'
    BY <1>3, <2>1 DEF TaskInv, ReadReleased
  <2>7. Owners(k)' = Owners(k) + 1 - LocalRef(k)
    BY <1>3, <2>1, <2>3 DEF Owners, B, LocalRef
  <2>8. RefCount(k)'
    BY <1>3, <2>1, <2>7 DEF TaskInv, RefCount, Live
  <2> QED BY <2>4, <2>5, <2>6, <2>8 DEF TaskInv
<1>8. QueueExact'
  BY <1>3, QueueSame
<1> QED BY <1>6, <1>7, <1>8

\* The caller gives up its asyncTaskOut reference, perhaps the last one.
LEMMA CallerDropsKeeps ==
  ASSUME IInv, NEW k \in Tasks, CallerDrops(k)
  PROVE  QueueExact' /\ \A j \in Tasks : TaskInv(j)'
<1> USE DEF IInv, TypeOK, TaskTypeOK, SocketTypeOK, ServiceTypeOK
<1>1. k \in outRef /\ k \notin outRef'
  BY DEF CallerDrops, DropOut
<1>2. \A j \in Tasks : j # k =>
        refs'[j] = refs[j] /\ released'[j] = released[j] /\ (j \in outRef' <=> j \in outRef)
  BY DEF CallerDrops, DropOut, DecRef, Destroy
<1>3. UNCHANGED <<ovlRef, io, queue, currentTasks, callAt, callTask, workerAt, workerTask>>
  BY DEF CallerDrops, DropOut, socketVars, serviceVars, workerVars
<1>4. \A j \in Tasks :
        /\ \A u \in Threads : Posting(u, j)' <=> Posting(u, j)
        /\ \A w \in Workers : Handling(w, j)' <=> Handling(w, j)
  BY <1>3 DEF Posting, Handling
<1>5. ASSUME NEW j \in Tasks, j # k PROVE TaskInv(j)'
  <2>1. SameTask(j)
    BY <1>2, <1>3, <1>4, <1>5 DEF SameTask
  <2> QED BY <2>1, SameTaskKeeps
<1>6. TaskInv(k)'
  <2>1. TaskInv(k) /\ io[k] \notin {"unused", "failed"}
    BY <1>1 DEF TaskInv, OwnersOf
  <2>2. (Posted(k)' <=> Posted(k)) /\ (Handled(k)' <=> Handled(k)) /\ (IsHeld(k)' <=> IsHeld(k))
    BY <1>3, <1>4 DEF Posted, Handled, IsHeld, Holding
  <2>3. OneParty(k)' /\ OwnersOf(k)'
    BY <1>1, <1>3, <1>4, <2>1, <2>2 DEF TaskInv, OneParty, OwnersOf
  <2>4. Owners(k)' = Owners(k) - 1
    BY <1>1, <1>3, <2>2 DEF Owners, B
  <2>5. ASSUME refs[k] # 1, refs'[k] = refs[k] - 1, released'[k] = released[k]
        PROVE  ReadReleased(k)' /\ RefCount(k)'
    BY <1>1, <1>3, <2>1, <2>4, <2>5 DEF TaskInv, ReadReleased, RefCount, Live
  <2>6. ASSUME refs[k] = 1, released'[k] = released[k] + 1
        PROVE  ReadReleased(k)' /\ RefCount(k)'
    <3>1. RefCount(k)'
      BY <2>6 DEF RefCount, Live
    <3>2. ASSUME k \in ReadTasks PROVE ReadReleased(k)'
      <4>1. released[k] = 0 /\ Owners(k) = 1
        BY <1>1, <2>1, <2>6, <3>2 DEF TaskInv, ReadReleased, RefCount, Live
      <4>2. k \notin currentTasks \cup ovlRef /\ ~Posted(k) /\ ~IsHeld(k)
        BY <1>1, <3>2, <4>1 DEF Owners, B
      <4> QED BY <1>1, <1>3, <2>2, <2>6, <4>1, <4>2 DEF ReadReleased
    <3> QED BY <3>1, <3>2 DEF ReadReleased
  <2>7. ReadReleased(k)' /\ RefCount(k)'
    BY <2>5, <2>6 DEF CallerDrops, DropOut, DecRef, Destroy, Passes
  <2> QED BY <2>3, <2>7 DEF TaskInv
<1>7. QueueExact'
  BY <1>3, QueueSame
<1> QED BY <1>5, <1>6, <1>7
-----------------------------------------------------------------------------
\* The kernel and the worker.
LEMMA KernelKeeps ==
  ASSUME IInv, NEW k \in Tasks, KernelCompletes(k)
  PROVE  QueueExact' /\ \A j \in Tasks : TaskInv(j)'
<1> USE DEF IInv, TypeOK, TaskTypeOK, SocketTypeOK, ServiceTypeOK
<1>1. io[k] = "pending" /\ io'[k] = "queued" /\ \A j \in Tasks : j # k => io'[j] = io[j]
  BY DEF KernelCompletes, Complete
<1>2. UNCHANGED <<refs, released, ovlRef, outRef, currentTasks, callAt, callTask, workerAt, workerTask>>
  BY DEF KernelCompletes, Complete, taskVars, serviceVars, workerVars
<1>3. \A j \in Tasks :
        /\ \A u \in Threads : Posting(u, j)' <=> Posting(u, j)
        /\ \A w \in Workers : Handling(w, j)' <=> Handling(w, j)
  BY <1>2 DEF Posting, Handling
<1>4. ASSUME NEW j \in Tasks, j # k PROVE TaskInv(j)'
  <2>1. SameTask(j)
    BY <1>1, <1>2, <1>3, <1>4 DEF SameTask
  <2> QED BY <2>1, SameTaskKeeps
<1>5. TaskInv(k)'
  <2>1. TaskInv(k)
    OBVIOUS
  <2>2. (Posted(k)' <=> Posted(k)) /\ (Handled(k)' <=> Handled(k)) /\ (IsHeld(k)' <=> IsHeld(k))
    BY <1>2, <1>3 DEF Posted, Handled, IsHeld, Holding
  <2>3. OneParty(k)' /\ OwnersOf(k)' /\ ReadReleased(k)'
    BY <1>1, <1>2, <1>3, <2>1, <2>2 DEF TaskInv, OneParty, OwnersOf, ReadReleased
  <2>4. Owners(k)' = Owners(k)
    BY <1>2, <2>2 DEF Owners, B
  <2> QED BY <1>1, <1>2, <2>1, <2>3, <2>4 DEF TaskInv, RefCount, Live
<1>6. QueueExact'
  <2>1. PICK what \in {"ok", "error"} : queue' = Append(queue, Packet(what, k))
    BY DEF KernelCompletes, Complete
  <2>2. /\ DOMAIN queue' = 1 .. Len(queue) + 1
        /\ DOMAIN queue = 1 .. Len(queue)
        /\ Len(queue) \in Nat
        /\ \A i \in DOMAIN queue : queue'[i] = queue[i]
        /\ queue'[Len(queue) + 1].task = k
    BY <2>1 DEF Packet
  <2>3. \A i \in DOMAIN queue : queue[i].what # "pill" => queue[i].task \in Tasks /\ queue[i].task # k
    BY <1>1, PacketTypes DEF QueueExact
  <2>4. \A i \in DOMAIN queue' : i \in DOMAIN queue \/ i = Len(queue) + 1
    BY <2>2
  <2>5. \A i \in DOMAIN queue' : queue'[i].what # "pill" => io'[queue'[i].task] = "queued"
    BY <1>1, <2>2, <2>3, <2>4 DEF QueueExact
  <2>6. \A i, j \in DOMAIN queue' :
          queue'[i].what # "pill" /\ queue'[j].what # "pill" /\ queue'[i].task = queue'[j].task => i = j
    BY <2>2, <2>3, <2>4 DEF QueueExact
  <2> QED BY <2>5, <2>6 DEF QueueExact
<1> QED BY <1>4, <1>5, <1>6

\* What is left in the port when its first packet is taken.
LEMMA QueueTail ==
  ASSUME TypeOK, QueueExact, queue # <<>>, queue' = Tail(queue),
         \A k \in Tasks : io[k] = "queued" => io'[k] = "queued" \/ (Head(queue).what # "pill" /\ Head(queue).task = k)
  PROVE  QueueExact'
<1>1. /\ queue \in Seq(Packets)
      /\ 1 \in DOMAIN queue /\ Head(queue) = queue[1]
      /\ \A i \in DOMAIN queue' : i + 1 \in DOMAIN queue /\ i + 1 # 1 /\ i \in Nat /\ queue'[i] = queue[i + 1]
  BY DEF TypeOK, SocketTypeOK
<1>2. \A i \in DOMAIN queue' : queue'[i].what # "pill" => io'[queue'[i].task] = "queued"
  <2> TAKE i \in DOMAIN queue'
  <2> HAVE queue'[i].what # "pill"
  <2>1. queue[i + 1].what # "pill" /\ queue[i + 1].task \in Tasks /\ io[queue[i + 1].task] = "queued"
    BY <1>1, PacketTypes DEF QueueExact
  <2>2. Head(queue).what # "pill" => Head(queue).task # queue[i + 1].task
    BY <1>1, <2>1 DEF QueueExact
  <2> QED BY <1>1, <2>1, <2>2
<1>3. \A i, j \in DOMAIN queue' :
        queue'[i].what # "pill" /\ queue'[j].what # "pill" /\ queue'[i].task = queue'[j].task => i = j
  <2> TAKE i, j \in DOMAIN queue'
  <2> HAVE queue'[i].what # "pill" /\ queue'[j].what # "pill" /\ queue'[i].task = queue'[j].task
  <2>1. i + 1 = j + 1
    BY <1>1 DEF QueueExact
  <2> QED BY <1>1, <2>1
<1> QED BY <1>2, <1>3 DEF QueueExact

\* The packet that a worker takes is that of a queued operation, or a pill.
LEMMA HeadTypes ==
  ASSUME TypeOK, QueueExact, queue # <<>>
  PROVE  Head(queue).what # "pill" => Head(queue).task \in Tasks /\ io[Head(queue).task] = "queued"
<1>1. 1 \in DOMAIN queue /\ Head(queue) = queue[1]
  BY DEF TypeOK, SocketTypeOK
<1> QED BY <1>1, PacketTypes DEF QueueExact

\* A worker takes the first packet: the queue and the task's I/O change
\* together.
LEMMA DequeueKeeps ==
  ASSUME IInv, NEW w \in Workers, DequeueError(w) \/ DequeuePill(w)
  PROVE  QueueExact' /\ \A j \in Tasks : TaskInv(j)'
<1> USE DEF IInv, TypeOK, TaskTypeOK, SocketTypeOK, ServiceTypeOK
<1>1. queue # <<>> /\ queue' = Tail(queue) /\ workerAt[w] = "waiting" /\ workerAt'[w] = "exited"
  BY DEF DequeueError, DequeuePill, TakePacket, Goto
<1>2. UNCHANGED <<refs, released, ovlRef, outRef, currentTasks, callAt, callTask, workerTask>>
  BY DEF DequeueError, DequeuePill, TakePacket, taskVars
<1>3. \A v \in Workers : v # w => workerAt'[v] = workerAt[v]
  BY DEF DequeueError, DequeuePill, Goto
<1>4. \A k \in Tasks :
        \/ io'[k] = io[k]
        \/ Head(queue).what # "pill" /\ Head(queue).task = k /\ io'[k] = "taken"
  BY DEF DequeueError, DequeuePill
<1>5. QueueExact'
  BY <1>1, <1>4, QueueTail
<1>6. \A j \in Tasks :
        /\ \A u \in Threads : Posting(u, j)' <=> Posting(u, j)
        /\ \A v \in Workers : Handling(v, j)' <=> Handling(v, j)
  BY <1>1, <1>2, <1>3 DEF Posting, Handling, HandlingSteps
<1>7. ASSUME NEW j \in Tasks PROVE TaskInv(j)'
  <2>1. CASE io'[j] = io[j]
    <3>1. SameTask(j)
      BY <1>1, <1>2, <1>3, <1>6, <2>1 DEF SameTask, Handling, HandlingSteps
    <3> QED BY <3>1, SameTaskKeeps
  <2>2. CASE io[j] = "queued" /\ io'[j] = "taken"
    <3>1. TaskInv(j) /\ j \in ovlRef
      BY <2>2 DEF TaskInv, OwnersOf
    <3>2. (Posted(j)' <=> Posted(j)) /\ (Handled(j)' <=> Handled(j)) /\ (IsHeld(j)' <=> IsHeld(j))
      BY <1>1, <1>3, <1>6 DEF Posted, Handled, IsHeld, Holding
    <3>3. OneParty(j)' /\ OwnersOf(j)' /\ ReadReleased(j)'
      BY <1>2, <1>6, <2>2, <3>1, <3>2 DEF TaskInv, OneParty, OwnersOf, ReadReleased
    <3>4. Owners(j)' = Owners(j)
      BY <1>2, <3>2 DEF Owners, B
    <3> QED BY <1>2, <2>2, <3>1, <3>3, <3>4 DEF TaskInv, RefCount, Live
  <2> QED BY <1>1, <1>4, <2>1, <2>2, HeadTypes
<1> QED BY <1>5, <1>7

\* The packet of an operation that succeeded gets the task a worker.
LEMMA DequeueOkKeeps ==
  ASSUME IInv, NEW w \in Workers, DequeueOk(w)
  PROVE  QueueExact' /\ \A j \in Tasks : TaskInv(j)'
<1> USE DEF IInv, TypeOK, TaskTypeOK, SocketTypeOK, ServiceTypeOK
<1>1. queue # <<>> /\ queue' = Tail(queue) /\ workerAt[w] = "waiting" /\ Head(queue).what # "pill"
  BY DEF DequeueOk, TakePacket
<1> PICK k \in Tasks : k = Head(queue).task /\ io[k] = "queued"
  BY <1>1, HeadTypes
<1>2. workerAt'[w] = "taken" /\ workerTask'[w] = k /\ io'[k] = "taken"
  BY DEF DequeueOk, Goto
<1>3. UNCHANGED <<refs, released, ovlRef, outRef, currentTasks, callAt, callTask>>
  BY DEF DequeueOk, TakePacket, taskVars
<1>4. /\ \A v \in Workers : v # w => workerAt'[v] = workerAt[v] /\ workerTask'[v] = workerTask[v]
      /\ \A j \in Tasks : j # k => io'[j] = io[j]
  BY DEF DequeueOk, Goto
<1>5. QueueExact'
  BY <1>1, <1>4, QueueTail
<1>6. \A j \in Tasks :
        /\ \A u \in Threads : Posting(u, j)' <=> Posting(u, j)
        /\ \A v \in Workers : Handling(v, j)' <=> Handling(v, j) \/ (v = w /\ j = k)
  BY <1>1, <1>2, <1>3, <1>4 DEF Posting, Handling, HandlingSteps
<1>7. ASSUME NEW j \in Tasks, j # k PROVE TaskInv(j)'
  <2>1. \A v \in Workers : Handling(v, j) => v # w
    BY <1>1 DEF Handling, HandlingSteps
  <2>2. SameTask(j)
    BY <1>3, <1>4, <1>6, <1>7, <2>1 DEF SameTask
  <2> QED BY <2>2, SameTaskKeeps
<1>8. TaskInv(k)'
  <2>1. TaskInv(k) /\ ~Handled(k) /\ ~IsHeld(k) /\ k \in ovlRef
    BY DEF TaskInv, OwnersOf, Handled, IsHeld, Holding
  <2>2. \A v \in Workers : Handling(v, k)' <=> v = w
    BY <1>6, <2>1 DEF Handled
  <2>3. (Posted(k)' <=> Posted(k)) /\ ~IsHeld(k)'
    BY <1>2, <1>6, <2>2 DEF Posted, IsHeld, Holding
  <2>4. OneParty(k)' /\ OwnersOf(k)' /\ ReadReleased(k)'
    BY <1>2, <1>3, <1>6, <2>1, <2>2, <2>3 DEF TaskInv, OneParty, OwnersOf, ReadReleased
  <2>5. Owners(k)' = Owners(k)
    BY <1>3, <2>1, <2>3 DEF Owners, B
  <2> QED BY <1>2, <1>3, <2>1, <2>4, <2>5 DEF TaskInv, RefCount, Live
<1> QED BY <1>5, <1>7, <1>8

\* rawTask counts before it is used.
LEMMA HoldKeeps ==
  ASSUME IInv, NEW w \in Workers, HoldTask(w)
  PROVE  QueueExact' /\ \A j \in Tasks : TaskInv(j)'
<1> USE DEF IInv, TypeOK, TaskTypeOK, SocketTypeOK, ServiceTypeOK
<1>1. workerAt[w] = "taken" /\ workerAt'[w] = "held"
  BY DEF HoldTask, Goto
<1> PICK k \in Tasks : k = workerTask[w]
  BY <1>1 DEF HandlingSteps
<1>2. UNCHANGED <<released, ovlRef, outRef, currentTasks, io, queue, callAt, callTask, workerTask>>
  BY DEF HoldTask, socketVars
<1>3. /\ \A v \in Workers : v # w => workerAt'[v] = workerAt[v]
      /\ \A j \in Tasks : j # k => refs'[j] = refs[j]
      /\ refs'[k] = refs[k] + 1
  BY DEF HoldTask, Goto, IncRef
<1>4. \A j \in Tasks :
        /\ \A u \in Threads : Posting(u, j)' <=> Posting(u, j)
        /\ \A v \in Workers : Handling(v, j)' <=> Handling(v, j)
  BY <1>1, <1>2, <1>3 DEF Posting, Handling, HandlingSteps
<1>5. ASSUME NEW j \in Tasks, j # k PROVE TaskInv(j)'
  <2>1. \A v \in Workers : Handling(v, j) => v # w
    BY <1>5 DEF Handling
  <2>2. SameTask(j)
    BY <1>2, <1>3, <1>4, <1>5, <2>1 DEF SameTask
  <2> QED BY <2>2, SameTaskKeeps
<1>6. TaskInv(k)'
  <2>1. TaskInv(k) /\ Handling(w, k) /\ k \in ovlRef
    BY <1>1 DEF TaskInv, OwnersOf, Handling, HandlingSteps
  <2>2. \A v \in Workers : Handling(v, k) => v = w
    BY <2>1 DEF TaskInv, OneParty
  <2>3. /\ Posted(k)' <=> Posted(k)
        /\ Handled(k) /\ Handled(k)'
        /\ ~IsHeld(k) /\ IsHeld(k)'
    BY <1>1, <1>4, <2>1, <2>2 DEF Posted, Handled, IsHeld, Holding
  <2>4. OneParty(k)' /\ OwnersOf(k)' /\ ReadReleased(k)'
    BY <1>2, <1>4, <2>1, <2>2, <2>3 DEF TaskInv, OneParty, OwnersOf, ReadReleased
  <2>5. Owners(k)' = Owners(k) + 1
    BY <1>2, <2>3 DEF Owners, B
  <2> QED BY <1>2, <1>3, <2>1, <2>4, <2>5 DEF TaskInv, RefCount, Live
<1>7. QueueExact'
  BY <1>2, QueueSame
<1> QED BY <1>5, <1>6, <1>7

\* Dispatch gives up two references; the worker's own keeps the task.
LEMMA DispatchKeeps ==
  ASSUME IInv, NEW w \in Workers, Dispatch(w)
  PROVE  QueueExact' /\ \A j \in Tasks : TaskInv(j)'
<1> USE DEF IInv, TypeOK, TaskTypeOK, SocketTypeOK, ServiceTypeOK
<1>1. workerAt[w] = "held" /\ workerAt'[w] = "callback"
  BY DEF Dispatch, Goto
<1> PICK k \in Tasks : k = workerTask[w]
  BY <1>1 DEF HandlingSteps
<1>2. UNCHANGED <<outRef, io, queue, callAt, callTask, workerTask>>
  BY DEF Dispatch
<1>3. /\ \A v \in Workers : v # w => workerAt'[v] = workerAt[v]
      /\ \A j \in Tasks : j # k =>
           /\ refs'[j] = refs[j] /\ released'[j] = released[j]
           /\ j \in ovlRef' <=> j \in ovlRef
           /\ j \in currentTasks' <=> j \in currentTasks
  BY DEF Dispatch, Goto, DecRef, Destroy
<1>4. \A j \in Tasks :
        /\ \A u \in Threads : Posting(u, j)' <=> Posting(u, j)
        /\ \A v \in Workers : Handling(v, j)' <=> Handling(v, j)
  BY <1>1, <1>2, <1>3 DEF Posting, Handling, HandlingSteps
<1>5. ASSUME NEW j \in Tasks, j # k PROVE TaskInv(j)'
  <2>1. \A v \in Workers : Handling(v, j) => v # w
    BY <1>5 DEF Handling
  <2>2. SameTask(j)
    BY <1>2, <1>3, <1>4, <1>5, <2>1 DEF SameTask
  <2> QED BY <2>2, SameTaskKeeps
<1>6. TaskInv(k)'
  <2>1. /\ TaskInv(k) /\ Handling(w, k) /\ k \in ovlRef /\ k \in currentTasks
        /\ k \notin ovlRef' /\ k \notin currentTasks' /\ io[k] = "taken"
    BY <1>1 DEF TaskInv, OwnersOf, Handling, HandlingSteps, Handled, Dispatch
  <2>2. \A v \in Workers : Handling(v, k) => v = w
    BY <2>1 DEF TaskInv, OneParty
  <2>3. /\ Posted(k)' <=> Posted(k)
        /\ Handled(k) /\ Handled(k)'
        /\ IsHeld(k) /\ IsHeld(k)'
    BY <1>1, <1>4, <2>1, <2>2 DEF Posted, Handled, IsHeld, Holding
  <2>4. OneParty(k)'
    BY <1>4, <2>1 DEF TaskInv, OneParty
  <2>5. OwnersOf(k)'
    BY <1>1, <1>2, <1>4, <2>1, <2>2, <2>3 DEF TaskInv, OwnersOf
  <2>6. Owners(k) \in Int /\ Owners(k) >= 3 /\ Owners(k)' = Owners(k) - 2
    BY <1>2, <2>1, <2>3 DEF Owners, B
  <2>7. \/ refs'[k] = refs[k] - 2 /\ released'[k] = released[k]
        \/ refs[k] = 2 /\ released'[k] = released[k] + 1
    BY DEF Dispatch, DecRef, Destroy, Passes
  <2>8. RefCount(k)'
    BY <1>2, <2>1, <2>6, <2>7 DEF TaskInv, RefCount, Live
  <2>9. ReadReleased(k)'
    BY <2>1, <2>6, <2>7 DEF TaskInv, ReadReleased, RefCount, Live
  <2> QED BY <2>4, <2>5, <2>8, <2>9 DEF TaskInv
<1>7. QueueExact'
  BY <1>2, QueueSame
<1> QED BY <1>5, <1>6, <1>7

\* rawTask is given up last; it may be the last reference.
LEMMA ReleaseKeeps ==
  ASSUME IInv, NEW w \in Workers, ReleaseTask(w)
  PROVE  QueueExact' /\ \A j \in Tasks : TaskInv(j)'
<1> USE DEF IInv, TypeOK, TaskTypeOK, SocketTypeOK, ServiceTypeOK
<1>1. workerAt[w] \in {"done", "threw"} /\ workerAt'[w] \in {"waiting", "exited"}
  BY DEF ReleaseTask, Goto
<1> PICK k \in Tasks : k = workerTask[w]
  BY <1>1 DEF HandlingSteps
<1>2. UNCHANGED <<ovlRef, outRef, currentTasks, io, queue, callAt, callTask>>
  BY DEF ReleaseTask, socketVars
<1>3. /\ \A v \in Workers : v # w => workerAt'[v] = workerAt[v] /\ workerTask'[v] = workerTask[v]
      /\ \A j \in Tasks : j # k => refs'[j] = refs[j] /\ released'[j] = released[j]
  BY DEF ReleaseTask, Goto, DecRef, Destroy
<1>4. \A j \in Tasks :
        /\ \A u \in Threads : Posting(u, j)' <=> Posting(u, j)
        /\ \A v \in Workers : Handling(v, j)' <=> Handling(v, j) /\ v # w
  BY <1>1, <1>2, <1>3 DEF Posting, Handling, HandlingSteps
<1>5. ASSUME NEW j \in Tasks, j # k PROVE TaskInv(j)'
  <2>1. \A v \in Workers : Handling(v, j) => v # w
    BY <1>5 DEF Handling
  <2>2. SameTask(j)
    BY <1>2, <1>3, <1>4, <1>5, <2>1 DEF SameTask
  <2> QED BY <2>2, SameTaskKeeps
<1>6. TaskInv(k)'
  <2>1. TaskInv(k) /\ Handling(w, k) /\ io[k] = "taken"
    BY <1>1 DEF TaskInv, OwnersOf, Handling, HandlingSteps, Handled
  <2>2. \A v \in Workers : ~Handling(v, k)'
    BY <1>4, <2>1 DEF TaskInv, OneParty
  <2>3. /\ Posted(k)' <=> Posted(k)
        /\ ~Handled(k)'
        /\ IsHeld(k) /\ ~IsHeld(k)'
    BY <1>1, <1>4, <2>1, <2>2 DEF Posted, Handled, IsHeld, Holding
  <2>4. OneParty(k)' /\ OwnersOf(k)'
    BY <1>2, <1>4, <2>1, <2>2, <2>3 DEF TaskInv, OneParty, OwnersOf
  <2>5. Owners(k)' = Owners(k) - 1
    BY <1>2, <2>3 DEF Owners, B
  <2>6. ASSUME refs[k] # 1, refs'[k] = refs[k] - 1, released'[k] = released[k]
        PROVE  ReadReleased(k)' /\ RefCount(k)'
    BY <1>2, <2>1, <2>3, <2>5, <2>6 DEF TaskInv, ReadReleased, RefCount, Live
  <2>7. ASSUME refs[k] = 1, released'[k] = released[k] + 1
        PROVE  ReadReleased(k)' /\ RefCount(k)'
    <3>1. RefCount(k)'
      BY <2>7 DEF RefCount, Live
    <3>2. ASSUME k \in ReadTasks PROVE ReadReleased(k)'
      <4>1. released[k] = 0 /\ Owners(k) = 1
        BY <2>1, <2>3, <2>7, <3>2 DEF TaskInv, ReadReleased, RefCount, Live
      <4>2. k \notin currentTasks \cup ovlRef \cup outRef /\ ~Posted(k)
        BY <2>3, <3>2, <4>1 DEF Owners, B
      <4> QED BY <1>2, <2>3, <2>7, <4>1, <4>2 DEF ReadReleased
    <3> QED BY <3>1, <3>2 DEF ReadReleased
  <2>8. ReadReleased(k)' /\ RefCount(k)'
    BY <2>6, <2>7 DEF ReleaseTask, DecRef, Destroy, Passes
  <2> QED BY <2>4, <2>8 DEF TaskInv
<1>7. QueueExact'
  BY <1>2, QueueSame
<1> QED BY <1>5, <1>6, <1>7
-----------------------------------------------------------------------------
\* run() and destruction.
LEMMA PillKeeps ==
  ASSUME IInv, RunPostsPill
  PROVE  QueueExact' /\ \A j \in Tasks : TaskInv(j)'
<1> USE DEF IInv, TypeOK, TaskTypeOK, SocketTypeOK, ServiceTypeOK
<1>1. UNCHANGED <<refs, released, ovlRef, outRef, currentTasks, io, callAt, callTask, workerAt, workerTask>>
  BY DEF RunPostsPill, taskVars, workerVars
<1>2. ASSUME NEW j \in Tasks PROVE TaskInv(j)'
  <2>1. SameTask(j)
    BY <1>1 DEF SameTask, Posting, Handling
  <2> QED BY <2>1, SameTaskKeeps
<1>3. QueueExact'
  <2>1. /\ DOMAIN queue' = 1 .. Len(queue) + 1
        /\ DOMAIN queue = 1 .. Len(queue)
        /\ Len(queue) \in Nat
        /\ \A i \in DOMAIN queue : queue'[i] = queue[i]
        /\ queue'[Len(queue) + 1].what = "pill"
    BY DEF RunPostsPill, Packet
  <2>2. \A i \in DOMAIN queue' : queue'[i].what # "pill" => i \in DOMAIN queue
    BY <2>1
  <2> QED BY <1>1, <2>1, <2>2 DEF QueueExact
<1> QED BY <1>2, <1>3

\* Destruction gives up the references of currentTasks.
LEMMA DestroysKeeps ==
  ASSUME IInv, Destroys
  PROVE  QueueExact' /\ \A j \in Tasks : TaskInv(j)'
<1> USE DEF IInv, TypeOK, TaskTypeOK, SocketTypeOK, ServiceTypeOK
<1>1. UNCHANGED <<released, ovlRef, outRef, io, queue, callAt, callTask, workerAt, workerTask>>
  BY DEF Destroys, workerVars
<1>2. \A j \in Tasks :
        /\ \A u \in Threads : Posting(u, j)' <=> Posting(u, j)
        /\ \A w \in Workers : Handling(w, j)' <=> Handling(w, j)
  BY <1>1 DEF Posting, Handling
<1>3. QueueExact'
  BY <1>1, QueueSame
<1>4. ASSUME NEW j \in Tasks PROVE TaskInv(j)'
  <2>1. TaskInv(j)
    OBVIOUS
  <2>2. CASE UNCHANGED <<refs, currentTasks>>
    <3>1. SameTask(j)
      BY <1>1, <1>2, <2>2 DEF SameTask
    <3> QED BY <3>1, SameTaskKeeps
  <2>3. CASE currentTasks' = {} /\ refs'[j] = refs[j] - B(j \in currentTasks)
    <3>1. (Posted(j)' <=> Posted(j)) /\ (Handled(j)' <=> Handled(j)) /\ (IsHeld(j)' <=> IsHeld(j))
      BY <1>1, <1>2 DEF Posted, Handled, IsHeld, Holding
    <3>2. OneParty(j)' /\ OwnersOf(j)' /\ ReadReleased(j)'
      BY <1>1, <1>2, <2>1, <2>3, <3>1 DEF TaskInv, OneParty, OwnersOf, ReadReleased
    <3>3. Owners(j)' = Owners(j) - B(j \in currentTasks)
      BY <1>1, <2>3, <3>1 DEF Owners, B
    <3>4. RefCount(j)'
      BY <1>1, <2>1, <2>3, <3>3 DEF TaskInv, RefCount, Live, B
    <3> QED BY <3>2, <3>4 DEF TaskInv
  <2> QED BY <2>2, <2>3 DEF Destroys, B
<1> QED BY <1>3, <1>4

-----------------------------------------------------------------------------

\* Initially no task is owned and none is released.
LEMMA OwnershipInit == Init => IInv
<1> SUFFICES ASSUME Init PROVE IInv
  OBVIOUS
<1>1. TypeOK
  BY TypeInit
<1>2. QueueExact
  BY DEF Init, SocketInit, QueueExact
<1>3. ASSUME NEW k \in Tasks PROVE TaskInv(k)
  <2>1. /\ io[k] = "unused" /\ released[k] = 0
        /\ k \notin ovlRef \cup outRef \cup currentTasks
    BY DEF Init, TaskInit, SocketInit
  <2>2. (\A t \in Threads : ~Posting(t, k)) /\ (\A w \in Workers : ~Handling(w, k))
    BY DEF Init, SocketInit, Posting, Handling, HandlingSteps
  <2>3. ~Posted(k) /\ ~Handled(k)
    BY <2>2 DEF Posted, Handled
  <2> QED BY <2>1, <2>2, <2>3 DEF TaskInv, OneParty, OwnersOf, ReadReleased, RefCount
<1> QED BY <1>1, <1>2, <1>3 DEF IInv

\* One step, one lemma for each action.
LEMMA OwnershipStep == IInv /\ [Next]_vars => IInv'
<1> SUFFICES ASSUME IInv, [Next]_vars PROVE IInv'
  OBVIOUS
<1> DEFINE Kept == QueueExact' /\ \A k \in Tasks : TaskInv(k)'
<1>1. TypeOK'
  BY TypeStep DEF IInv
<1> SUFFICES Kept
  BY <1>1 DEF IInv
<1>2. ASSUME NEW t \in Threads, IssueStep(t) PROVE Kept
  BY <1>2, IssueKeeps, IssueFailsKeeps DEF IssueStep
<1>3. ASSUME NEW t \in Threads, CallStep(t) PROVE Kept
  BY <1>3, PostKeeps, PostFailsKeeps, HandOverKeeps DEF CallStep
<1>4. ASSUME NEW k \in Tasks, CallerDrops(k) \/ KernelCompletes(k) PROVE Kept
  BY <1>4, CallerDropsKeeps, KernelKeeps
<1>5. ASSUME NEW w \in Workers, WorkerStep(w) PROVE Kept
  <2>1. CASE DequeueOk(w) \/ DequeueError(w) \/ DequeuePill(w)
    BY <2>1, DequeueKeeps, DequeueOkKeeps
  <2>2. CASE HoldTask(w) \/ Dispatch(w) \/ ReleaseTask(w)
    BY <2>2, HoldKeeps, DispatchKeeps, ReleaseKeeps
  <2>3. CASE Discard(w) \/ CallbackReturns(w) \/ CallbackThrows(w) \/ StopChecks(w) \/ StopWakes(w)
    BY <2>3, QuietSteps
  <2> QED BY <1>5, <2>1, <2>2, <2>3 DEF WorkerStep
<1>6. CASE RunEnters \/ RunWakesSpuriously \/ RunStep
  <2>1. CASE RunPostsPill
    BY <2>1, PillKeeps
  <2>2. CASE RunEnters \/ RunResumes \/ RunSleeps \/ RunStartsJoin \/ RunWakesSpuriously \/ RunReturns
    BY <2>2, QuietSteps
  <2> QED BY <1>6, <2>1, <2>2 DEF RunStep
<1>7. CASE Destroys
  BY <1>7, DestroysKeeps
<1>8. CASE UNCHANGED vars
  BY <1>8, QuietSteps
<1> QED
  BY <1>2, <1>3, <1>4, <1>5, <1>6, <1>7, <1>8 DEF Next

\* The inductive invariant holds in every state.
THEOREM Invariance == Spec => []IInv
  BY OwnershipInit, OwnershipStep, PTL DEF Spec

\* The bookkeeping of module Win32IOService holds in every state.
THEOREM OwnershipCorrect == Spec => []Ownership
<1>1. IInv => Ownership
  BY DEF IInv, TaskInv, Ownership
<1> QED BY <1>1, Invariance, PTL

\* The count of a task that exists is the number of its counted pointers.
THEOREM RefCountCorrect == Spec => []RefCountExact
<1>1. IInv => RefCountExact
  BY DEF IInv, TaskInv, RefCount, RefCountExact
<1> QED BY <1>1, Invariance, PTL

LEMMA ReadsAreSafe == IInv => ReadTasksSafe
<1> SUFFICES ASSUME IInv, NEW k \in ReadTasks, released[k] # 0
             PROVE  released[k] = 1 /\ ~InUse(k)
  BY DEF ReadTasksSafe
<1>1. k \in Tasks /\ TaskInv(k)
  BY DEF Tasks, IInv
<1>2. /\ released[k] = 1 /\ ~Posted(k) /\ ~IsHeld(k)
      /\ k \notin currentTasks \cup ovlRef \cup outRef
  BY <1>1 DEF TaskInv, ReadReleased
<1>3. io[k] \notin {"pending", "queued"}
  BY <1>1, <1>2 DEF TaskInv, OwnersOf
<1>4. \A w \in Workers : ~Handling(w, k)
  BY <1>1, <1>2 DEF TaskInv, OwnersOf, IsHeld, Holding
<1> QED BY <1>2, <1>3, <1>4 DEF InUse, Posted

\* A read task is never released twice, nor used after its release.
THEOREM ReadTasksSafety == Spec => []ReadTasksSafe
  BY ReadsAreSafe, Invariance, PTL
=============================================================================
