----------------------- MODULE Win32Refinement_proofs -----------------------
(***************************************************************************)
(* The IOCP service implements AsyncOperation: for its read tasks whatever *)
(* the threads, tasks and faults, and for all its tasks when it has one    *)
(* worker thread and no call fails.  What a client sees of a task depends  *)
(* on few facts, so a step is proved by what it does to these facts for its*)
(* own task, and by Untouched for the others.  A set S of tasks stands for *)
(* the read tasks or for all of them.                                      *)
(***************************************************************************)
EXTENDS Win32Refinement, Win32Run_proofs

\* The step changes nothing that a client of task k sees.
SameView(k) ==
  /\ ClientView(k)' = ClientView(k)
  /\ k \in outRef' <=> k \in outRef
  /\ released'[k] # 0 <=> released[k] # 0

\* The step leaves what ClientView depends on as it is.
Untouched(k) ==
  /\ released'[k] = released[k]
  /\ io'[k] = io[k]
  /\ k \in ovlRef' <=> k \in ovlRef
  /\ k \in outRef' <=> k \in outRef
  /\ \A w \in Workers : Handling(w, k)' <=> Handling(w, k)

LEMMA UntouchedIsSame ==
  ASSUME NEW k \in Tasks, Untouched(k)
  PROVE  SameView(k)
<1>1. Handled(k)' <=> Handled(k)
  BY DEF Untouched, Handled
<1> QED
  BY <1>1 DEF Untouched, SameView, ClientView

\* A step that the client of one task sees: the seven steps of the promise.
Starts(k)   == ClientView(k) = "idle" /\ ClientView(k)' = "started"
Refuses(k)  == ClientView(k) = "idle" /\ ClientView(k)' = "refused"
Finishes(k) == ClientView(k) = "started" /\ ClientView(k)' = "finished"
CallsBack(k) == ClientView(k) = "finished" /\ ClientView(k)' = "inCallback"
Returns(k)  == ClientView(k) = "inCallback" /\ ClientView(k)' = "over"

SameHold(k) == k \in outRef' <=> k \in outRef
Stays(k) == released'[k] # 0 <=> released[k] # 0
Goes(k)  == released[k] = 0 /\ released'[k] # 0

Promised(k) ==
  \/ Starts(k) /\ SameHold(k) /\ Stays(k)
  \/ Refuses(k) /\ SameHold(k) /\ (Stays(k) \/ Goes(k))
  \/ Finishes(k) /\ SameHold(k) /\ Stays(k)
  \/ CallsBack(k) /\ SameHold(k) /\ Stays(k)
  \/ Returns(k) /\ SameHold(k) /\ (Stays(k) \/ (k \notin outRef /\ Goes(k)))
  \/ /\ ClientView(k)' = ClientView(k) /\ ClientView(k) \notin {"idle", "refused"}
     /\ k \notin outRef /\ k \in outRef' /\ released[k] = 0 /\ Stays(k)
  \/ /\ ClientView(k)' = ClientView(k)
     /\ k \in outRef /\ k \notin outRef'
     /\ Stays(k) \/ (ClientView(k) = "over" /\ Goes(k))

\* What a step is to the clients of the tasks of S: nothing, or a step of the
\* promise for one of them.
SeenBy(S) ==
  \/ \A k \in S : SameView(k)
  \/ \E k \in S : Promised(k) /\ \A j \in S \ {k} : SameView(j)

LEMMA NobodySees ==
  ASSUME NEW S, \A k \in S : SameView(k)
  PROVE  UNCHANGED <<View(S), Held(S), Gone(S)>>
<1>1. View(S)' = View(S)
  BY DEF SameView, View
<1>2. Held(S)' = Held(S)
  BY DEF SameView, Held
<1>3. Gone(S)' = Gone(S)
  BY DEF SameView, Gone
<1> QED
  BY <1>1, <1>2, <1>3

\* View(S)[k] goes one way, and no other view changes.
Moved(S, k, from, to) == View(S)[k] = from /\ View(S)' = [View(S) EXCEPT ![k] = to]

LEMMA OneSees ==
  ASSUME NEW S, NEW k \in S, Promised(k), \A j \in S \ {k} : SameView(j)
  PROVE  \/ Moved(S, k, "idle", "started") /\ UNCHANGED <<Held(S), Gone(S)>>
         \/ /\ Moved(S, k, "idle", "refused") /\ UNCHANGED Held(S)
            /\ Gone(S)' = Gone(S) \/ (Gone(S)' = Gone(S) \cup {k} /\ k \notin Gone(S))
         \/ Moved(S, k, "started", "finished") /\ UNCHANGED <<Held(S), Gone(S)>>
         \/ Moved(S, k, "finished", "inCallback") /\ UNCHANGED <<Held(S), Gone(S)>>
         \/ /\ Moved(S, k, "inCallback", "over") /\ UNCHANGED Held(S)
            /\ Gone(S)' = Gone(S) \/ (k \notin Held(S) \cup Gone(S) /\ Gone(S)' = Gone(S) \cup {k})
         \/ /\ View(S)[k] \notin {"idle", "refused"} /\ k \notin Held(S) \cup Gone(S)
            /\ Held(S)' = Held(S) \cup {k} /\ UNCHANGED <<View(S), Gone(S)>>
         \/ /\ k \in Held(S) /\ Held(S)' = Held(S) \ {k} /\ UNCHANGED View(S)
            /\ Gone(S)' = Gone(S) \/ (View(S)[k] = "over" /\ Gone(S)' = Gone(S) \cup {k})
<1>1. View(S)' = [View(S) EXCEPT ![k] = ClientView(k)'] /\ View(S)[k] = ClientView(k)
  BY DEF SameView, View
<1>2. ClientView(k)' = ClientView(k) => View(S)' = View(S)
  BY DEF SameView, View
<1>3. /\ SameHold(k) => Held(S)' = Held(S)
      /\ k \notin outRef /\ k \in outRef' => Held(S)' = Held(S) \cup {k} /\ k \notin Held(S)
      /\ k \in outRef /\ k \notin outRef' => Held(S)' = Held(S) \ {k} /\ k \in Held(S)
  BY DEF SameView, SameHold, Held
<1>4. /\ Stays(k) => Gone(S)' = Gone(S)
      /\ Goes(k) => Gone(S)' = Gone(S) \cup {k} /\ k \notin Gone(S)
      /\ released[k] = 0 => k \notin Gone(S)
      /\ k \in Held(S) <=> k \in outRef
  BY DEF SameView, Stays, Goes, Held, Gone
<1>5. /\ Starts(k) => Moved(S, k, "idle", "started")
      /\ Refuses(k) => Moved(S, k, "idle", "refused")
      /\ Finishes(k) => Moved(S, k, "started", "finished")
      /\ CallsBack(k) => Moved(S, k, "finished", "inCallback")
      /\ Returns(k) => Moved(S, k, "inCallback", "over")
  BY <1>1 DEF Starts, Refuses, Finishes, CallsBack, Returns, Moved
<1> QED
  BY <1>1, <1>2, <1>3, <1>4, <1>5 DEF Promised

\* The promise for the read tasks, and that for all tasks.
LEMMA ReadsSee ==
  ASSUME SeenBy(ReadTasks)
  PROVE  Abstract!Next \/ UNCHANGED Abstract!vars
<1>1. CASE \A k \in ReadTasks : SameView(k)
  BY <1>1, NobodySees DEF Abstract!vars
<1>2. ASSUME NEW k \in ReadTasks, Promised(k), \A j \in ReadTasks \ {k} : SameView(j)
      PROVE  Abstract!Next
  BY <1>2, OneSees DEF Moved, Abstract!Next, Abstract!Start, Abstract!Refuse, Abstract!Finish,
       Abstract!CallBack, Abstract!Return, Abstract!Give, Abstract!Drop, Abstract!Move, Abstract!MayGo
<1> QED
  BY <1>1, <1>2 DEF SeenBy

LEMMA AllSee ==
  ASSUME SeenBy(Tasks)
  PROVE  Every!Next \/ UNCHANGED Every!vars
<1>1. CASE \A k \in Tasks : SameView(k)
  BY <1>1, NobodySees DEF Every!vars
<1>2. ASSUME NEW k \in Tasks, Promised(k), \A j \in Tasks \ {k} : SameView(j)
      PROVE  Every!Next
  BY <1>2, OneSees DEF Moved, Every!Next, Every!Start, Every!Refuse, Every!Finish,
       Every!CallBack, Every!Return, Every!Give, Every!Drop, Every!Move, Every!MayGo
<1> QED
  BY <1>1, <1>2 DEF SeenBy

-----------------------------------------------------------------------------
(* The steps, one lemma for each kind, about the tasks of S.               *)

\* Nobody uses the task after its release, and its call cannot fail once the
\* operation runs, unless it is a read.
Trusted(k) ==
  /\ released[k] # 0 => ~InUse(k)
  /\ k \in ReadTasks \/ "oom" \notin Faults

\* A step about one task.
LEMMA OneTask ==
  ASSUME NEW S \in SUBSET Tasks, NEW k \in Tasks, \A j \in Tasks \ {k} : Untouched(j),
         k \in S => Promised(k) \/ SameView(k)
  PROVE  SeenBy(S)
<1>1. \A j \in S \ {k} : SameView(j)
  BY UntouchedIsSame
<1>2. CASE k \in S /\ Promised(k)
  BY <1>1, <1>2 DEF SeenBy
<1>3. CASE k \notin S \/ SameView(k)
  BY <1>1, <1>3 DEF SeenBy
<1> QED
  BY <1>2, <1>3

\* A step about none.
LEMMA NoTaskSeen ==
  ASSUME NEW S \in SUBSET Tasks, \A k \in Tasks : Untouched(k)
  PROVE  SeenBy(S)
<1>1. \A k \in S : SameView(k)
  BY UntouchedIsSame
<1> QED
  BY <1>1 DEF SeenBy

\* A call starts the operation, is refused, or ends the process.
LEMMA IssueSeen ==
  ASSUME IInv, NEW S \in SUBSET Tasks, \A k \in S : Trusted(k), NEW t \in Threads, IssueStep(t)
  PROVE  SeenBy(S)
<1> USE DEF IInv, TypeOK, TaskTypeOK, SocketTypeOK, ServiceTypeOK
<1>1. PICK k \in Tasks :
        Issue(t, k) \/ IssueWithoutOverlapped(t, k) \/ IssueRejected(t, k) \/ IssueUnmapped(t, k)
  BY DEF IssueStep
<1>2. /\ UNCHANGED <<workerAt, workerTask, outRef>>
      /\ \A j \in Tasks \ {k} :
           /\ released'[j] = released[j] /\ io'[j] = io[j]
           /\ j \in ovlRef' <=> j \in ovlRef
  <2>1. UNCHANGED <<workerAt, workerTask>>
    BY DEF IssueStep, serviceVars, workerVars
  <2>2. CASE Issue(t, k)
    BY <2>1, <2>2 DEF Issue
  <2>3. CASE IssueWithoutOverlapped(t, k)
    BY <2>1, <2>3 DEF IssueWithoutOverlapped, Destroy
  <2>4. CASE IssueRejected(t, k)
    BY <2>1, <2>4 DEF IssueRejected, Destroy
  <2>5. CASE IssueUnmapped(t, k)
    BY <2>1, <2>5 DEF IssueUnmapped, taskVars
  <2> QED
    BY <1>1, <2>2, <2>3, <2>4, <2>5
<1>3. \A j \in Tasks \ {k} : Untouched(j)
  BY <1>2 DEF Untouched, Handling
<1>4. io[k] = "unused" /\ released[k] = 0 /\ ClientView(k) = "idle"
  BY <1>1 DEF Issue, IssueWithoutOverlapped, IssueRejected, IssueUnmapped, NewTask, TaskInv, OwnersOf,
              ClientView
<1>5. CASE Issue(t, k)
  <2>1. io'[k] = "pending" /\ released' = released
    BY <1>5 DEF Issue
  <2>2. ClientView(k)' = "started"
    BY <2>1 DEF ClientView
  <2>3. Promised(k)
    BY <1>2, <1>4, <2>1, <2>2 DEF Promised, Starts, SameHold, Stays
  <2> QED
    BY <1>3, <2>3, OneTask
<1>6. CASE IssueWithoutOverlapped(t, k) \/ IssueRejected(t, k)
  <2>1. io'[k] = "failed"
    BY <1>6 DEF IssueWithoutOverlapped, IssueRejected
  <2>2. ClientView(k)' = "refused"
    BY <2>1 DEF ClientView
  <2>3. Promised(k)
    BY <1>2, <1>4, <2>2 DEF Promised, Refuses, SameHold, Stays, Goes
  <2> QED
    BY <1>3, <2>3, OneTask
<1>7. CASE IssueUnmapped(t, k)
  <2>1. Untouched(k)
    BY <1>2, <1>7 DEF IssueUnmapped, Untouched, Handling, taskVars
  <2> QED
    BY <1>3, <2>1, NoTaskSeen
<1> QED
  BY <1>1, <1>5, <1>6, <1>7

\* The rest of a call: readAsync's own pointer keeps the task when posting
\* fails, and the client gets its reference when it does not.
LEMMA CallSeen ==
  ASSUME IInv, NEW S \in SUBSET Tasks, \A k \in S : Trusted(k), NEW t \in Threads, CallStep(t)
  PROVE  SeenBy(S)
<1> USE DEF IInv, TypeOK, TaskTypeOK, SocketTypeOK, ServiceTypeOK
<1> PICK k \in Tasks : k = callTask[t]
  BY DEF CallStep, Post, PostFails, HandOver
<1>1. /\ TaskInv(k) /\ Posting(t, k) /\ Posted(k)
  BY DEF CallStep, Post, PostFails, HandOver, Posting, Posted
<1>2. /\ UNCHANGED <<workerAt, workerTask, io, ovlRef>>
      /\ \A j \in Tasks \ {k} : released'[j] = released[j] /\ (j \in outRef' <=> j \in outRef)
  BY DEF CallStep, Post, PostFails, HandOver, DecRef, Destroy, serviceVars, workerVars
<1>3. \A j \in Tasks \ {k} : Untouched(j)
  BY <1>2 DEF Untouched, Handling
<1>4. CASE Post(t)
  <2>1. Untouched(k)
    BY <1>2, <1>4 DEF Post, Untouched, Handling
  <2> QED
    BY <1>3, <2>1, NoTaskSeen
<1>5. CASE PostFails(t)
  <2>1. ASSUME k \in S
        PROVE  SameView(k)
    <3>1. k \in ReadTasks /\ released[k] = 0 /\ refs[k] = Owners(k) /\ k \in ovlRef
      BY <1>1, <1>5, <2>1 DEF Trusted, InUse, TaskInv, RefCount, Live, OwnersOf, PostFails
    <3>2. refs[k] # 1
      BY <1>1, <3>1 DEF Owners, B
    <3>3. released' = released
      BY <1>5, <3>1, <3>2 DEF PostFails, DecRef, Tasks
    <3>4. Untouched(k)
      BY <1>2, <1>5, <3>3 DEF PostFails, Untouched, Handling
    <3> QED
      BY <3>4, UntouchedIsSame
  <2> QED
    BY <1>3, <2>1, OneTask
<1>6. CASE HandOver(t)
  <2>1. /\ k \notin outRef /\ k \in outRef' /\ released' = released
        /\ io[k] \notin {"unused", "failed"}
    BY <1>1, <1>6 DEF HandOver, TaskInv, OwnersOf
  <2>2. ClientView(k)' = ClientView(k)
    BY <1>2 DEF ClientView, Handled, Handling
  <2>3. ClientView(k) \notin {"idle", "refused"}
    <3>1. io[k] \in {"pending", "queued", "taken"}
      BY <2>1 DEF IOStates
    <3>2. CASE io[k] = "pending"
      BY <3>2 DEF ClientView
    <3>3. CASE io[k] = "queued"
      BY <3>3 DEF ClientView
    <3>4. CASE io[k] = "taken"
      BY <3>4 DEF ClientView
    <3> QED
      BY <3>1, <3>2, <3>3, <3>4
  <2>4. k \in S => released[k] = 0
    BY <1>1 DEF Trusted, InUse
  <2>5. k \in S => Promised(k)
    BY <2>1, <2>2, <2>3, <2>4 DEF Promised, Stays
  <2> QED
    BY <1>3, <2>5, OneTask
<1> QED
  BY <1>4, <1>5, <1>6 DEF CallStep

\* The client lets go of its reference: the last one only after the callback.
LEMMA DropSeen ==
  ASSUME IInv, NEW S \in SUBSET Tasks, \A k \in S : Trusted(k), NEW k \in Tasks, CallerDrops(k)
  PROVE  SeenBy(S)
<1> USE DEF IInv, TypeOK, TaskTypeOK, SocketTypeOK, ServiceTypeOK
<1>1. /\ UNCHANGED <<workerAt, workerTask, io, ovlRef>>
      /\ k \in outRef /\ outRef' = outRef \ {k}
      /\ \A j \in Tasks \ {k} : released'[j] = released[j]
  BY DEF CallerDrops, DropOut, DecRef, Destroy, socketVars, serviceVars, workerVars
<1>2. \A j \in Tasks \ {k} : Untouched(j)
  BY <1>1 DEF Untouched, Handling
<1>3. ClientView(k)' = ClientView(k)
  BY <1>1 DEF ClientView, Handled, Handling
<1>4. ASSUME k \in S
      PROVE  Promised(k)
  <2>1. TaskInv(k) /\ released[k] = 0 /\ refs[k] = Owners(k) /\ io[k] \notin {"unused", "failed"}
    BY <1>1, <1>4 DEF Trusted, InUse, TaskInv, RefCount, Live, OwnersOf
  <2>2. CASE refs[k] # 1
    BY <1>1, <1>3, <2>2 DEF CallerDrops, DropOut, DecRef, Promised, Stays
  <2>3. CASE refs[k] = 1
    <3>1. k \notin ovlRef /\ ~IsHeld(k)
      BY <1>1, <2>1, <2>3 DEF Owners, B
    <3>2. io[k] = "taken" /\ ~Handled(k)
      BY <2>1, <3>1 DEF TaskInv, OwnersOf, IsHeld, Holding, Handled, IOStates
    <3>3. ClientView(k) = "over"
      BY <3>1, <3>2 DEF ClientView
    <3>4. Stays(k) \/ Goes(k)
      BY <2>1 DEF Stays, Goes
    <3> QED
      BY <1>1, <1>3, <3>3, <3>4 DEF Promised
  <2> QED
    BY <2>2, <2>3
<1> QED
  BY <1>2, <1>4, OneTask

\* The kernel finishes the operation.
LEMMA KernelSeen ==
  ASSUME IInv, NEW S \in SUBSET Tasks, \A k \in S : Trusted(k), NEW k \in Tasks, KernelCompletes(k)
  PROVE  SeenBy(S)
<1> USE DEF IInv, TypeOK, TaskTypeOK, SocketTypeOK, ServiceTypeOK
<1>1. /\ UNCHANGED <<workerAt, workerTask, released, ovlRef, outRef>>
      /\ io[k] = "pending" /\ io'[k] = "queued"
      /\ \A j \in Tasks \ {k} : io'[j] = io[j]
  BY DEF KernelCompletes, Complete, taskVars, serviceVars, workerVars
<1>2. \A j \in Tasks \ {k} : Untouched(j)
  BY <1>1 DEF Untouched, Handling
<1>3. ClientView(k) = "started" /\ ClientView(k)' = "finished"
  BY <1>1 DEF ClientView
<1>4. Promised(k)
  BY <1>1, <1>3 DEF Promised, Finishes, SameHold, Stays
<1> QED
  BY <1>2, <1>4, OneTask

\* A worker takes a packet: the operation stays finished.
LEMMA TakeSeen ==
  ASSUME IInv, NEW S \in SUBSET Tasks, \A k \in S : Trusted(k), NEW w \in Workers, DequeueOk(w) \/ DequeueError(w)
  PROVE  SeenBy(S)
<1> USE DEF IInv, TypeOK, TaskTypeOK, SocketTypeOK, ServiceTypeOK
<1> PICK k \in Tasks : k = Head(queue).task /\ io[k] = "queued"
  <2>1. 1 \in DOMAIN queue /\ Head(queue) = queue[1] /\ queue[1].what # "pill"
    BY DEF DequeueOk, DequeueError, TakePacket
  <2> QED
    BY <2>1, PacketTypes DEF QueueExact
<1>1. /\ UNCHANGED <<released, ovlRef, outRef>>
      /\ io'[k] = "taken"
      /\ \A j \in Tasks \ {k} : io'[j] = io[j]
  BY DEF DequeueOk, DequeueError, TakePacket, taskVars
<1>2. k \in ovlRef
  BY DEF TaskInv, OwnersOf
<1>3. \A j \in Tasks \ {k} : Untouched(j)
  <2>1. workerAt[w] = "waiting" /\ (\A v \in Workers \ {w} : workerAt'[v] = workerAt[v] /\ workerTask'[v] = workerTask[v])
    BY DEF DequeueOk, DequeueError, TakePacket, Goto
  <2>2. \A j \in Tasks \ {k} : ~Handling(w, j) /\ ~Handling(w, j)'
    BY <2>1 DEF DequeueOk, DequeueError, Goto, Handling, HandlingSteps
  <2> QED
    BY <1>1, <2>1, <2>2 DEF Untouched, Handling
<1>4. ClientView(k) = "finished"
  BY DEF ClientView
<1>5. ClientView(k)' = "finished"
  BY <1>1, <1>2 DEF ClientView
<1>6. SameView(k)
  BY <1>1, <1>4, <1>5 DEF SameView
<1> QED
  BY <1>3, <1>6, OneTask

\* The callback of a task starts; its references keep the task.
LEMMA DispatchSeen ==
  ASSUME IInv, NEW S \in SUBSET Tasks, \A k \in S : Trusted(k), NEW w \in Workers, Dispatch(w)
  PROVE  SeenBy(S)
<1> USE DEF IInv, TypeOK, TaskTypeOK, SocketTypeOK, ServiceTypeOK
<1> PICK k \in Tasks : k = workerTask[w]
  BY DEF Dispatch, HandlingSteps
<1>1. /\ UNCHANGED <<outRef, io, workerTask>>
      /\ workerAt[w] = "held" /\ workerAt'[w] = "callback"
      /\ \A v \in Workers \ {w} : workerAt'[v] = workerAt[v]
      /\ ovlRef' = ovlRef \ {k} /\ k \in currentTasks
      /\ \A j \in Tasks \ {k} : released'[j] = released[j]
  BY DEF Dispatch, Goto, DecRef, Destroy
<1>2. \A j \in Tasks \ {k} : Untouched(j)
  BY <1>1 DEF Untouched, Handling, HandlingSteps
<1>3. /\ TaskInv(k) /\ Handling(w, k) /\ Handled(k) /\ IsHeld(k) /\ Handled(k)'
  BY <1>1 DEF Handling, HandlingSteps, Handled, IsHeld, Holding
<1>4. io[k] = "taken" /\ k \in ovlRef
  BY <1>1, <1>3 DEF TaskInv, OwnersOf
<1>5. ClientView(k) = "finished"
  BY <1>4 DEF ClientView
<1>6. ClientView(k)' = "inCallback"
  BY <1>1, <1>3, <1>4 DEF ClientView
<1>7. ASSUME k \in S
      PROVE  Promised(k)
  <2>1. refs[k] = Owners(k)
    BY <1>1, <1>3, <1>4, <1>7 DEF Trusted, InUse, TaskInv, RefCount, Live
  <2>2. refs[k] # 2
    BY <1>1, <1>3, <1>4, <2>1 DEF Owners, B
  <2>3. released' = released
    BY <2>2 DEF Dispatch, DecRef
  <2> QED
    BY <1>1, <1>5, <1>6, <2>3 DEF Promised, CallsBack, SameHold, Stays
<1> QED
  BY <1>2, <1>7, OneTask

\* The worker gives up rawTask: the callback of the task is over, unless its
\* packet was thrown away; the task goes only when the client has let go.
LEMMA ReleaseSeen ==
  ASSUME IInv, NEW S \in SUBSET Tasks, \A k \in S : Trusted(k), NEW w \in Workers, ReleaseTask(w)
  PROVE  SeenBy(S)
<1> USE DEF IInv, TypeOK, TaskTypeOK, SocketTypeOK, ServiceTypeOK
<1> PICK k \in Tasks : k = workerTask[w]
  BY DEF ReleaseTask, HandlingSteps
<1>1. /\ UNCHANGED <<ovlRef, outRef, io>>
      /\ workerAt[w] \in {"done", "threw"} /\ workerAt'[w] \notin HandlingSteps
      /\ \A v \in Workers \ {w} : workerAt'[v] = workerAt[v] /\ workerTask'[v] = workerTask[v]
      /\ \A j \in Tasks \ {k} : released'[j] = released[j]
  BY DEF ReleaseTask, Goto, DecRef, Destroy, socketVars, HandlingSteps
<1>2. \A j \in Tasks \ {k} : Untouched(j)
  BY <1>1 DEF Untouched, Handling
<1>3. /\ TaskInv(k) /\ Handling(w, k) /\ Handled(k) /\ IsHeld(k)
  BY <1>1 DEF Handling, HandlingSteps, Handled, IsHeld, Holding
<1>4. io[k] = "taken" /\ ~Handled(k)'
  <2>1. \A v \in Workers : Handling(v, k) => v = w
    BY <1>3 DEF TaskInv, OneParty
  <2> QED
    BY <1>1, <1>3, <2>1 DEF TaskInv, OwnersOf, Handled, Handling
<1>5. ASSUME k \in S
      PROVE  Promised(k) \/ SameView(k)
  <2>1. released[k] = 0 /\ refs[k] = Owners(k)
    BY <1>3, <1>4, <1>5 DEF Trusted, InUse, TaskInv, RefCount, Live
  <2>2. refs[k] = 1 => k \notin ovlRef \cup outRef
    BY <1>3, <2>1 DEF Owners, B
  <2>3. /\ refs[k] = 1 => Goes(k)
        /\ refs[k] # 1 => Stays(k)
    BY <2>1 DEF ReleaseTask, DecRef, Destroy, Passes, Stays, Goes
  <2>4. CASE k \in ovlRef
    <3>1. ClientView(k) = "finished"
      BY <1>4, <2>4 DEF ClientView
    <3>2. ClientView(k)' = "finished"
      BY <1>1, <1>4, <2>4 DEF ClientView
    <3> QED
      BY <1>1, <2>2, <2>3, <2>4, <3>1, <3>2 DEF SameView, Stays
  <2>5. CASE k \notin ovlRef
    <3>1. ClientView(k) = "inCallback"
      BY <1>3, <1>4, <2>5 DEF ClientView
    <3>2. ClientView(k)' = "over"
      BY <1>1, <1>4, <2>5 DEF ClientView
    <3> QED
      BY <1>1, <2>2, <2>3, <3>1, <3>2 DEF Promised, Returns, SameHold
  <2> QED
    BY <2>4, <2>5
<1> QED
  BY <1>2, <1>5, OneTask

\* The other steps change nothing that a client sees.
LEMMA OthersUnseen ==
  ASSUME IInv, NEW S \in SUBSET Tasks,
         \/ \E w \in Workers : \/ DequeuePill(w) \/ HoldTask(w) \/ Discard(w) \/ CallbackReturns(w)
                               \/ CallbackThrows(w) \/ StopChecks(w) \/ StopWakes(w)
         \/ RunEnters \/ RunStep \/ RunWakesSpuriously \/ Destroys \/ UNCHANGED vars
  PROVE  SeenBy(S)
<1>1. UNCHANGED <<released, ovlRef, outRef, io, workerTask>>
  BY DEF DequeuePill, TakePacket, HoldTask, Discard, CallbackReturns, CallbackThrows, StopChecks, StopWakes,
         RunEnters, RunStep, RunResumes, RunSleeps, RunPostsPill, RunStartsJoin, RunReturns,
         RunWakesSpuriously, Destroys, vars, taskVars, socketVars, serviceVars, workerVars
<1>2. \A v \in Workers : workerAt'[v] \in HandlingSteps <=> workerAt[v] \in HandlingSteps
  BY DEF DequeuePill, TakePacket, HoldTask, Discard, CallbackReturns, CallbackThrows, StopChecks, StopWakes,
         RunEnters, RunStep, RunResumes, RunSleeps, RunPostsPill, RunStartsJoin, RunReturns,
         RunWakesSpuriously, Destroys, vars, serviceVars, workerVars, Goto, InCallback, HandlingSteps,
         IInv, TypeOK, ServiceTypeOK
<1>3. \A k \in Tasks : Untouched(k)
  BY <1>1, <1>2 DEF Untouched, Handling
<1> QED
  BY <1>3, NoTaskSeen

LEMMA StepSeen ==
  ASSUME IInv, NEW S \in SUBSET Tasks, \A k \in S : Trusted(k), [Next]_vars
  PROVE  SeenBy(S)
<1>1. ASSUME NEW w \in Workers, WorkerStep(w)
      PROVE  SeenBy(S)
  BY <1>1, TakeSeen, DispatchSeen, ReleaseSeen, OthersUnseen DEF WorkerStep
<1> QED
  BY <1>1, IssueSeen, CallSeen, DropSeen, KernelSeen, OthersUnseen DEF Next

LEMMA FirstView ==
  ASSUME Init, NEW S \in SUBSET Tasks
  PROVE  View(S) = [k \in S |-> "idle"] /\ Held(S) = {} /\ Gone(S) = {}
<1>1. \A k \in S : io[k] = "unused" /\ released[k] = 0
  BY DEF Init, TaskInit, SocketInit
<1>2. \A k \in S : ClientView(k) = "idle"
  BY <1>1 DEF ClientView
<1> QED
  BY <1>1, <1>2 DEF View, Held, Gone, Init, TaskInit

-----------------------------------------------------------------------------
\* A client of readAsync may rely on AsyncOperation: the callback runs at most
\* once, after the operation finished, and the task object outlives the
\* callback and the client's own reference, and goes away once.
THEOREM ReadsKeepThePromise == Spec => KeepsPromise
<1>1. Init => Abstract!Init
  <2>1. ReadTasks \in SUBSET Tasks
    BY DEF Tasks
  <2> QED
    BY <2>1, FirstView DEF Abstract!Init
<1>2. IInv /\ [Next]_vars => [Abstract!Next]_(Abstract!vars)
  <2> SUFFICES ASSUME IInv, [Next]_vars PROVE SeenBy(ReadTasks)
    BY ReadsSee
  <2>1. ReadTasks \in SUBSET Tasks
    BY DEF Tasks
  <2>2. \A k \in ReadTasks : Trusted(k)
    BY ReadsAreSafe DEF ReadTasksSafe, Trusted
  <2> QED
    BY <2>1, <2>2, StepSeen
<1> QED
  BY <1>1, <1>2, Invariance, PTL DEF Spec, KeepsPromise, Abstract!Spec

\* With one worker thread, and no call that fails, the clients of writeAsync
\* and acceptAsync may rely on it too.
THEOREM AllKeepThePromise ==
  ASSUME OneThread
  PROVE  Spec => EveryKeepsPromise
<1>1. Init => Every!Init
  BY FirstView DEF Every!Init
<1>2. IInv /\ OneThreadInv /\ [Next]_vars => [Every!Next]_(Every!vars)
  <2> SUFFICES ASSUME IInv, OneThreadInv, [Next]_vars PROVE SeenBy(Tasks)
    BY AllSee
  <2>1. \A k \in Tasks : Trusted(k)
    BY DEF OneThreadInv, SafeTask, OneThread, Trusted
  <2> QED
    BY <2>1, StepSeen
<1> QED
  BY <1>1, <1>2, Invariance, OneThreadInvariance, PTL DEF Spec, EveryKeepsPromise, Every!Spec
=============================================================================
