-------------------------- MODULE Win32Run_proofs --------------------------
(* run() with any number of worker threads: why it sleeps on, and that its *)
(* packets suffice to end every thread; what the kernel may write to while *)
(* memory does not run out; and that a service with one worker thread runs *)
(* without undefined behaviour, for the writes and accepts, too, that two  *)
(* threads break.                                                          *)
EXTENDS Win32Ownership_proofs, FiniteSetTheorems

-----------------------------------------------------------------------------
(* Counting threads and packets.                                           *)

LEMMA WorkersCounted ==
  /\ IsFiniteSet(Workers)
  /\ Cardinality(Workers) = nWorkerThreads
<1>1. 0 \in Int /\ nWorkerThreads - 1 \in Int /\ nWorkerThreads \in Nat
  BY SocketAssumption
<1>2. /\ IsFiniteSet(0 .. (nWorkerThreads - 1))
      /\ Cardinality(0 .. (nWorkerThreads - 1)) =
           IF 0 > nWorkerThreads - 1 THEN 0 ELSE (nWorkerThreads - 1) - 0 + 1
  BY <1>1, FS_Interval
<1> QED
  BY <1>1, <1>2 DEF Workers

LEMMA LiveCounted ==
  /\ IsFiniteSet(LiveWorkers)
  /\ Cardinality(LiveWorkers) \in Nat
  /\ Cardinality(LiveWorkers) <= nWorkerThreads
<1>1. LiveWorkers \in SUBSET Workers
  BY DEF LiveWorkers
<1>2. IsFiniteSet(LiveWorkers) /\ Cardinality(LiveWorkers) <= Cardinality(Workers)
  BY <1>1, WorkersCounted, FS_Subset
<1> QED
  BY <1>2, WorkersCounted, FS_CardinalityType

LEMMA PillsCounted ==
  ASSUME TypeOK
  PROVE  IsFiniteSet(Pills) /\ Cardinality(Pills) \in Nat
<1>1. /\ Len(queue) \in Nat
      /\ Pills \in SUBSET (1 .. Len(queue))
  BY DEF Pills, TypeOK, SocketTypeOK
<1>2. IsFiniteSet(1 .. Len(queue))
  BY <1>1, FS_Interval
<1> QED
  BY <1>1, <1>2, FS_Subset, FS_CardinalityType

\* Another packet in the port: it takes no packet of run() away.
LEMMA PillsGrow ==
  ASSUME TypeOK, NEW packet, queue' = Append(queue, packet)
  PROVE  /\ packet.what = "pill" => Cardinality(Pills') = Cardinality(Pills) + 1
         /\ packet.what # "pill" => Cardinality(Pills') = Cardinality(Pills)
<1>1. /\ DOMAIN queue' = 1 .. Len(queue) + 1
      /\ DOMAIN queue = 1 .. Len(queue)
      /\ Len(queue) \in Nat
      /\ \A i \in DOMAIN queue : queue'[i] = queue[i]
      /\ queue'[Len(queue) + 1] = packet
  BY DEF TypeOK, SocketTypeOK
<1>2. packet.what = "pill" => Pills' = Pills \cup {Len(queue) + 1}
  BY <1>1 DEF Pills
<1>3. packet.what # "pill" => Pills' = Pills
  BY <1>1 DEF Pills
<1>4. Len(queue) + 1 \notin Pills
  BY <1>1 DEF Pills
<1> QED
  BY <1>2, <1>3, <1>4, PillsCounted, FS_AddElement

\* A packet is taken from the port: one pill less, if it is one.
LEMMA PillsShrink ==
  ASSUME TypeOK, queue # <<>>, queue' = Tail(queue)
  PROVE  /\ Head(queue).what = "pill" => Cardinality(Pills) <= Cardinality(Pills') + 1
         /\ Head(queue).what # "pill" => Cardinality(Pills) <= Cardinality(Pills')
<1>1. /\ DOMAIN queue = 1 .. Len(queue) /\ Len(queue) \in Nat
      /\ Head(queue) = queue[1]
      /\ DOMAIN queue' = 1 .. Len(queue) - 1
      /\ \A i \in DOMAIN queue' : queue'[i] = queue[i + 1]
  BY DEF TypeOK, SocketTypeOK
<1> DEFINE left == Pills \ {1}
           f == [i \in left |-> i - 1]
<1>2. \A i \in left : i \in Nat /\ i - 1 \in Pills'
  BY <1>1 DEF Pills
<1>3. f \in Injection(left, Pills')
  <2>1. f \in [left -> Pills']
    BY <1>2
  <2>2. \A i, j \in left : f[i] = f[j] => i = j
    BY <1>2
  <2> QED
    BY <2>1, <2>2 DEF Injection, IsInjective
<1>4. IsFiniteSet(Pills') /\ Cardinality(Pills') \in Nat
  <2>1. Pills' \in SUBSET (1 .. Len(queue) - 1) /\ Len(queue) - 1 \in Int
    BY <1>1 DEF Pills
  <2>2. IsFiniteSet(1 .. Len(queue) - 1)
    BY <2>1, FS_Interval
  <2> QED
    BY <2>1, <2>2, FS_Subset, FS_CardinalityType
<1>5. Cardinality(left) <= Cardinality(Pills')
  BY <1>3, <1>4, FS_Injection
<1>6. Cardinality(left) = IF 1 \in Pills THEN Cardinality(Pills) - 1 ELSE Cardinality(Pills)
  BY PillsCounted, FS_RemoveElement
<1>7. 1 \in Pills => Head(queue).what = "pill"
  BY <1>1 DEF Pills
<1> QED
  BY <1>4, <1>5, <1>6, <1>7, PillsCounted

-----------------------------------------------------------------------------
(* Where run(), its workers and the calls are.                             *)

\* Outside of run() no worker does anything: none has started, or all ended.
Resting ==
  runAt \in {"out", "destroyed"} => \A w \in Workers : workerAt[w] \in {"suspended", "exited"}

\* AsleepReason from the moment run() sets _isRunning.
Sleeping ==
  runAt \in {"resume", "asleep"} /\ ~earlyWake =>
    isRunning /\ \A w \in Workers : workerAt[w] # "threw"

\* A worker calls from its callback, the main thread outside of run().
Calling ==
  /\ \A w \in Workers : callAt[w] # "none" => workerAt[w] = "callback"
  /\ callAt[Main] # "none" => runAt = "out"

\* JoinCovered while run() posts its packets: those that it still will post
\* count, too.
Covered ==
  /\ runAt = "pills" =>
       Cardinality(LiveWorkers) <= Cardinality(Pills) + (nWorkerThreads - runIdx)
  /\ runAt = "join" => Cardinality(LiveWorkers) <= Cardinality(Pills)

RunInv == TypeOK /\ Resting /\ Sleeping /\ Calling /\ Covered

LEMMA RunInit == Init => RunInv
<1> SUFFICES ASSUME Init PROVE RunInv
  OBVIOUS
<1>1. TypeOK
  BY TypeInit
<1>2. runAt = "out" /\ \A w \in Workers : workerAt[w] = "suspended"
  BY DEF Init
<1>3. \A t \in Threads : callAt[t] = "none"
  BY DEF Init, SocketInit
<1> QED
  BY <1>1, <1>2, <1>3, WorkersAreThreads, ThreadTypes
  DEF RunInv, Resting, Sleeping, Calling, Covered

\* A step that concerns neither run() nor the threads, and takes no packet of
\* run() from the port.
LEMMA RunFrame ==
  ASSUME RunInv, UNCHANGED serviceVars, TypeOK', Calling',
         Cardinality(Pills') = Cardinality(Pills)
  PROVE  RunInv'
<1>1. UNCHANGED <<workerAt, runAt, runIdx, isRunning, earlyWake>>
  BY DEF serviceVars, workerVars, runVars
<1>2. Resting' /\ Sleeping'
  BY <1>1 DEF RunInv, Resting, Sleeping
<1>3. LiveWorkers' = LiveWorkers
  BY <1>1 DEF LiveWorkers
<1>4. Covered'
  BY <1>1, <1>3 DEF RunInv, Covered
<1> QED
  BY <1>2, <1>4 DEF RunInv

\* A worker that runs takes a step and wakes nobody.
LEMMA WorkerFrame ==
  ASSUME RunInv, TypeOK', NEW w \in Workers,
         workerAt[w] \notin {"suspended", "exited"},
         workerAt'[w] = "threw" => workerAt[w] = "threw",
         \A v \in Workers \ {w} : workerAt'[v] = workerAt[v],
         UNCHANGED <<isRunning, runVars>>,
         Calling',
         \/ Cardinality(Pills') >= Cardinality(Pills)
         \/ Cardinality(Pills') >= Cardinality(Pills) - 1 /\ workerAt'[w] = "exited",
         Cardinality(Pills') \in Nat
  PROVE  RunInv'
<1>1. UNCHANGED <<isRunning, runAt, runIdx, earlyWake>>
  BY DEF runVars
<1>2. runAt \notin {"out", "destroyed"}
  BY DEF RunInv, Resting
<1>3. Resting' /\ Sleeping'
  BY <1>1, <1>2 DEF RunInv, Resting, Sleeping
<1>4. w \in LiveWorkers
  BY DEF LiveWorkers
<1>5. CASE workerAt'[w] # "exited"
  <2>1. LiveWorkers' = LiveWorkers
    BY <1>4, <1>5 DEF LiveWorkers
  <2> QED
    BY <1>1, <1>3, <1>5, <2>1, LiveCounted, PillsCounted, SocketAssumption
    DEF RunInv, Covered, TypeOK, ServiceTypeOK
<1>6. CASE workerAt'[w] = "exited"
  <2>1. LiveWorkers' = LiveWorkers \ {w}
    BY <1>6 DEF LiveWorkers
  <2>2. Cardinality(LiveWorkers') = Cardinality(LiveWorkers) - 1
    BY <1>4, <2>1, LiveCounted, FS_RemoveElement
  <2> QED
    BY <1>1, <1>3, <2>2, LiveCounted, PillsCounted, SocketAssumption
    DEF RunInv, Covered, TypeOK, ServiceTypeOK
<1> QED
  BY <1>5, <1>6

\* A wake leaves run() awake, unless it came too early to be felt.
LEMMA WakeFrame ==
  ASSUME RunInv, TypeOK', WakeRun, Resting', Calling',
         Cardinality(LiveWorkers') = Cardinality(LiveWorkers),
         Cardinality(Pills') = Cardinality(Pills)
  PROVE  RunInv'
<1>1. Sleeping'
  BY DEF WakeRun, Sleeping
<1>2. Covered'
  <2>1. CASE runAt = "asleep"
    BY <2>1, LiveCounted, PillsCounted, SocketAssumption DEF WakeRun, Covered, RunInv
  <2>2. CASE runAt # "asleep"
    BY <2>2 DEF WakeRun, Covered, RunInv
  <2> QED
    BY <2>1, <2>2
<1> QED
  BY <1>1, <1>2 DEF RunInv

\* A call of thread t, which may call, or is in a call.
LEMMA CallFrame ==
  ASSUME RunInv, NEW t \in Threads, TypeOK', UNCHANGED <<queue, serviceVars>>,
         MayCall(t) \/ callAt[t] # "none",
         \A u \in Threads \ {t} : callAt'[u] = callAt[u]
  PROVE  RunInv'
<1>1. UNCHANGED <<workerAt, runAt>>
  BY DEF serviceVars, workerVars, runVars
<1>2. \A w \in Workers : w \in Threads /\ w # Main
  BY WorkersAreThreads, SocketAssumption
<1>3. Calling'
  <2>1. t = Main => runAt = "out"
    BY <1>2 DEF RunInv, Calling, MayCall
  <2>2. t # Main => workerAt[t] = "callback"
    BY <1>2 DEF RunInv, Calling, MayCall, Threads
  <2> QED
    BY <1>1, <1>2, <2>1, <2>2, ThreadTypes DEF RunInv, Calling
<1>4. Pills' = Pills
  BY DEF Pills
<1> QED
  BY <1>3, <1>4, RunFrame

\* Steps of a worker that leave the port and run() alone.
LEMMA WorkerMoves ==
  ASSUME RunInv, TypeOK', NEW w \in Workers,
         \/ HoldTask(w) \/ Dispatch(w) \/ Discard(w) \/ CallbackReturns(w) \/ ReleaseTask(w)
  PROVE  RunInv'
<1>1. /\ workerAt[w] \in HandlingSteps
      /\ workerAt'[w] = "threw" => workerAt[w] = "threw"
      /\ \A v \in Workers \ {w} : workerAt'[v] = workerAt[v]
  BY DEF HoldTask, Dispatch, Discard, CallbackReturns, InCallback, ReleaseTask, Goto, RunInv, TypeOK,
         ServiceTypeOK, HandlingSteps
<1>2. UNCHANGED <<isRunning, runVars, queue, callAt>>
  BY DEF HoldTask, Dispatch, Discard, CallbackReturns, ReleaseTask, socketVars
<1>3. Calling'
  <2>1. callAt[w] = "none" \/ workerAt'[w] = "callback"
    BY DEF HoldTask, Dispatch, Discard, CallbackReturns, InCallback, ReleaseTask, RunInv, Calling
  <2> QED
    BY <1>1, <1>2, <2>1 DEF RunInv, Calling, runVars
<1>4. Pills' = Pills
  BY <1>2 DEF Pills
<1>5. workerAt[w] \notin {"suspended", "exited"}
  BY <1>1 DEF HandlingSteps
<1> QED
  BY <1>1, <1>2, <1>3, <1>4, <1>5, PillsCounted, WorkerFrame DEF RunInv

\* A worker takes a packet: if it is a pill, the worker ends.
LEMMA WorkerTakes ==
  ASSUME RunInv, TypeOK', NEW w \in Workers, DequeueOk(w) \/ DequeueError(w) \/ DequeuePill(w)
  PROVE  RunInv'
<1>1. /\ queue # <<>> /\ queue' = Tail(queue)
      /\ workerAt[w] = "waiting"
      /\ UNCHANGED <<isRunning, runVars, callAt>>
  BY DEF DequeueOk, DequeueError, DequeuePill, TakePacket
<1>2. /\ workerAt'[w] = "exited" \/ (workerAt'[w] = "taken" /\ Head(queue).what # "pill")
      /\ \A v \in Workers \ {w} : workerAt'[v] = workerAt[v]
  BY DEF DequeueOk, DequeueError, DequeuePill, Goto, RunInv, TypeOK, ServiceTypeOK
<1>3. /\ Cardinality(Pills) <= Cardinality(Pills') + 1
      /\ Head(queue).what # "pill" => Cardinality(Pills) <= Cardinality(Pills')
      /\ Cardinality(Pills) \in Nat /\ Cardinality(Pills') \in Nat
  <2>1. Cardinality(Pills') \in Nat
    <3>1. Len(queue') \in Nat /\ Pills' \in SUBSET (1 .. Len(queue'))
      BY DEF Pills, TypeOK, SocketTypeOK
    <3>2. IsFiniteSet(1 .. Len(queue'))
      BY <3>1, FS_Interval
    <3> QED
      BY <3>1, <3>2, FS_Subset, FS_CardinalityType
  <2> QED
    BY <1>1, <2>1, PillsCounted, PillsShrink DEF RunInv
<1>4. Calling'
  BY <1>1, <1>2 DEF RunInv, Calling, runVars
<1> QED
  BY <1>1, <1>2, <1>3, <1>4, WorkerFrame

\* A callback that throws, or calls stop(), wakes run().
LEMMA WorkerWakes ==
  ASSUME RunInv, TypeOK', NEW w \in Workers, CallbackThrows(w) \/ StopWakes(w)
  PROVE  RunInv'
<1>1. WakeRun /\ UNCHANGED queue
  BY DEF CallbackThrows, StopWakes, socketVars
<1>2. workerAt[w] = "callback"
  BY DEF CallbackThrows, InCallback, StopWakes, RunInv, Calling
<1>3. /\ workerAt'[w] \in {"callback", "threw"}
      /\ \A v \in Workers \ {w} : workerAt'[v] = workerAt[v]
  BY <1>2 DEF CallbackThrows, StopWakes, Goto, workerVars, RunInv, TypeOK, ServiceTypeOK
<1>4. runAt \notin {"out", "destroyed"} /\ runAt' \notin {"out", "destroyed"}
  BY <1>1, <1>2 DEF WakeRun, RunInv, Resting
<1>5. LiveWorkers' = LiveWorkers /\ Pills' = Pills
  BY <1>1, <1>2, <1>3 DEF LiveWorkers, Pills
<1>6. Calling'
  <2>1. callAt[Main] = "none" /\ callAt'[Main] = "none"
    BY <1>4, SocketAssumption, ThreadTypes
    DEF CallbackThrows, StopWakes, socketVars, RunInv, Calling, TypeOK, SocketTypeOK
  <2>2. CASE CallbackThrows(w)
    BY <1>3, <2>1, <2>2 DEF CallbackThrows, InCallback, socketVars, RunInv, Calling
  <2>3. CASE StopWakes(w)
    <3>1. callAt'[w] = "none" /\ UNCHANGED workerAt
      BY <2>3, WorkersAreThreads DEF StopWakes, workerVars, RunInv, TypeOK, SocketTypeOK
    <3>2. \A v \in Workers \ {w} : callAt'[v] = callAt[v]
      BY <2>3, WorkersAreThreads DEF StopWakes, RunInv, TypeOK, SocketTypeOK
    <3> QED
      BY <2>1, <3>1, <3>2 DEF RunInv, Calling
  <2> QED
    BY <2>2, <2>3
<1>7. Resting'
  BY <1>4 DEF Resting
<1> QED
  BY <1>1, <1>5, <1>6, <1>7, WakeFrame

\* run() and the end.
LEMMA MainMoves ==
  ASSUME RunInv, TypeOK',
         \/ RunEnters \/ RunResumes \/ RunSleeps \/ RunPostsPill \/ RunStartsJoin \/ RunReturns
         \/ RunWakesSpuriously \/ Destroys
  PROVE  RunInv'
<1>1. /\ UNCHANGED callAt
      /\ runAt' = "out" \/ callAt[Main] = "none"
  BY DEF RunEnters, RunResumes, RunSleeps, RunPostsPill, RunStartsJoin, RunReturns,
         RunWakesSpuriously, Destroys, socketVars, RunInv, Calling
<1>2. Calling'
  <2>1. \A w \in Workers : workerAt[w] = "callback" => workerAt'[w] = "callback"
    BY DEF RunEnters, RunResumes, RunSleeps, RunPostsPill, RunStartsJoin, RunReturns,
           RunWakesSpuriously, Destroys, workerVars, RunInv, TypeOK, ServiceTypeOK
  <2> QED
    BY <1>1, <2>1 DEF RunInv, Calling
<1>3. CASE RunEnters
  <2>1. UNCHANGED <<workerAt, queue>> /\ runAt = "out"
    BY <1>3 DEF RunEnters, workerVars
  <2>2. \/ runAt' = runAt /\ UNCHANGED <<isRunning, runIdx, earlyWake>>
        \/ runAt' = "resume" /\ isRunning' = TRUE
    BY <1>3 DEF RunEnters
  <2> QED
    BY <1>2, <2>1, <2>2 DEF RunInv, Resting, Sleeping, Covered
<1>4. CASE RunResumes
  <2>1. /\ runAt = "resume" /\ UNCHANGED <<queue, runAt, isRunning, earlyWake>>
        /\ \A w \in Workers : workerAt'[w] = "threw" => workerAt[w] = "threw"
    BY <1>4 DEF RunResumes, socketVars, RunInv, TypeOK, ServiceTypeOK
  <2> QED
    BY <1>2, <2>1 DEF RunInv, Resting, Sleeping, Covered
<1>5. CASE RunSleeps
  BY <1>2, <1>5 DEF RunSleeps, socketVars, workerVars, RunInv, Resting, Sleeping, Covered
<1>6. CASE RunPostsPill
  <2>1. /\ runAt = "pills" /\ runIdx' = runIdx + 1 /\ UNCHANGED <<workerAt, runAt>>
        /\ runIdx \in Nat /\ nWorkerThreads \in Nat
    BY <1>6, SocketAssumption DEF RunPostsPill, workerVars, RunInv, TypeOK, ServiceTypeOK
  <2>2. Cardinality(Pills') = Cardinality(Pills) + 1
    <3>1. queue' = Append(queue, Packet("pill", NoTask)) /\ Packet("pill", NoTask).what = "pill"
      BY <1>6 DEF RunPostsPill, Packet
    <3> QED
      BY <3>1, PillsGrow DEF RunInv
  <2>3. LiveWorkers' = LiveWorkers
    BY <2>1 DEF LiveWorkers
  <2>4. Covered'
    BY <2>1, <2>2, <2>3, LiveCounted, PillsCounted DEF RunInv, Covered
  <2> QED
    BY <1>2, <2>1, <2>4 DEF RunInv, Resting, Sleeping
<1>7. CASE RunStartsJoin
  <2>1. /\ runAt = "pills" /\ runAt' = "join" /\ runIdx = nWorkerThreads
        /\ UNCHANGED <<workerAt, queue>> /\ nWorkerThreads \in Nat
    BY <1>7, SocketAssumption DEF RunStartsJoin, socketVars, workerVars
  <2>2. LiveWorkers' = LiveWorkers /\ Pills' = Pills
    BY <2>1 DEF LiveWorkers, Pills
  <2>3. Covered'
    BY <2>1, <2>2, LiveCounted, PillsCounted DEF RunInv, Covered
  <2> QED
    BY <1>2, <2>1, <2>3 DEF RunInv, Resting, Sleeping
<1>8. CASE RunReturns
  BY <1>2, <1>8 DEF RunReturns, workerVars, RunInv, Resting, Sleeping, Covered
<1>9. CASE RunWakesSpuriously
  <2>1. WakeRun /\ runAt = "asleep" /\ UNCHANGED <<workerAt, queue>>
    BY <1>9 DEF RunWakesSpuriously, socketVars, workerVars
  <2>2. Resting' /\ LiveWorkers' = LiveWorkers /\ Pills' = Pills
    BY <2>1 DEF WakeRun, Resting, LiveWorkers, Pills
  <2> QED
    BY <1>2, <2>1, <2>2, WakeFrame
<1>10. CASE Destroys
  <2>1. /\ runAt = "out" /\ runAt' \in {"out", "destroyed"}
        /\ UNCHANGED workerAt
    BY <1>10 DEF Destroys, workerVars
  <2> QED
    BY <1>2, <2>1 DEF RunInv, Resting, Sleeping, Covered
<1> QED
  BY <1>3, <1>4, <1>5, <1>6, <1>7, <1>8, <1>9, <1>10

LEMMA RunInvStep == RunInv /\ [Next]_vars => RunInv'
<1> SUFFICES ASSUME RunInv, [Next]_vars PROVE RunInv'
  OBVIOUS
<1>1. TypeOK /\ TypeOK'
  BY TypeStep DEF RunInv
<1>2. ASSUME NEW t \in Threads, IssueStep(t)
      PROVE  RunInv'
  <2>1. MayCall(t) /\ UNCHANGED <<queue, serviceVars>>
    BY <1>2 DEF IssueStep, Issue, IssueWithoutOverlapped, IssueRejected, IssueUnmapped
  <2>2. \A u \in Threads \ {t} : callAt'[u] = callAt[u]
    BY <1>1, <1>2 DEF IssueStep, Issue, EnterCall, IssueWithoutOverlapped, IssueRejected,
                      IssueUnmapped, TypeOK, SocketTypeOK
  <2> QED
    BY <1>1, <2>1, <2>2, CallFrame
<1>3. ASSUME NEW t \in Threads, CallStep(t)
      PROVE  RunInv'
  <2>1. callAt[t] # "none" /\ UNCHANGED <<queue, serviceVars>>
    BY <1>3 DEF CallStep, Post, PostFails, HandOver
  <2>2. \A u \in Threads \ {t} : callAt'[u] = callAt[u]
    BY <1>1, <1>3 DEF CallStep, Post, PostFails, HandOver, LeaveCall, TypeOK, SocketTypeOK
  <2> QED
    BY <1>1, <2>1, <2>2, CallFrame
<1>4. ASSUME NEW k \in Tasks, CallerDrops(k) \/ KernelCompletes(k)
      PROVE  RunInv'
  <2>1. UNCHANGED <<callAt, serviceVars>>
    BY <1>4 DEF CallerDrops, DropOut, KernelCompletes, Complete, socketVars
  <2>2. Calling'
    BY <2>1 DEF serviceVars, workerVars, runVars, RunInv, Calling
  <2>3. CASE CallerDrops(k)
    <3>1. Pills' = Pills
      BY <2>3 DEF CallerDrops, DropOut, socketVars, Pills
    <3> QED
      BY <1>1, <2>1, <2>2, <3>1, RunFrame
  <2>4. CASE KernelCompletes(k)
    <3>1. PICK what \in {"ok", "error"} : queue' = Append(queue, Packet(what, k))
      BY <2>4 DEF KernelCompletes, Complete
    <3>2. Packet(what, k).what # "pill"
      BY DEF Packet
    <3>3. Cardinality(Pills') = Cardinality(Pills)
      BY <1>1, <3>1, <3>2, PillsGrow
    <3> QED
      BY <1>1, <2>1, <2>2, <3>3, RunFrame
  <2> QED
    BY <1>4, <2>3, <2>4
<1>5. ASSUME NEW w \in Workers, StopChecks(w)
      PROVE  RunInv'
  <2>1. UNCHANGED <<queue, serviceVars>> /\ MayCall(w)
    BY <1>5 DEF StopChecks, InCallback, MayCall
  <2>2. \A u \in Threads \ {w} : callAt'[u] = callAt[u]
    BY <1>1, <1>5 DEF StopChecks, TypeOK, SocketTypeOK
  <2> QED
    BY <1>1, <2>1, <2>2, CallFrame, WorkersAreThreads
<1>6. CASE UNCHANGED vars
  <2>1. UNCHANGED <<callAt, queue, serviceVars>>
    BY <1>6 DEF vars, socketVars
  <2>2. Calling' /\ Pills' = Pills
    BY <2>1 DEF serviceVars, workerVars, runVars, RunInv, Calling, Pills
  <2> QED
    BY <1>1, <2>1, <2>2, RunFrame
<1> QED
  BY <1>1, <1>2, <1>3, <1>4, <1>5, <1>6, WorkerMoves, WorkerTakes, WorkerWakes, MainMoves
  DEF Next, WorkerStep, RunStep

\* Where run() and its threads are, and how many packets end them.
THEOREM RunInvariance == Spec => []RunInv
BY RunInit, RunInvStep, PTL DEF Spec

\* run() sleeps on after stop() or a failed callback only when it was woken
\* before it slept, for any number of threads and of calls of run().
THEOREM AsleepReasonCorrect == Spec => []AsleepReason
<1>1. RunInv => AsleepReason
  BY DEF RunInv, Sleeping, AsleepReason
<1> QED
  BY <1>1, RunInvariance, PTL

\* When run() waits for its threads, the packets in the port suffice for those
\* that are alive, whichever way the others ended.
THEOREM JoinCorrect == Spec => []JoinCovered
<1>1. RunInv => JoinCovered
  BY DEF RunInv, Covered, JoinCovered
<1> QED
  BY <1>1, RunInvariance, PTL

\* The threads that run() has resumed are not suspended: in the end all.
Resumed ==
  /\ runAt = "resume" => \A w \in Workers : w < runIdx => workerAt[w] # "suspended"
  /\ runAt \in {"asleep", "pills", "join"} => \A w \in Workers : workerAt[w] # "suspended"

LEMMA ResumedFrame ==
  ASSUME Resumed, \A w \in Workers : workerAt'[w] = "suspended" => workerAt[w] = "suspended",
         \/ UNCHANGED <<runAt, runIdx>>
         \/ runAt' \notin {"resume", "asleep", "pills", "join"}
         \/ runAt \in {"asleep", "pills", "join"} /\ runAt' # "resume"
  PROVE  Resumed'
BY DEF Resumed

LEMMA ResumedStep ==
  ASSUME TypeOK, Resumed, [Next]_vars
  PROVE  Resumed'
<1> USE DEF TypeOK, ServiceTypeOK
<1>1. CASE UNCHANGED serviceVars
  BY <1>1, ResumedFrame DEF serviceVars, workerVars, runVars
<1>2. ASSUME NEW w \in Workers, WorkerStep(w)
      PROVE  Resumed'
  <2>1. \A v \in Workers : workerAt'[v] = "suspended" => workerAt[v] = "suspended"
    BY <1>2 DEF WorkerStep, DequeueOk, DequeueError, DequeuePill, HoldTask, Dispatch, Discard,
         CallbackReturns, CallbackThrows, ReleaseTask, StopChecks, StopWakes, Goto, serviceVars, workerVars
  <2>2. UNCHANGED <<runAt, runIdx>> \/ (runAt = "asleep" /\ runAt' = "pills")
    BY <1>2 DEF WorkerStep, DequeueOk, DequeueError, DequeuePill, HoldTask, Dispatch, Discard,
         CallbackReturns, CallbackThrows, ReleaseTask, StopChecks, StopWakes, WakeRun, serviceVars, runVars
  <2> QED
    BY <2>1, <2>2, ResumedFrame
<1>3. CASE RunEnters
  <2>1. workerAt' = workerAt /\ runAt = "out"
    BY <1>3 DEF RunEnters, workerVars
  <2>2. runAt' = runAt \/ (runAt' = "resume" /\ runIdx' = 0)
    BY <1>3 DEF RunEnters
  <2>3. \A w \in Workers : ~ (w < 0)
    BY DEF Workers
  <2> QED
    BY <2>1, <2>2, <2>3 DEF Resumed
<1>4. CASE RunResumes
  <2>1. runAt' = "resume" /\ runIdx' = runIdx + 1 /\ runIdx \in Workers
    BY <1>4, SocketAssumption DEF RunResumes, Workers
  <2>2. \A w \in Workers : workerAt'[w] = IF w = runIdx /\ workerAt[w] = "suspended"
                                         THEN "waiting" ELSE workerAt[w]
    BY <1>4 DEF RunResumes
  <2>3. \A w \in Workers : w < runIdx + 1 => w = runIdx \/ w < runIdx
    BY SocketAssumption DEF Workers
  <2> QED
    BY <1>4, <2>1, <2>2, <2>3 DEF Resumed, RunResumes
<1>5. CASE RunSleeps
  <2>1. \A w \in Workers : w < runIdx
    BY <1>5, SocketAssumption DEF RunSleeps, Workers
  <2> QED
    BY <1>5, <2>1 DEF RunSleeps, Resumed, workerVars
<1>6. CASE RunPostsPill \/ RunStartsJoin \/ RunReturns \/ RunWakesSpuriously \/ Destroys
  BY <1>6, ResumedFrame DEF RunPostsPill, RunStartsJoin, RunReturns, RunWakesSpuriously, Destroys, WakeRun,
       workerVars
<1> QED
  BY <1>1, <1>2, <1>3, <1>4, <1>5, <1>6
  DEF Next, RunStep, IssueStep, CallStep, CallerDrops, KernelCompletes, vars

\* The join does not deadlock, for any number of threads, runs and failures: a
\* thread that still waits for a packet has one.
THEOREM JoinIsNeverStuck == Spec => []JoinNeverStuck
<1>1. Init => Resumed
  BY DEF Init, Resumed
<1>2. RunInv /\ Resumed /\ [Next]_vars => Resumed'
  BY ResumedStep DEF RunInv
<1>3. RunInv /\ Resumed => JoinNeverStuck
  <2> SUFFICES ASSUME RunInv, Resumed, runAt = "join", NEW w \in LiveWorkers
               PROVE  workerAt[w] # "suspended" /\ queue # <<>>
    BY DEF JoinNeverStuck
  <2>1. Cardinality(LiveWorkers) # 0
    BY LiveCounted, FS_EmptySet
  <2>2. Cardinality(Pills) # 0
    BY <2>1, LiveCounted, PillsCounted DEF RunInv, Covered
  <2>3. Pills # {}
    BY <2>2, FS_EmptySet
  <2>4. queue # <<>>
    BY <2>3 DEF Pills
  <2> QED
    BY <2>4 DEF Resumed, LiveWorkers
<1> QED
  BY <1>1, <1>2, <1>3, RunInvariance, PTL DEF Spec
-----------------------------------------------------------------------------
(* What the kernel may write to, while memory does not run out.             *)

\* A task that a worker has is no longer the kernel's.
LEMMA HandledIsTaken ==
  ASSUME IInv, NEW w \in Workers, workerAt[w] \in HandlingSteps
  PROVE  workerTask[w] \in Tasks /\ io[workerTask[w]] = "taken"
<1>1. workerTask[w] \in Tasks
  BY DEF IInv, TypeOK, ServiceTypeOK
<1>2. TaskInv(workerTask[w])
  BY <1>1 DEF IInv
<1>3. Handled(workerTask[w])
  BY DEF Handled, Handling
<1> QED
  BY <1>1, <1>2, <1>3 DEF TaskInv, OwnersOf

\* Steps that release no task and start no operation.
LEMMA KernelFrame ==
  ASSUME KernelNeverWritesFreed, UNCHANGED released,
         \A k \in Tasks : io'[k] \in {"pending", "queued"} => io[k] \in {"pending", "queued"}
  PROVE  KernelNeverWritesFreed'
  BY DEF KernelNeverWritesFreed, Live

\* The caller's reference is never the last one of an operation in flight:
\* the overlapped block has one, too.
LEMMA DropSparesKernel ==
  ASSUME IInv, KernelNeverWritesFreed, NEW k \in Tasks, DropOut(k)
  PROVE  KernelNeverWritesFreed'
<1>1. UNCHANGED io /\ k \in outRef /\ (\A j \in Tasks \ {k} : released'[j] = released[j])
  BY DEF DropOut, socketVars, DecRef, Destroy, IInv, TypeOK, TaskTypeOK
<1>2. ASSUME io[k] \in {"pending", "queued"}
      PROVE  released'[k] = released[k]
  <2>1. TaskInv(k) /\ Live(k)
    BY <1>2 DEF IInv, KernelNeverWritesFreed
  <2>2. k \in ovlRef /\ refs[k] = Owners(k)
    BY <1>2, <2>1 DEF TaskInv, OwnersOf, RefCount
  <2>3. refs[k] # 1
    BY <1>1, <2>2 DEF Owners, B
  <2> QED
    BY <2>3 DEF DropOut, DecRef
<1> QED
  BY <1>1, <1>2 DEF KernelNeverWritesFreed, Live

\* A worker releases only what it has.
LEMMA WorkerSparesKernel ==
  ASSUME IInv, KernelNeverWritesFreed, NEW w \in Workers, Dispatch(w) \/ ReleaseTask(w)
  PROVE  KernelNeverWritesFreed'
<1>1. workerAt[w] \in HandlingSteps
  BY DEF Dispatch, ReleaseTask, HandlingSteps
<1>2. io[workerTask[w]] = "taken"
  BY <1>1, HandledIsTaken
<1>3. UNCHANGED io /\ \A j \in Tasks : j # workerTask[w] => released'[j] = released[j]
  BY DEF Dispatch, ReleaseTask, socketVars, DecRef, Destroy, IInv, TypeOK, TaskTypeOK
<1> QED
  BY <1>2, <1>3 DEF KernelNeverWritesFreed, Live

LEMMA KernelStep ==
  ASSUME "oom" \notin Faults, IInv, KernelNeverWritesFreed, [Next]_vars
  PROVE  KernelNeverWritesFreed'
<1>1. ASSUME NEW t \in Threads, IssueStep(t)
      PROVE  KernelNeverWritesFreed'
  <2>1. CASE UNCHANGED released
    <3>1. \A k \in Tasks : io'[k] \in {"pending", "queued"} =>
            io[k] \in {"pending", "queued"} \/ io[k] = "unused"
      BY <1>1 DEF IssueStep, Issue, IssueWithoutOverlapped, IssueRejected, IssueUnmapped, NewTask,
                  IInv, TypeOK, SocketTypeOK
    <3>2. \A k \in Tasks : io[k] = "unused" => released[k] = 0
      BY DEF IInv, TaskInv, OwnersOf
    <3> QED
      BY <2>1, <3>1, <3>2 DEF KernelNeverWritesFreed, Live
  <2>2. ASSUME NEW k \in Tasks, IssueRejected(t, k)
        PROVE  KernelNeverWritesFreed'
    <3>1. io'[k] = "failed"
      BY <2>2 DEF IssueRejected, IInv, TypeOK, SocketTypeOK
    <3>2. \A j \in Tasks : j # k => io'[j] = io[j] /\ released'[j] = released[j]
      BY <2>2 DEF IssueRejected, Destroy, IInv, TypeOK, SocketTypeOK, TaskTypeOK
    <3> QED
      BY <3>1, <3>2 DEF KernelNeverWritesFreed, Live
  <2> QED
    BY <1>1, <2>1, <2>2 DEF IssueStep, Issue, IssueWithoutOverlapped, IssueUnmapped, taskVars
<1>2. ASSUME NEW t \in Threads, CallStep(t)
      PROVE  KernelNeverWritesFreed'
  <2>1. UNCHANGED <<io, released>>
    BY <1>2 DEF CallStep, Post, PostFails, HandOver
  <2> QED
    BY <2>1, KernelFrame
<1>3. ASSUME NEW k \in Tasks, CallerDrops(k)
      PROVE  KernelNeverWritesFreed'
  BY <1>3, DropSparesKernel DEF CallerDrops
<1>4. ASSUME NEW k \in Tasks, KernelCompletes(k)
      PROVE  KernelNeverWritesFreed'
  <2>1. UNCHANGED released /\ (\A j \in Tasks : io'[j] \in {"pending", "queued"} => io[j] \in {"pending", "queued"})
    BY <1>4 DEF KernelCompletes, Complete, taskVars, IInv, TypeOK, SocketTypeOK
  <2> QED
    BY <2>1, KernelFrame
<1>5. ASSUME NEW w \in Workers, WorkerStep(w)
      PROVE  KernelNeverWritesFreed'
  <2>1. CASE DequeueOk(w) \/ DequeueError(w)
    <3>1. UNCHANGED released /\ (\A j \in Tasks : io'[j] \in {"pending", "queued"} => io[j] \in {"pending", "queued"})
      BY <2>1 DEF DequeueOk, DequeueError, TakePacket, taskVars, IInv, TypeOK, SocketTypeOK
    <3> QED
      BY <3>1, KernelFrame
  <2>2. CASE Dispatch(w) \/ ReleaseTask(w)
    BY <2>2, WorkerSparesKernel
  <2>3. CASE \/ DequeuePill(w) \/ HoldTask(w) \/ Discard(w) \/ CallbackReturns(w)
             \/ CallbackThrows(w) \/ StopChecks(w) \/ StopWakes(w)
    <3>1. UNCHANGED <<io, released>>
      BY <2>3 DEF DequeuePill, TakePacket, HoldTask, Discard, CallbackReturns, CallbackThrows,
                  StopChecks, StopWakes, taskVars, socketVars
    <3> QED
      BY <3>1, KernelFrame
  <2> QED
    BY <1>5, <2>1, <2>2, <2>3 DEF WorkerStep
<1>6. CASE RunEnters \/ RunStep \/ RunWakesSpuriously \/ Destroys \/ UNCHANGED vars
  <2>1. UNCHANGED <<io, released>>
    BY <1>6 DEF RunEnters, RunStep, RunResumes, RunSleeps, RunPostsPill, RunStartsJoin, RunReturns,
                RunWakesSpuriously, Destroys, vars, taskVars, socketVars
  <2> QED
    BY <2>1, KernelFrame
<1> QED
  BY <1>1, <1>2, <1>3, <1>4, <1>5, <1>6 DEF Next

\* While memory does not run out, the overlapped block that the kernel writes
\* to, or whose address is in the port, belongs to a task that exists, for any
\* threads and operations and every other failure.
THEOREM KernelCorrect ==
  ASSUME "oom" \notin Faults
  PROVE  Spec => []KernelNeverWritesFreed
<1>1. Init => KernelNeverWritesFreed
  BY DEF Init, TaskInit, KernelNeverWritesFreed, Live
<1>2. IInv /\ KernelNeverWritesFreed /\ [Next]_vars => KernelNeverWritesFreed'
  BY KernelStep
<1> QED
  BY <1>1, <1>2, Invariance, PTL DEF Spec
-----------------------------------------------------------------------------
(* A service with one worker thread.                                        *)

\* One thread takes the packets, memory does not run out, and no system call
\* is rejected.
OneThread ==
  /\ \A v, w \in Workers : v = w
  /\ Faults \cap {"oom", "issue"} = {}

\* An operation that runs, or whose packet is in the port, is in currentTasks
\* or its call is about to put it there.
Awaited ==
  runAt # "destroyed" =>
    \A k \in Tasks : io[k] \in {"pending", "queued"} =>
      k \in currentTasks \/ \E t \in Threads : Posting(t, k) /\ callAt[t] = "post"

SafeTask(k) == released[k] = 0 \/ (released[k] = 1 /\ ~InUse(k))

OneThreadInv ==
  /\ Awaited
  /\ PacketFindsItsTask
  /\ \A k \in Tasks : SafeTask(k)

\* A worker that is not in its callback is alone: nobody is in a call.
LEMMA Alone ==
  ASSUME OneThread, RunInv, NEW w \in Workers,
         workerAt[w] \notin {"suspended", "exited", "callback"}
  PROVE  /\ runAt \notin {"out", "destroyed"}
         /\ \A t \in Threads : callAt[t] = "none"
<1>1. runAt \notin {"out", "destroyed"}
  BY DEF RunInv, Resting
<1>2. callAt[Main] = "none" /\ callAt[w] = "none"
  BY <1>1 DEF RunInv, Calling
<1> QED
  BY <1>1, <1>2 DEF OneThread, Threads

\* What a release needs to know of the task: its only counted pointer is gone.
LEMMA LastPointer ==
  ASSUME IInv, NEW k \in Tasks, released[k] = 0, io[k] # "unused", refs[k] = 1,
         k \in outRef \/ IsHeld(k)
  PROVE  /\ k \notin currentTasks \cup ovlRef
         /\ k \in outRef => ~IsHeld(k)
         /\ io[k] \notin {"pending", "queued"}
<1>1. TaskInv(k) /\ Owners(k) = 1
  BY DEF IInv, TaskInv, RefCount, Live
<1>2. k \notin currentTasks \cup ovlRef /\ (k \in outRef => ~IsHeld(k))
  BY <1>1 DEF Owners, B
<1> QED
  BY <1>1, <1>2 DEF TaskInv, OwnersOf

\* A task that is in use has not been released.
LEMMA UsedIsLive ==
  ASSUME OneThreadInv, NEW k \in Tasks, InUse(k)
  PROVE  released[k] = 0
BY DEF OneThreadInv, SafeTask

\* A step that releases nothing, and after which only those use a task that
\* did before, or that had it not released.
LEMMA SafeFrame ==
  ASSUME OneThreadInv, NEW k \in Tasks, released'[k] = released[k],
         InUse(k)' => InUse(k) \/ released[k] = 0
  PROVE  SafeTask(k)'
BY DEF OneThreadInv, SafeTask

\* The caller gives up its reference, which may be the last one.
LEMMA DropIsSafe ==
  ASSUME IInv, OneThreadInv, NEW k \in Tasks, CallerDrops(k)
  PROVE  \A j \in Tasks : SafeTask(j)'
<1>1. /\ k \in outRef /\ outRef' = outRef \ {k}
      /\ UNCHANGED <<currentTasks, io, callAt, callTask, workerAt, workerTask>>
      /\ \A j \in Tasks \ {k} : released'[j] = released[j]
  BY DEF CallerDrops, DropOut, socketVars, serviceVars, workerVars, DecRef, Destroy, IInv, TypeOK, TaskTypeOK
<1>2. released[k] = 0
  <2>1. InUse(k)
    BY <1>1 DEF InUse
  <2> QED
    BY <2>1, UsedIsLive
<1>3. \A j \in Tasks \ {k} : SafeTask(j)'
  <2> TAKE j \in Tasks \ {k}
  <2>1. InUse(j)' => InUse(j)
    BY <1>1 DEF InUse, Posting, Handling
  <2> QED
    BY <1>1, <2>1, SafeFrame
<1>4. SafeTask(k)'
  <2>1. CASE refs[k] # 1
    BY <1>2, <2>1 DEF CallerDrops, DropOut, DecRef, SafeTask
  <2>2. CASE refs[k] = 1
    <3>1. released'[k] = 1
      BY <1>2, <2>2 DEF CallerDrops, DropOut, DecRef, Destroy, Passes, IInv, TypeOK, TaskTypeOK
    <3>2. TaskInv(k)
      BY DEF IInv
    <3>3. io[k] # "unused" /\ \A t \in Threads : ~Posting(t, k)
      BY <1>1, <3>2 DEF TaskInv, OwnersOf
    <3>4. k \notin currentTasks \cup ovlRef /\ ~IsHeld(k) /\ io[k] \notin {"pending", "queued"}
      BY <1>1, <1>2, <2>2, <3>3, LastPointer
    <3>5. \A w \in Workers : ~Handling(w, k)
      BY <3>2, <3>4 DEF TaskInv, OwnersOf, IsHeld, Holding
    <3>6. ~InUse(k)'
      BY <1>1, <3>3, <3>4, <3>5 DEF InUse, Posting, Handling
    <3> QED
      BY <3>1, <3>6 DEF SafeTask
  <2> QED
    BY <2>1, <2>2
<1> QED
  BY <1>3, <1>4

\* Dispatch gives up two references, and the worker has a third one.
LEMMA DispatchIsSafe ==
  ASSUME IInv, OneThreadInv, NEW w \in Workers, Dispatch(w)
  PROVE  \A j \in Tasks : SafeTask(j)'
<1> PICK k \in Tasks : k = workerTask[w]
  BY DEF Dispatch, HandlingSteps, IInv, TypeOK, ServiceTypeOK
<1>1. /\ workerAt[w] = "held" /\ k \in currentTasks
      /\ currentTasks' = currentTasks \ {k}
      /\ UNCHANGED <<outRef, io, callAt, callTask, workerTask>>
      /\ \A v \in Workers : workerAt'[v] \in HandlingSteps => workerAt[v] \in HandlingSteps
      /\ \A j \in Tasks \ {k} : released'[j] = released[j]
  BY DEF Dispatch, Goto, HandlingSteps, DecRef, Destroy, IInv, TypeOK, TaskTypeOK, ServiceTypeOK
<1>2. \A j \in Tasks : InUse(j)' => InUse(j)
  BY <1>1 DEF InUse, Posting, Handling
<1>3. released'[k] = released[k]
  <2>1. InUse(k) /\ TaskInv(k) /\ Handling(w, k)
    BY <1>1 DEF InUse, IInv, Handling, HandlingSteps
  <2>2. released[k] = 0 /\ io[k] = "taken"
    BY <1>1, <2>1, UsedIsLive, HandledIsTaken DEF HandlingSteps
  <2>3. k \in ovlRef /\ IsHeld(k) /\ refs[k] = Owners(k)
    BY <1>1, <2>1, <2>2 DEF TaskInv, OwnersOf, RefCount, Live, IsHeld, Holding
  <2>4. refs[k] # 2
    BY <1>1, <2>3 DEF Owners, B
  <2> QED
    BY <2>4 DEF Dispatch, DecRef
<1> QED
  BY <1>1, <1>2, <1>3, SafeFrame

\* The worker gives up rawTask, which may be the last pointer.
LEMMA ReleaseIsSafe ==
  ASSUME OneThread, IInv, RunInv, OneThreadInv, NEW w \in Workers, ReleaseTask(w)
  PROVE  \A j \in Tasks : SafeTask(j)'
<1> PICK k \in Tasks : k = workerTask[w]
  BY DEF ReleaseTask, HandlingSteps, IInv, TypeOK, ServiceTypeOK
<1>1. /\ workerAt[w] \in {"done", "threw"} /\ workerAt'[w] \notin HandlingSteps
      /\ UNCHANGED <<currentTasks, outRef, io, callAt, callTask>>
      /\ \A v \in Workers : v = w
      /\ \A j \in Tasks \ {k} : released'[j] = released[j]
  BY DEF ReleaseTask, Goto, HandlingSteps, DecRef, Destroy, socketVars, OneThread, IInv, TypeOK,
         TaskTypeOK, ServiceTypeOK
<1>2. \A t \in Threads : callAt[t] = "none"
  BY <1>1, Alone
<1>3. \A j \in Tasks :
        InUse(j)' => j \in currentTasks \cup outRef \/ io[j] \in {"pending", "queued"}
  BY <1>1, <1>2 DEF InUse, Posting, Handling
<1>4. released[k] = 0 /\ io[k] = "taken" /\ IsHeld(k)
  <2>1. InUse(k) /\ IsHeld(k)
    BY <1>1 DEF InUse, Handling, IsHeld, Holding, HandlingSteps
  <2> QED
    BY <1>1, <2>1, UsedIsLive, HandledIsTaken DEF HandlingSteps
<1>5. \A j \in Tasks \ {k} : SafeTask(j)'
  BY <1>1, <1>3, SafeFrame DEF InUse
<1>6. SafeTask(k)'
  <2>1. CASE refs[k] # 1
    BY <1>4, <2>1 DEF ReleaseTask, DecRef, SafeTask
  <2>2. CASE refs[k] = 1
    <3>1. released'[k] = 1
      BY <1>4, <2>2 DEF ReleaseTask, DecRef, Destroy, Passes, IInv, TypeOK, TaskTypeOK
    <3>2. k \notin currentTasks \cup outRef
      BY <1>1, <1>4, <2>2, LastPointer
    <3> QED
      BY <1>1, <1>3, <1>4, <3>1, <3>2 DEF SafeTask
  <2> QED
    BY <2>1, <2>2
<1> QED
  BY <1>5, <1>6

\* The packet at the head of the port is that of a queued operation.
LEMMA HeadIsQueued ==
  ASSUME IInv, queue # <<>>, Head(queue).what # "pill"
  PROVE  Head(queue).task \in Tasks /\ io[Head(queue).task] = "queued"
<1>1. 1 \in DOMAIN queue /\ Head(queue) = queue[1]
  BY DEF IInv, TypeOK, SocketTypeOK
<1> QED
  BY <1>1, PacketTypes DEF IInv, QueueExact

LEMMA SafeStep ==
  ASSUME OneThread, IInv, RunInv, OneThreadInv, [Next]_vars
  PROVE  \A j \in Tasks : SafeTask(j)'
<1> USE DEF IInv, TypeOK, TaskTypeOK, SocketTypeOK, ServiceTypeOK
<1> SUFFICES ASSUME \/ ~UNCHANGED released
                    \/ \E j \in Tasks : ~(InUse(j)' => InUse(j) \/ released[j] = 0)
             PROVE  \A j \in Tasks : SafeTask(j)'
  BY SafeFrame
<1>1. ASSUME NEW t \in Threads, IssueStep(t)
      PROVE  FALSE
  <2>1. UNCHANGED <<currentTasks, outRef, workerAt, workerTask, released>>
    BY <1>1 DEF IssueStep, Issue, IssueWithoutOverlapped, IssueRejected, IssueUnmapped, taskVars,
                serviceVars, workerVars, OneThread
  <2>2. PICK k \in Tasks : Issue(t, k) \/ IssueUnmapped(t, k)
    BY <1>1 DEF IssueStep, IssueWithoutOverlapped, IssueRejected, OneThread
  <2>3. io[k] = "unused" /\ released[k] = 0
    BY <2>2 DEF Issue, IssueUnmapped, NewTask, TaskInv, OwnersOf
  <2>4. \A j \in Tasks \ {k} : io'[j] = io[j] /\ \A u \in Threads : Posting(u, j)' => Posting(u, j)
    BY <2>2 DEF Issue, IssueUnmapped, NewTask, EnterCall, Posting
  <2>5. \A j \in Tasks \ {k} : InUse(j)' => InUse(j)
    BY <2>1, <2>4 DEF InUse, Handling
  <2> QED
    BY <2>1, <2>3, <2>5
<1>2. ASSUME NEW t \in Threads, CallStep(t)
      PROVE  FALSE
  <2>1. CASE Post(t)
    <3>1. \A j \in Tasks : InUse(j)' => InUse(j)
      BY <1>2, <2>1 DEF CallStep, Post, InUse, Posting, Handling, serviceVars, workerVars
    <3> QED
      BY <2>1, <3>1 DEF Post
  <2>2. CASE HandOver(t)
    <3>1. \A j \in Tasks : InUse(j)' => InUse(j)
      BY <1>2, <2>2 DEF CallStep, HandOver, LeaveCall, InUse, Posting, Handling, serviceVars, workerVars
    <3> QED
      BY <2>2, <3>1 DEF HandOver
  <2> QED
    BY <1>2, <2>1, <2>2 DEF CallStep, PostFails, OneThread
<1>3. ASSUME NEW k \in Tasks, KernelCompletes(k)
      PROVE  FALSE
  <2>1. \A j \in Tasks : InUse(j)' => InUse(j)
    BY <1>3 DEF KernelCompletes, Complete, taskVars, InUse, Posting, Handling, serviceVars, workerVars
  <2> QED
    BY <1>3, <2>1 DEF KernelCompletes, Complete, taskVars
<1>4. ASSUME NEW w \in Workers, WorkerStep(w), ~Dispatch(w), ~ReleaseTask(w)
      PROVE  FALSE
  <2>1. CASE DequeueOk(w)
    <3>1. PICK k \in Tasks : k = Head(queue).task /\ io[k] = "queued"
      BY <2>1, HeadIsQueued DEF DequeueOk, TakePacket
    <3>2. /\ UNCHANGED <<released, outRef, currentTasks, callAt, callTask>>
          /\ \A j \in Tasks : io'[j] \in {"pending", "queued"} => io[j] \in {"pending", "queued"}
          /\ \A v \in Workers \ {w} : workerAt'[v] = workerAt[v] /\ workerTask'[v] = workerTask[v]
          /\ workerTask'[w] = k
      BY <2>1, <3>1 DEF DequeueOk, TakePacket, taskVars, Goto
    <3>3. \A j \in Tasks : InUse(j)' => InUse(j)
      BY <3>1, <3>2 DEF InUse, Posting, Handling
    <3> QED
      BY <3>2, <3>3
  <2>2. CASE DequeueError(w) \/ DequeuePill(w)
    <3>1. /\ UNCHANGED <<released, outRef, currentTasks, callAt, callTask, workerTask>>
          /\ \A j \in Tasks : io'[j] \in {"pending", "queued"} => io[j] \in {"pending", "queued"}
          /\ \A v \in Workers : workerAt'[v] \in HandlingSteps => workerAt[v] \in HandlingSteps
      BY <2>2 DEF DequeueError, DequeuePill, TakePacket, taskVars, Goto, HandlingSteps
    <3>2. \A j \in Tasks : InUse(j)' => InUse(j)
      BY <3>1 DEF InUse, Posting, Handling
    <3> QED
      BY <3>1, <3>2
  <2>3. CASE \/ HoldTask(w) \/ Discard(w) \/ CallbackReturns(w) \/ CallbackThrows(w)
             \/ StopChecks(w) \/ StopWakes(w)
    <3>1. /\ UNCHANGED <<released, outRef, currentTasks, io, callTask, workerTask>>
          /\ \A t \in Threads : callAt'[t] \in {"post", "handOver"} => callAt[t] = callAt'[t]
      BY <2>3 DEF HoldTask, Discard, CallbackReturns, CallbackThrows, StopChecks, StopWakes,
                  taskVars, socketVars, serviceVars, workerVars
    <3>2. \A v \in Workers : workerAt'[v] \in HandlingSteps => workerAt[v] \in HandlingSteps
      BY <2>3 DEF HoldTask, Discard, CallbackReturns, CallbackThrows, StopChecks, StopWakes,
                  InCallback, Goto, HandlingSteps, serviceVars, workerVars
    <3>3. \A j \in Tasks : InUse(j)' => InUse(j)
      BY <3>1, <3>2 DEF InUse, Posting, Handling
    <3> QED
      BY <3>1, <3>3
  <2> QED
    BY <1>4, <2>1, <2>2, <2>3 DEF WorkerStep
<1>5. ASSUME RunEnters \/ RunStep \/ RunWakesSpuriously \/ Destroys \/ UNCHANGED vars
      PROVE  FALSE
  <2>1. /\ UNCHANGED <<released, outRef, io, callAt, callTask, workerTask>>
        /\ currentTasks' \subseteq currentTasks
    BY <1>5 DEF RunEnters, RunStep, RunResumes, RunSleeps, RunPostsPill, RunStartsJoin, RunReturns,
                RunWakesSpuriously, Destroys, vars, taskVars, socketVars, serviceVars, workerVars
  <2>2. \A v \in Workers : workerAt'[v] \in HandlingSteps => workerAt[v] \in HandlingSteps
    BY <1>5 DEF RunEnters, RunStep, RunResumes, RunSleeps, RunPostsPill, RunStartsJoin, RunReturns,
                RunWakesSpuriously, Destroys, vars, serviceVars, workerVars, HandlingSteps
  <2>3. \A j \in Tasks : InUse(j)' => InUse(j)
    BY <2>1, <2>2 DEF InUse, Posting, Handling
  <2> QED
    BY <2>1, <2>3
<1> QED
  BY <1>1, <1>2, <1>3, <1>4, <1>5, DropIsSafe, DispatchIsSafe, ReleaseIsSafe DEF Next

LEMMA AwaitedFrame ==
  ASSUME Awaited, TypeOK, runAt' # "destroyed" => runAt # "destroyed",
         \A k \in Tasks : io'[k] \in {"pending", "queued"} =>
           /\ io[k] \in {"pending", "queued"}
           /\ k \in currentTasks => k \in currentTasks',
         \A t \in Threads : callAt[t] = "post" => callAt'[t] = "post" /\ callTask'[t] = callTask[t]
  PROVE  Awaited'
BY DEF Awaited, Posting

LEMMA AwaitedStep ==
  ASSUME OneThread, IInv, RunInv, Awaited, [Next]_vars
  PROVE  Awaited'
<1> USE DEF IInv, TypeOK, SocketTypeOK, ServiceTypeOK
<1>1. runAt' # "destroyed" => runAt # "destroyed"
  BY DEF Next, IssueStep, CallStep, CallerDrops, KernelCompletes, WorkerStep, RunStep, RunEnters,
         RunWakesSpuriously, Destroys, DequeueOk, DequeueError, DequeuePill, HoldTask, Dispatch, Discard,
         CallbackReturns, CallbackThrows, ReleaseTask, StopChecks, StopWakes, RunResumes, RunSleeps,
         RunPostsPill, RunStartsJoin, RunReturns, WakeRun, vars, serviceVars, runVars
<1>2. ASSUME NEW t \in Threads, IssueStep(t)
      PROVE  Awaited'
  <2>1. PICK k \in Tasks : Issue(t, k) \/ IssueUnmapped(t, k)
    BY <1>2 DEF IssueStep, IssueWithoutOverlapped, IssueRejected, OneThread
  <2>2. CASE Issue(t, k)
    <3>1. callAt[t] = "none" /\ Posting(t, k)' /\ callAt'[t] = "post"
      BY <2>2 DEF Issue, NewTask, EnterCall, Posting
    <3>2. \A j \in Tasks \ {k} : io'[j] = io[j] /\ (j \in currentTasks' <=> j \in currentTasks)
      BY <2>2 DEF Issue
    <3>3. \A u \in Threads \ {t} : callAt'[u] = callAt[u] /\ callTask'[u] = callTask[u]
      BY <2>2 DEF Issue, EnterCall
    <3>4. \A j \in Tasks \ {k} : \A u \in Threads :
            Posting(u, j) /\ callAt[u] = "post" => Posting(u, j)' /\ callAt'[u] = "post"
      BY <3>1, <3>3 DEF Posting
    <3> QED
      BY <1>1, <3>1, <3>2, <3>4 DEF Awaited
  <2>3. CASE IssueUnmapped(t, k)
    BY <1>1, <2>3, AwaitedFrame DEF IssueUnmapped
  <2> QED
    BY <2>1, <2>2, <2>3
<1>3. ASSUME NEW t \in Threads, CallStep(t)
      PROVE  Awaited'
  <2>1. CASE Post(t)
    <3>1. /\ callTask[t] \in currentTasks' /\ currentTasks \subseteq currentTasks'
          /\ UNCHANGED <<io, callTask>>
          /\ \A u \in Threads \ {t} : callAt'[u] = callAt[u]
      BY <2>1 DEF Post
    <3> QED
      BY <1>1, <3>1 DEF Awaited, Posting
  <2>2. CASE HandOver(t)
    <3>1. \A u \in Threads : callAt[u] = "post" => callAt'[u] = "post" /\ callTask'[u] = callTask[u]
      BY <2>2 DEF HandOver, LeaveCall
    <3> QED
      BY <1>1, <2>2, <3>1, AwaitedFrame DEF HandOver
  <2> QED
    BY <1>3, <2>1, <2>2 DEF CallStep, PostFails, OneThread
<1>4. ASSUME NEW k \in Tasks, CallerDrops(k) \/ KernelCompletes(k)
      PROVE  Awaited'
  <2>1. /\ UNCHANGED <<currentTasks, callAt, callTask>>
        /\ \A j \in Tasks : io'[j] \in {"pending", "queued"} => io[j] \in {"pending", "queued"}
    BY <1>4 DEF CallerDrops, DropOut, KernelCompletes, Complete, socketVars
  <2> QED
    BY <1>1, <2>1, AwaitedFrame
<1>5. ASSUME NEW w \in Workers, WorkerStep(w)
      PROVE  Awaited'
  <2>1. \A u \in Threads : callAt[u] = "post" => callAt'[u] = "post" /\ callTask'[u] = callTask[u]
    BY <1>5 DEF WorkerStep, DequeueOk, DequeueError, DequeuePill, TakePacket, HoldTask, Dispatch, Discard,
                CallbackReturns, CallbackThrows, InCallback, ReleaseTask, StopChecks, StopWakes, socketVars
  <2>2. CASE Dispatch(w)
    <3>1. io[workerTask[w]] = "taken" /\ UNCHANGED io
      BY <2>2, HandledIsTaken DEF Dispatch, HandlingSteps
    <3>2. currentTasks' = currentTasks \ {workerTask[w]}
      BY <2>2 DEF Dispatch
    <3> QED
      BY <1>1, <2>1, <3>1, <3>2, AwaitedFrame
  <2>3. CASE ~Dispatch(w)
    <3>1. /\ UNCHANGED currentTasks
          /\ \A j \in Tasks : io'[j] \in {"pending", "queued"} => io[j] \in {"pending", "queued"}
      BY <1>5, <2>3
      DEF WorkerStep, DequeueOk, DequeueError, DequeuePill, TakePacket, HoldTask, Discard,
          CallbackReturns, CallbackThrows, ReleaseTask, StopChecks, StopWakes, socketVars
    <3> QED
      BY <1>1, <2>1, <3>1, AwaitedFrame
  <2> QED
    BY <2>2, <2>3
<1>6. CASE RunEnters \/ RunStep \/ RunWakesSpuriously \/ UNCHANGED vars
  <2>1. UNCHANGED <<currentTasks, io, callAt, callTask>>
    BY <1>6 DEF RunEnters, RunStep, RunResumes, RunSleeps, RunPostsPill, RunStartsJoin, RunReturns,
                RunWakesSpuriously, vars, socketVars
  <2> QED
    BY <1>1, <2>1, AwaitedFrame
<1>7. CASE Destroys
  <2>1. runAt' = "destroyed" \/ UNCHANGED <<currentTasks, io, callAt, callTask>>
    BY <1>7 DEF Destroys
  <2> QED
    BY <1>1, <2>1, AwaitedFrame DEF Awaited
<1> QED
  BY <1>2, <1>3, <1>4, <1>5, <1>6, <1>7 DEF Next

\* The only worker takes a packet when nobody is in a call, so that the task
\* of the packet was posted.
LEMMA FindsStep ==
  ASSUME OneThread, IInv, RunInv, Awaited, PacketFindsItsTask, [Next]_vars
  PROVE  PacketFindsItsTask'
<1> USE DEF IInv, TypeOK, SocketTypeOK, ServiceTypeOK
<1>1. SUFFICES ASSUME NEW w \in Workers, workerAt'[w] \in {"taken", "held"}
               PROVE  workerTask'[w] \in currentTasks'
  BY DEF PacketFindsItsTask
<1>2. CASE DequeueOk(w)
  <2>1. PICK k \in Tasks : k = Head(queue).task /\ io[k] = "queued"
    BY <1>2, HeadIsQueued DEF DequeueOk, TakePacket
  <2>2. workerAt[w] = "waiting" /\ workerTask'[w] = k /\ UNCHANGED currentTasks
    BY <1>2, <2>1 DEF DequeueOk, TakePacket
  <2>3. runAt # "destroyed" /\ \A t \in Threads : callAt[t] = "none"
    BY <2>2, Alone
  <2> QED
    BY <2>1, <2>2, <2>3 DEF Awaited
<1>3. CASE ~DequeueOk(w)
  <2>1. workerAt[w] \in {"taken", "held"} /\ workerTask'[w] = workerTask[w]
    BY <1>1, <1>3
    DEF Next, IssueStep, CallStep, CallerDrops, KernelCompletes, WorkerStep, RunStep, RunEnters, Goto,
        RunWakesSpuriously, Destroys, DequeueOk, DequeueError, DequeuePill, HoldTask, Dispatch, Discard,
        CallbackReturns, CallbackThrows, ReleaseTask, StopChecks, StopWakes, RunResumes, RunSleeps,
        RunPostsPill, RunStartsJoin, RunReturns, vars, serviceVars, workerVars, OneThread
  <2>2. workerTask[w] \in currentTasks
    BY <2>1 DEF PacketFindsItsTask
  <2>3. CASE Destroys
    BY <2>1, <2>3 DEF Destroys, RunInv, Resting
  <2>4. ASSUME NEW v \in Workers, Dispatch(v)
        PROVE  FALSE
    BY <1>1, <2>4 DEF Dispatch, Goto, OneThread
  <2>5. ASSUME ~Destroys, \A v \in Workers : ~Dispatch(v)
        PROVE  currentTasks \subseteq currentTasks'
    BY <2>5
    DEF Next, IssueStep, Issue, IssueWithoutOverlapped, IssueRejected, IssueUnmapped, CallStep, Post,
        PostFails, HandOver, CallerDrops, DropOut, KernelCompletes, Complete, WorkerStep, RunStep, RunEnters,
        RunWakesSpuriously, DequeueOk, DequeueError, DequeuePill, TakePacket, HoldTask, Discard,
        CallbackReturns, CallbackThrows, ReleaseTask, StopChecks, StopWakes, RunResumes, RunSleeps,
        RunPostsPill, RunStartsJoin, RunReturns, vars, socketVars
  <2> QED
    BY <2>1, <2>2, <2>3, <2>4, <2>5
<1> QED
  BY <1>2, <1>3

\* The inductive invariant of a service with one worker thread.
LEMMA OneThreadInvariance ==
  ASSUME OneThread
  PROVE  Spec => []OneThreadInv
<1>1. Init => OneThreadInv
  <2> SUFFICES ASSUME Init PROVE OneThreadInv
    OBVIOUS
  <2>1. /\ \A k \in Tasks : io[k] = "unused" /\ released[k] = 0
        /\ \A w \in Workers : workerAt[w] = "suspended"
    BY DEF Init, TaskInit, SocketInit
  <2> QED
    BY <2>1 DEF OneThreadInv, Awaited, PacketFindsItsTask, SafeTask
<1>2. IInv /\ RunInv /\ OneThreadInv /\ [Next]_vars => OneThreadInv'
  BY AwaitedStep, FindsStep, SafeStep DEF OneThreadInv
<1> QED
  BY <1>1, <1>2, Invariance, RunInvariance, PTL DEF Spec

\* With one worker thread a packet never overtakes postAsyncTask.
THEOREM PacketsFindTheirTask ==
  ASSUME OneThread
  PROVE  Spec => []PacketFindsItsTask
<1>1. OneThreadInv => PacketFindsItsTask
  BY DEF OneThreadInv
<1> QED
  BY <1>1, OneThreadInvariance, PTL

\* With one worker thread no task, not even that of a write or an accept, is
\* used after its release or released twice, unless memory runs out or a
\* system call is rejected.
THEOREM OneThreadIsSafe ==
  ASSUME OneThread
  PROVE  Spec => []NoUndefinedBehaviour
<1>1. OneThreadInv => NoUndefinedBehaviour
  BY DEF OneThreadInv, SafeTask, NoUndefinedBehaviour, UndefinedBehaviour
<1> QED
  BY <1>1, OneThreadInvariance, PTL
=============================================================================
