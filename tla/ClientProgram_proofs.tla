------------------------ MODULE ClientProgram_proofs ------------------------
(***************************************************************************)
(* The properties of ClientProgram, for every number of threads, sockets,  *)
(* handles and attempts, every set of failures, all addresses and buffers  *)
(* and every width of size_t and ULONG.  Each follows from a part of IInv  *)
(* that is inductive by itself.                                            *)
(***************************************************************************)
EXTENDS ClientProgram, SocketHandles_proofs

-----------------------------------------------------------------------------
(* Addresses.                                                              *)

\* Shifts by one, two and three bytes.
LEMMA Shifts ==
  ASSUME NEW n \in Nat
  PROVE  /\ n \div 65536 = (n \div 256) \div 256
         /\ n \div 16777216 = ((n \div 256) \div 256) \div 256
BY SMT

\* htons swaps the bytes of a port.
LEMMA SwappedBytes ==
  ASSUME NEW q \in Nat, NEW high \in Byte, NEW low \in Byte, q % 256 = low, q \div 256 = high
  PROVE  Swapped(q) = 256 * low + high
BY SMT DEF Swapped, Byte

\* The address of six bytes.
OfBytes(a, b, c, d, high, low) ==
  [a |-> a, b |-> b, c |-> c, d |-> d, high |-> high, low |-> low]

\* Memory holds the bytes that translateAddress was given, in their order: the
\* bytes of (d << 24) | (c << 16) | (b << 8) | a and of htons(port).
LEMMA NetworkOrderOfBytes ==
  ASSUME NEW a \in Byte, NEW b \in Byte, NEW c \in Byte, NEW d \in Byte,
         NEW high \in Byte, NEW low \in Byte
  PROVE  Image(TranslateAddress(OfBytes(a, b, c, d, high, low))) = OfBytes(a, b, c, d, high, low)
<1> DEFINE n == 16777216 * d + 65536 * c + 256 * b + a
           n1 == 65536 * d + 256 * c + b
           n2 == 256 * d + c
           q == 256 * high + low
           p == Swapped(q)
           addr == OfBytes(a, b, c, d, high, low)
<1>1. n = 256 * n1 + a /\ n1 = 256 * n2 + b /\ n1 \in Nat /\ n2 \in Nat /\ n \in Nat
  BY SMT DEF Byte
<1>2. n2 % 256 = c /\ n2 \div 256 = d
  BY SMT DEF Byte
<1>3. q % 256 = low /\ q \div 256 = high /\ q \in Nat
  BY SMT DEF Byte
<1>4. TranslateAddress(addr) = [s_addr |-> n, sin_port |-> p]
  BY SMT DEF TranslateAddress, Port, OfBytes
<1> HIDE DEF n, n1, n2, q
<1>5. n % 256 = a /\ n \div 256 = n1
  BY SMT, <1>1 DEF Byte
<1>6. n1 % 256 = b /\ n1 \div 256 = n2
  BY SMT, <1>1 DEF Byte
<1>7. n \div 65536 = n2 /\ n \div 16777216 = d
  BY SMT, <1>1, <1>2, <1>5, <1>6, Shifts DEF Byte
<1>8. p = 256 * low + high
  BY SMT, <1>3, SwappedBytes
<1> HIDE DEF p
<1>9. p % 256 = high /\ p \div 256 = low
  BY SMT, <1>8 DEF Byte
<1> QED BY SMT, <1>2, <1>4, <1>5, <1>6, <1>7, <1>9 DEF Image, OfBytes

LEMMA NetworkOrder ==
  ASSUME NEW addr \in IPv4Address
  PROVE  Image(TranslateAddress(addr)) = addr
<1>1. PICK a \in Byte : a = addr.a
  BY SMT DEF IPv4Address
<1>2. PICK b \in Byte : b = addr.b
  BY SMT DEF IPv4Address
<1>3. PICK c \in Byte : c = addr.c
  BY SMT DEF IPv4Address
<1>4. PICK d \in Byte : d = addr.d
  BY SMT DEF IPv4Address
<1>5. PICK high \in Byte : high = addr.high
  BY SMT DEF IPv4Address
<1>6. PICK low \in Byte : low = addr.low
  BY SMT DEF IPv4Address
<1>7. addr = OfBytes(a, b, c, d, high, low)
  BY SMT, <1>1, <1>2, <1>3, <1>4, <1>5, <1>6 DEF IPv4Address, OfBytes
<1> QED BY SMT, <1>7, NetworkOrderOfBytes

\* detranslateAddress gives the bytes and the port back mirrored.
LEMMA Mirrored ==
  ASSUME NEW addr \in IPv4Address
  PROVE  DetranslateAddress(TranslateAddress(addr)) =
           [a |-> addr.d, b |-> addr.c, c |-> addr.b, d |-> addr.a,
            high |-> addr.low, low |-> addr.high]
<1> DEFINE sa == TranslateAddress(addr)
<1>1. DetranslateAddress(sa) =
        [a |-> Image(sa).d, b |-> Image(sa).c, c |-> Image(sa).b, d |-> Image(sa).a,
         high |-> Image(sa).low, low |-> Image(sa).high]
  BY SMT DEF DetranslateAddress, Image
<1>2. Image(sa) = addr
  BY NetworkOrder
<1> QED BY <1>1, <1>2

-----------------------------------------------------------------------------
(* Lengths.                                                                *)

LEMMA SmallModulus ==
  ASSUME NEW n \in Nat, NEW m \in 0 .. n
  PROVE  m % (n + 1) = m
OBVIOUS

\* A reference that was accepted, to a buffer that is not too big.
LEMMA KernelLengthFits ==
  ASSUME NEW ref \in BufferRefs, ~TooBig(ref),
         ref = WholeBuffer(ref.bytes) \/ SliceAccepted(ref.bytes, ref.offset, ref.size)
  PROVE  /\ ref.offset + KernelLength(ref) <= ref.bytes
         /\ ref = WholeBuffer(ref.bytes) => KernelLength(ref) = ref.size
<1>1. /\ ref.bytes \in Nat /\ ref.offset \in Nat
      /\ UlongMax \in Nat /\ ref.bytes <= UlongMax
  BY BufferAssumption DEF BufferRefs, SizeT, TooBig
<1>2. ref = WholeBuffer(ref.bytes) => ref.offset = 0 /\ ref.size = ref.bytes
  BY DEF WholeBuffer, BufferRef
<1>3. ref.offset <= ref.bytes
  BY <1>1, <1>2 DEF SliceAccepted
<1>4. ref.bytes - ref.offset \in 0 .. UlongMax
  BY <1>1, <1>3
<1>5. KernelLength(ref) = ref.bytes - ref.offset
  BY <1>1, <1>4, SmallModulus DEF KernelLength
<1> QED BY <1>1, <1>2, <1>5

\* A synchronous call of a size that an int holds.
LEMMA SyncLengthExact ==
  ASSUME NEW size \in SizeT, size <= UlongMax \div 2
  PROVE  SyncLength(size) = size
<1>1. UlongMax \in Nat /\ size \in Nat
  BY BufferAssumption DEF SizeT
<1>2. UlongMax \div 2 \in Nat /\ UlongMax \div 2 <= UlongMax
  BY <1>1
<1>3. size \in 0 .. UlongMax
  BY <1>1, <1>2
<1>4. size % (UlongMax + 1) = size
  BY <1>1, <1>3, SmallModulus
<1> QED BY <1>1, <1>2, <1>4 DEF SyncLength

-----------------------------------------------------------------------------
(* The inductive invariant, part by part.                                  *)

\* Every WSAStartup is that of the service, or was lost.
StartupsBalance ==
  /\ startups \in Nat /\ lostStartups \in Nat
  /\ startups = lostStartups
                + (IF OnWin32 /\ service \in {"creating", "ready", "running", "returned"} THEN 1 ELSE 0)

\* Only a program with a service has sockets that are not closed.
SocketsNeedService ==
  ~InUse => \A s \in Sockets : Live(s) => Closed(s)

\* A thread that was told to start, and did not, was told too early.
ToldTooEarly ==
  /\ service \in {"none", "creating", "ready"} => told = {}
  /\ \A i \in told : threads[i] \in {"starting", "waiting"} => i \in missed

\* The Win32 threads that a service has at each stage.
ThreadsOfStage ==
  OnWin32 =>
    \A i \in DOMAIN threads :
      /\ service \in {"none", "creating"} => threads[i] \in {"absent", "missing", "suspended"}
      /\ service = "ready" => threads[i] \in {"missing", "suspended"}
      /\ service = "running" => threads[i] \in {"missing", "suspended", "started", "ended"}
      /\ service \in {"returned", "destroying", "gone"} =>
           threads[i] \in {"missing", "suspended", "ended"}

\* What the last call passed on, with what detranslateAddress needs of it.
CallInv ==
  /\ lastCall.call = "bind" =>
       lastCall.asked \in IPv4Address /\ lastCall.given = TranslateAddress(lastCall.asked)
  /\ lastCall.call = "detranslate" => AddressesKeepTheirBytes
  /\ KernelStaysInBuffer

IInv ==
  /\ service \in Services /\ backend \in {"win32", "unix"}
  /\ HandleInv
  /\ StartupsBalance
  /\ SocketsNeedService
  /\ ToldTooEarly
  /\ ThreadsOfStage
  /\ CallInv

-----------------------------------------------------------------------------
\* The invariant holds initially.
LEMMA InitIInv == Init => IInv
<1> SUFFICES ASSUME Init PROVE IInv
  OBVIOUS
<1> USE DEF Init, CreationInit, RunInit, SocketsInit
<1>1. HandleInv
  <2>1. NoSocket \in SocketType
    BY DEF NoSocket, SocketType, Origins
  <2>2. SocketsTypeOK
    BY <2>1 DEF SocketsTypeOK, SocketType
  <2>3. \A s \in Sockets : sockets[s].state = "none" /\ sockets[s].closes = 0
    BY DEF NoSocket
  <2> QED BY <2>2, <2>3 DEF HandleInv, SlotsOK, OpenUntilClosed, PortReports, OpenHasOwner, Live
<1>2. StartupsBalance
  BY DEF StartupsBalance
<1>3. SocketsNeedService
  BY DEF SocketsNeedService, Live, NoSocket
<1>4. ToldTooEarly
  BY DEF ToldTooEarly
<1>5. ThreadsOfStage
  <2>1. \A i \in DOMAIN threads : threads[i] = "absent"
    OBVIOUS
  <2> QED BY <2>1 DEF ThreadsOfStage
<1>6. CallInv
  BY DEF CallInv, NoCall, KernelStaysInBuffer
<1> QED BY <1>1, <1>2, <1>3, <1>4, <1>5, <1>6 DEF IInv, Services

\* Handles: calls on sockets, and the last WSACleanup, which finds none open
\* that is not leaked.
LEMMA HandlesKept ==
  ASSUME IInv, [Next]_vars
  PROVE  HandleInv'
<1>1. CASE UNCHANGED <<socketVars, backend>>
  BY <1>1 DEF IInv, socketVars, HandleInv, SocketsTypeOK, SlotsOK, OpenUntilClosed, PortReports,
              OpenHasOwner, Live, Closed, ClosedTwice, OnWin32
<1>2. ASSUME UNCHANGED backend, NEW s \in Sockets, UseSocket(s)
      PROVE  HandleInv'
  <2>1. CASE SocketCall(s)
    BY <1>2, <2>1, SocketCallKeeps DEF IInv
  <2>2. CASE ~SocketCall(s)
    <3>1. UNCHANGED socketVars
      BY <1>2, <2>2 DEF UseSocket, GiveAddress, TakeAddress, Transfer, SyncTransfer, DataOnly
    <3> QED BY <1>1, <1>2, <3>1
  <2> QED BY <2>1, <2>2
<1>3. CASE EndService /\ UNCHANGED backend
  <2>1. CASE UNCHANGED <<open, attached>>
    <3>1. UNCHANGED socketVars
      BY <1>3, <2>1 DEF EndService, socketVars
    <3> QED BY <1>1, <1>3, <3>1
  <2>2. CASE open' = {} /\ attached' = {}
    <3>1. /\ sockets' = sockets /\ leaked' = leaked
          /\ \A s \in Sockets : Live(s) => Closed(s)
      BY <1>3 DEF EndService
    <3>2. \A s \in Sockets : ~(Live(s) /\ ~Closed(s))'
      BY <3>1 DEF Live, Closed
    <3>3. SocketsTypeOK' /\ SlotsOK'
      BY <2>2, <3>1 DEF IInv, HandleInv, SocketsTypeOK, SlotsOK
    <3>4. OpenUntilClosed' /\ PortReports'
      BY <3>2 DEF OpenUntilClosed, PortReports
    <3>5. OpenHasOwner'
      BY <2>2 DEF OpenHasOwner
    <3> QED BY <3>3, <3>4, <3>5 DEF HandleInv
  <2> QED BY <1>3, <2>1, <2>2 DEF EndService
<1> QED BY <1>1, <1>2, <1>3 DEF Next, ServiceOnly, vars

\* WSAStartup and WSACleanup: each creation and its end.
LEMMA StartupsKept ==
  ASSUME IInv, [Next]_vars
  PROVE  StartupsBalance'
<1> USE DEF StartupsBalance, OnWin32, Startup
<1>1. CASE UNCHANGED <<backend, service, startups, lostStartups>>
  BY <1>1 DEF IInv
<1>2. CASE UNCHANGED backend /\ (Creation \/ ThreadsWaitedFor)
  BY <1>2 DEF IInv, Creation, BeginCreation, NoService, NoThreadArray, CreateThread, FinishCreation,
              ThreadsWaitedFor, creationVars
<1>3. CASE UNCHANGED backend /\ Running
  BY <1>3 DEF IInv, Running, EnterRun, RunAgain, LeaveRun, Stop, StopReturns, ReturnFromRun,
              Broadcast, ResumeThread, CallOnly, ThreadOnly, OnUnix, creationVars
<1>4. CASE UNCHANGED backend /\ Threads
  BY <1>1, <1>4 DEF Threads, Thread, WaitForStart, StartSpuriously, EndThread, ThreadOnly
<1>5. ASSUME UNCHANGED backend, NEW s \in Sockets, UseSocket(s)
      PROVE  StartupsBalance'
  <2>1. UNCHANGED <<service, creationVars>>
    BY <1>5 DEF UseSocket, GiveAddress, TakeAddress, Transfer, SyncTransfer, DataOnly
  <2> QED BY <1>1, <1>5, <2>1 DEF creationVars
<1>6. CASE UNCHANGED backend /\ EndService
  BY <1>6 DEF IInv, EndService, DestroyService
<1> QED BY <1>1, <1>2, <1>3, <1>4, <1>5, <1>6 DEF Next, vars, creationVars

\* Sockets are used only while there is a service, and closed before it ends.
LEMMA NeedKept ==
  ASSUME IInv, [Next]_vars
  PROVE  SocketsNeedService'
<1> USE DEF SocketsNeedService, InUse
<1>1. CASE UNCHANGED sockets /\ (InUse' \/ ~InUse)
  BY <1>1 DEF IInv, Live, Closed
<1>2. CASE (Creation \/ ThreadsWaitedFor) /\ ServiceOnly
  <2>1. UNCHANGED sockets
    BY <1>2 DEF ServiceOnly, socketVars
  <2>2. InUse' \/ ~InUse
    BY <1>2 DEF Creation, BeginCreation, NoService, NoThreadArray, CreateThread, FinishCreation,
                ThreadsWaitedFor
  <2> QED BY <1>1, <2>1, <2>2
<1>3. CASE (Running \/ Threads) /\ UNCHANGED <<socketVars, lastCall>>
  <2>1. UNCHANGED sockets
    BY <1>3 DEF socketVars
  <2>2. InUse' \/ ~InUse
    BY <1>3 DEF Running, EnterRun, RunAgain, LeaveRun, Stop, StopReturns, ReturnFromRun, Broadcast,
                ResumeThread, ThreadOnly, Threads, Thread, WaitForStart, StartSpuriously, EndThread
  <2> QED BY <1>1, <2>1, <2>2
<1>4. ASSUME NEW s \in Sockets, UseSocket(s)
      PROVE  SocketsNeedService'
  <2>1. InUse'
    BY <1>4 DEF UseSocket, GiveAddress, TakeAddress, Transfer, SyncTransfer, DataOnly
  <2> QED BY <2>1
<1>5. CASE EndService
  BY <1>5 DEF EndService, Live, Closed
<1>6. CASE UNCHANGED vars
  BY <1>1, <1>6 DEF vars, socketVars
<1> QED BY <1>2, <1>3, <1>4, <1>5, <1>6 DEF Next

\* The start condition: who waits, and who was told.
LEMMA ToldKept ==
  ASSUME IInv, [Next]_vars
  PROVE  ToldTooEarly'
<1> USE DEF ToldTooEarly
<1>1. CASE UNCHANGED <<service, threads, told, missed>>
  BY <1>1 DEF IInv
<1>2. CASE (Creation \/ ThreadsWaitedFor) /\ ServiceOnly
  <2>1. UNCHANGED <<told, missed>>
    BY <1>2 DEF ServiceOnly, runVars
  <2>2. CASE told = {}
    BY <2>1, <2>2
  <2>3. CASE told # {}
    <3>1. ThreadsWaitedFor
      BY <1>2, <2>3 DEF IInv, Creation, BeginCreation, NoService, NoThreadArray, CreateThread,
                        FinishCreation
    <3> QED BY <2>1, <3>1 DEF IInv, ThreadsWaitedFor, creationVars
  <2> QED BY <2>2, <2>3
<1>3. CASE Running
  <2>1. CASE EnterRun
    BY <2>1 DEF EnterRun
  <2>2. CASE RunAgain \/ Stop \/ StopReturns
    <3>1. UNCHANGED <<service, threads, told, missed>>
      BY <2>2 DEF RunAgain, Stop, StopReturns, runVars, creationVars
    <3> QED BY <1>1, <3>1
  <2>3. CASE LeaveRun \/ ReturnFromRun
    BY <2>3 DEF IInv, LeaveRun, ReturnFromRun, runVars
  <2>4. ASSUME NEW i \in DOMAIN threads, Broadcast(i)
        PROVE  ToldTooEarly'
    <3>1. /\ service = "running" /\ service' = service
          /\ told' = told \cup {i}
          /\ threads' = [threads EXCEPT ![i] = IF @ = "waiting" THEN "started" ELSE @]
          /\ missed' = IF threads[i] = "starting" THEN missed \cup {i} ELSE missed
      BY <2>4 DEF Broadcast, ThreadOnly
    <3> QED BY <3>1 DEF IInv
  <2>5. ASSUME NEW i \in DOMAIN threads, ResumeThread(i)
        PROVE  ToldTooEarly'
    BY <2>5 DEF IInv, ResumeThread, ThreadGoes, ThreadOnly
  <2> QED BY <1>3, <2>1, <2>2, <2>3, <2>4, <2>5 DEF Running
<1>4. CASE Threads
  <2>1. PICK i \in DOMAIN threads : Thread(i)
    BY <1>4 DEF Threads
  <2>2. UNCHANGED <<service, told, missed>>
    BY <2>1 DEF Thread, WaitForStart, StartSpuriously, EndThread, ThreadOnly
  <2>3. CASE WaitForStart(i)
    BY <2>2, <2>3 DEF IInv, WaitForStart, ThreadGoes
  <2>4. CASE StartSpuriously(i)
    BY <2>2, <2>4 DEF IInv, StartSpuriously, ThreadGoes
  <2>5. CASE EndThread(i)
    BY <2>2, <2>5 DEF IInv, EndThread, ThreadGoes
  <2> QED BY <2>1, <2>3, <2>4, <2>5 DEF Thread
<1>5. ASSUME NEW s \in Sockets, UseSocket(s)
      PROVE  ToldTooEarly'
  <2>1. UNCHANGED <<service, creationVars, runVars>>
    BY <1>5 DEF UseSocket, GiveAddress, TakeAddress, Transfer, SyncTransfer, DataOnly
  <2> QED BY <1>1, <2>1 DEF creationVars, runVars
<1>6. CASE EndService
  BY <1>6 DEF IInv, EndService, DestroyService, runVars
<1> QED BY <1>1, <1>2, <1>3, <1>4, <1>5, <1>6 DEF Next, vars, creationVars, runVars

\* The threads of a Win32IOService, stage by stage.
LEMMA StagesKept ==
  ASSUME IInv, [Next]_vars
  PROVE  ThreadsOfStage'
<1> USE DEF ThreadsOfStage, OnWin32, OnUnix
<1>1. CASE UNCHANGED <<backend, service, threads>>
  BY <1>1 DEF IInv
<1>2. CASE UNCHANGED backend /\ (Creation \/ ThreadsWaitedFor)
  <2>1. CASE BeginCreation \/ NoService \/ NoThreadArray
    BY <1>2, <2>1 DEF IInv, BeginCreation, NoService, NoThreadArray
  <2>2. CASE CreateThread
    <3>1. service = "creating" /\ service' = service
      BY <2>2 DEF CreateThread
    <3>2. CASE OnWin32
      <4>1. PICK i \in DOMAIN threads, new \in {"suspended", "missing"} :
              threads' = [threads EXCEPT ![i] = new]
        BY <2>2, <3>2 DEF CreateThread
      <4> QED BY <1>2, <3>1, <3>2, <4>1 DEF IInv
    <3> QED BY <1>2, <3>2
  <2>3. CASE FinishCreation
    BY <1>2, <2>3 DEF IInv, FinishCreation, creationVars
  <2>4. CASE ThreadsWaitedFor
    BY <1>2, <2>4 DEF IInv, ThreadsWaitedFor, creationVars
  <2> QED BY <1>2, <2>1, <2>2, <2>3, <2>4 DEF Creation
<1>3. CASE UNCHANGED backend /\ Running
  <2>1. CASE EnterRun
    BY <1>3, <2>1 DEF IInv, EnterRun
  <2>2. CASE RunAgain \/ Stop \/ StopReturns
    <3>1. UNCHANGED <<service, threads>>
      BY <2>2 DEF RunAgain, Stop, StopReturns, creationVars
    <3> QED BY <1>1, <1>3, <3>1
  <2>3. CASE LeaveRun \/ ReturnFromRun
    BY <1>3, <2>3 DEF IInv, LeaveRun, ReturnFromRun
  <2>4. ASSUME NEW i \in DOMAIN threads, Broadcast(i)
        PROVE  ThreadsOfStage'
    BY <1>3, <2>4 DEF Broadcast
  <2>5. ASSUME NEW i \in DOMAIN threads, ResumeThread(i)
        PROVE  ThreadsOfStage'
    BY <1>3, <2>5 DEF IInv, ResumeThread, ThreadGoes, ThreadOnly
  <2> QED BY <1>3, <2>1, <2>2, <2>3, <2>4, <2>5 DEF Running
<1>4. CASE UNCHANGED backend /\ Threads
  <2>1. PICK i \in DOMAIN threads : Thread(i)
    BY <1>4 DEF Threads
  <2>2. CASE OnWin32
    <3>1. UNCHANGED service
      BY <2>1 DEF Thread, WaitForStart, StartSpuriously, EndThread, ThreadOnly
    <3>2. threads[i] \notin {"starting", "waiting"}
      BY <2>2 DEF IInv, Services
    <3>3. EndThread(i)
      BY <2>1, <2>2, <3>2 DEF Thread, WaitForStart, StartSpuriously, ThreadGoes
    <3> QED BY <1>4, <2>2, <3>1, <3>3 DEF IInv, EndThread, ThreadGoes
  <2> QED BY <1>4, <2>2
<1>5. ASSUME UNCHANGED backend, NEW s \in Sockets, UseSocket(s)
      PROVE  ThreadsOfStage'
  <2>1. UNCHANGED <<service, creationVars>>
    BY <1>5 DEF UseSocket, GiveAddress, TakeAddress, Transfer, SyncTransfer, DataOnly
  <2> QED BY <1>1, <1>5, <2>1 DEF creationVars
<1>6. CASE UNCHANGED backend /\ EndService
  BY <1>6 DEF IInv, EndService, DestroyService
<1> QED BY <1>1, <1>2, <1>3, <1>4, <1>5, <1>6 DEF Next, vars, creationVars

\* What the calls pass on, from the lemmas about addresses and lengths.
LEMMA CallsKept ==
  ASSUME IInv, [Next]_vars
  PROVE  CallInv'
<1>1. CASE UNCHANGED lastCall
  BY <1>1 DEF IInv, CallInv, AddressesKeepTheirBytes, KernelStaysInBuffer
<1>2. CASE lastCall' = NoCall
  BY <1>2 DEF NoCall, CallInv, AddressesKeepTheirBytes, KernelStaysInBuffer
<1>3. CASE GiveAddress
  <2>1. PICK addr \in Addresses :
          lastCall' = [call |-> "bind", asked |-> addr, given |-> TranslateAddress(addr)]
    BY <1>3 DEF GiveAddress
  <2> QED BY <2>1, ProgramAssumption DEF CallInv, KernelStaysInBuffer
<1>4. CASE TakeAddress
  <2>1. /\ lastCall.asked \in IPv4Address
        /\ lastCall' = [call |-> "detranslate", asked |-> lastCall.asked,
                        back |-> DetranslateAddress(TranslateAddress(lastCall.asked))]
    BY <1>4 DEF TakeAddress, IInv, CallInv
  <2> QED BY <2>1, Mirrored DEF CallInv, AddressesKeepTheirBytes, KernelStaysInBuffer
<1>5. CASE Transfer
  <2>1. PICK ref \in Refs :
          \/ lastCall' = NoCall \/ lastCall' = lastCall
          \/ /\ ref = WholeBuffer(ref.bytes) \/ SliceAccepted(ref.bytes, ref.offset, ref.size)
             /\ ~TooBig(ref)
             /\ lastCall' = [call |-> "transfer", ref |-> ref, length |-> KernelLength(ref)]
    BY <1>5 DEF Transfer
  <2>2. ref \in BufferRefs
    BY ProgramAssumption
  <2> QED BY <1>1, <1>2, <2>1, <2>2, KernelLengthFits
         DEF CallInv, AddressesKeepTheirBytes, KernelStaysInBuffer
<1>6. CASE SyncTransfer
  <2>1. PICK size \in Sizes :
          lastCall' = [call |-> "sync", size |-> size, length |-> SyncLength(size)]
    BY <1>6 DEF SyncTransfer
  <2>2. size \in SizeT
    BY ProgramAssumption
  <2> QED BY <2>1, <2>2, SyncLengthExact DEF CallInv, AddressesKeepTheirBytes, KernelStaysInBuffer
<1> QED BY <1>1, <1>2, <1>3, <1>4, <1>5, <1>6 DEF Next, ServiceOnly, UseSocket, EndService, vars

-----------------------------------------------------------------------------
\* The parts hold together in every reachable state of every program.
THEOREM ProgramInvariance == Spec => []IInv
<1>1. ASSUME IInv, [Next]_vars
      PROVE  IInv'
  <2>1. service' \in Services /\ backend' \in {"win32", "unix"}
    <3>1. CASE UNCHANGED <<service, backend>>
      BY <1>1, <3>1 DEF IInv
    <3>2. CASE Next
      BY <1>1, <3>2 DEF IInv, Services, Next, Creation, BeginCreation, NoService, NoThreadArray,
           CreateThread, FinishCreation, ThreadsWaitedFor, Running, EnterRun, RunAgain, LeaveRun,
           Stop, StopReturns, ReturnFromRun, Broadcast, ResumeThread, ThreadOnly, Threads, Thread,
           WaitForStart, StartSpuriously, EndThread, UseSocket, GiveAddress, TakeAddress, Transfer,
           SyncTransfer, DataOnly, EndService, DestroyService
    <3> QED BY <1>1, <3>1, <3>2 DEF vars
  <2> QED BY <1>1, <2>1, HandlesKept, StartupsKept, NeedKept, ToldKept, StagesKept, CallsKept DEF IInv
<1> QED BY <1>1, InitIInv, PTL DEF Spec

\* Nobody takes the handle of a socket that is in use, on either backend, before
\* some other socket has been closed and then destroyed (close() keeps the number).
THEOREM HandlesStayOpen == Spec => []OpenUntilClosed
BY ProgramInvariance, PTL DEF IInv, HandleInv

\* The completion port reports on every such Win32Socket but those of accept().
THEOREM PortReportsOnSockets == Spec => []PortReports
BY ProgramInvariance, PTL DEF IInv, HandleInv

\* A service that is gone, or that could not be created, leaves behind nothing
\* but what the code is known to lose.
THEOREM NothingIsLeftBehind == Spec => []NothingLeftBehind
<1>1. IInv => NothingLeftBehind
  BY DEF IInv, StartupsBalance, SocketsNeedService, InUse, HandleInv, OpenHasOwner, NothingLeftBehind
<1> QED BY <1>1, ProgramInvariance, PTL

\* A Unix worker that sleeps after run() has broadcast every start condition was
\* broadcast to before it waited.
THEOREM SleepersWereMissed == Spec => []AsleepBecauseMissed
<1>1. IInv => AsleepBecauseMissed
  BY DEF IInv, ToldTooEarly, AsleepBecauseMissed
<1> QED BY <1>1, ProgramInvariance, PTL

\* bind and connect name the bytes of every address in network order;
\* detranslateAddress mirrors them.
THEOREM AddressBytes == Spec => []AddressesKeepTheirBytes
<1>1. IInv => AddressesKeepTheirBytes
  BY NetworkOrder DEF IInv, CallInv, AddressesKeepTheirBytes
<1> QED BY <1>1, ProgramInvariance, PTL

\* No transfer goes past the end of its buffer, whatever the slice says.
THEOREM KernelInBuffer == Spec => []KernelStaysInBuffer
BY ProgramInvariance, PTL DEF IInv, CallInv

\* Destruction of a Win32IOService waits for no thread that runs.
THEOREM NoThreadRunsOn == Spec => []DestroyedAtRest
<1>1. IInv => DestroyedAtRest
  BY DEF IInv, ThreadsOfStage, DestroyedAtRest
<1> QED BY <1>1, ProgramInvariance, PTL

-----------------------------------------------------------------------------
(* Types.                                                                  *)

LEMMA TwoBytes ==
  ASSUME NEW high \in Byte, NEW low \in Byte
  PROVE  256 * high + low \in Uint16
<1> DEFINE n == 256 * high + low
<1>1. n \in Nat /\ n <= Uint16Max /\ Uint16Max \in Nat
  BY SMT DEF Byte, Uint16Max
<1> HIDE DEF n
<1>2. n \in Uint16
  BY SMT, <1>1 DEF Uint16
<1> QED BY <1>2 DEF n

\* A port in network order is still a uint16_t.
LEMMA PortType ==
  ASSUME NEW addr \in IPv4Address
  PROVE  TranslateAddress(addr).sin_port \in Uint16
<1>1. PICK high \in Byte : high = addr.high
  BY SMT DEF IPv4Address
<1>2. PICK low \in Byte : low = addr.low
  BY SMT DEF IPv4Address
<1> DEFINE q == 256 * high + low
<1>3. q \in Nat /\ q % 256 = low /\ q \div 256 = high
  BY SMT DEF Byte
<1>4. TranslateAddress(addr).sin_port = Swapped(q)
  BY SMT, <1>1, <1>2 DEF TranslateAddress, Port
<1> HIDE DEF q
<1>5. Swapped(q) = 256 * low + high
  BY SMT, <1>3, SwappedBytes
<1>6. 256 * low + high \in Uint16
  BY TwoBytes
<1> QED BY <1>4, <1>5, <1>6

LEMMA BackType ==
  ASSUME NEW addr \in IPv4Address
  PROVE  DetranslateAddress(TranslateAddress(addr)) \in IPv4Address
BY SMT, Mirrored DEF IPv4Address

\* A length is one that a WSABUF can hold, a size one that a size_t can hold.
LEMMA LengthTypes ==
  ASSUME NEW ref \in BufferRefs, NEW size \in SizeT
  PROVE  KernelLength(ref) \in Ulong /\ SyncLength(size) \in SizeT
<1>1. SizeMax \in Nat /\ UlongMax \in Nat /\ UlongMax <= SizeMax
  BY BufferAssumption
<1>2. KernelLength(ref) \in Ulong
  BY <1>1 DEF KernelLength, BufferRefs, SizeT, Ulong
<1>3. SyncLength(size) \in SizeT
  BY <1>1 DEF SyncLength, SizeT
<1> QED BY <1>2, <1>3

\* The types of all variables but those of the handles and of the last call.
ServiceTypeOK ==
  /\ process \in {"up", "noPort", "runAssert", "stopAssert", "socketAssert", "systemCall",
                  "sliceAssert"}
  /\ \A i \in DOMAIN threads : threads[i] \in ThreadStates
  /\ attempts \in 0 .. MaxAttempts
  /\ startups \in 0 .. attempts
  /\ lostStartups \in 0 .. startups
  /\ isRunning \in BOOLEAN /\ stopping \in BOOLEAN
  /\ told \subseteq DOMAIN threads /\ missed \subseteq told

LEMMA ServiceTypesKept ==
  ASSUME IInv, ServiceTypeOK, [Next]_vars
  PROVE  ServiceTypeOK'
<1> USE DEF ServiceTypeOK
<1>1. CASE UNCHANGED <<process, creationVars, runVars>>
  BY <1>1 DEF creationVars, runVars
<1>2. CASE (Creation \/ ThreadsWaitedFor) /\ UNCHANGED runVars
  <2>1. CASE BeginCreation \/ NoService
    BY <1>2, <2>1, CreationAssumption DEF BeginCreation, NoService, Startup, OnWin32, runVars
  <2>2. CASE NoThreadArray
    <3>1. startups >= lostStartups /\ (OnWin32 => startups - 1 >= lostStartups)
      BY <2>2 DEF IInv, StartupsBalance, NoThreadArray
    <3> QED BY <1>2, <2>2, <3>1 DEF NoThreadArray, Startup, runVars
  <2>3. CASE CreateThread
    <3>1. PICK i \in DOMAIN threads, new \in {"suspended", "starting", "missing"} :
            threads' = [threads EXCEPT ![i] = new]
      BY <2>3 DEF CreateThread
    <3>2. UNCHANGED <<process, attempts, startups, lostStartups>>
      BY <2>3 DEF CreateThread
    <3> QED BY <1>2, <3>1, <3>2 DEF ThreadStates, runVars
  <2>4. CASE FinishCreation
    BY <1>2, <2>4 DEF FinishCreation, creationVars, runVars
  <2>5. CASE ThreadsWaitedFor
    BY <1>1, <1>2, <2>5 DEF ThreadsWaitedFor
  <2> QED BY <1>2, <2>1, <2>2, <2>3, <2>4, <2>5 DEF Creation
<1>3. CASE Running
  <2>1. CASE EnterRun \/ LeaveRun \/ ReturnFromRun
    BY <2>1 DEF EnterRun, LeaveRun, ReturnFromRun, CallOnly, runVars
  <2>2. CASE RunAgain \/ Stop \/ StopReturns
    BY <2>2 DEF RunAgain, Stop, StopReturns, creationVars, runVars
  <2>3. ASSUME NEW i \in DOMAIN threads, Broadcast(i)
        PROVE  ServiceTypeOK'
    <3>1. /\ told' = told \cup {i}
          /\ threads' = [threads EXCEPT ![i] = IF threads[i] = "waiting" THEN "started" ELSE threads[i]]
          /\ missed' = IF threads[i] = "starting" THEN missed \cup {i} ELSE missed
          /\ UNCHANGED <<attempts, startups, lostStartups, process, isRunning, stopping>>
      BY <2>3 DEF Broadcast, ThreadOnly
    <3>2. (IF threads[i] = "waiting" THEN "started" ELSE threads[i]) \in ThreadStates
      BY DEF ThreadStates
    <3> QED BY <3>1, <3>2
  <2>4. ASSUME NEW i \in DOMAIN threads, ResumeThread(i)
        PROVE  ServiceTypeOK'
    BY <2>4 DEF ResumeThread, ThreadGoes, ThreadOnly, ThreadStates
  <2> QED BY <1>3, <2>1, <2>2, <2>3, <2>4 DEF Running
<1>4. CASE Threads
  <2>1. PICK i \in DOMAIN threads, to \in {"waiting", "started", "ended"} :
          threads' = [threads EXCEPT ![i] = to]
    BY <1>4 DEF Threads, Thread, WaitForStart, StartSpuriously, EndThread, ThreadGoes
  <2>2. UNCHANGED <<attempts, startups, lostStartups, process, isRunning, stopping, told, missed>>
    BY <1>4 DEF Threads, Thread, WaitForStart, StartSpuriously, EndThread, ThreadOnly
  <2> QED BY <2>1, <2>2 DEF ThreadStates
<1>5. ASSUME NEW s \in Sockets, UseSocket(s)
      PROVE  ServiceTypeOK'
  <2>1. UNCHANGED <<creationVars, runVars>>
    BY <1>5 DEF UseSocket, GiveAddress, TakeAddress, Transfer, SyncTransfer, DataOnly, Next
  <2>2. process' \in {process, "socketAssert", "systemCall", "sliceAssert"}
    BY <1>5 DEF UseSocket, GiveAddress, TakeAddress, Transfer, SyncTransfer, SocketCall, CreateSocket,
                Close, Destroy, CallFails, Accept, AcceptAsync, AcceptAsyncStarts, AcceptAsyncFails
  <2> QED BY <2>1, <2>2 DEF creationVars, runVars
<1>6. CASE EndService
  <2>1. startups >= lostStartups /\ (OnWin32 => startups - 1 >= lostStartups)
    BY <1>6 DEF IInv, StartupsBalance, EndService, DestroyService
  <2> QED BY <1>6, <2>1 DEF EndService, DestroyService, Startup, runVars
<1> QED BY <1>1, <1>2, <1>3, <1>4, <1>5, <1>6 DEF Next, ServiceOnly, vars

LEMMA CallTypesKept ==
  ASSUME IInv, CallTypeOK, [Next]_vars
  PROVE  CallTypeOK'
<1>1. CASE UNCHANGED lastCall \/ lastCall' = NoCall
  BY <1>1 DEF CallTypeOK
<1>2. CASE GiveAddress
  <2>1. PICK addr \in Addresses :
          lastCall' = [call |-> "bind", asked |-> addr, given |-> TranslateAddress(addr)]
    BY <1>2 DEF GiveAddress
  <2>2. TranslateAddress(addr).sin_port \in Uint16
    BY PortType, ProgramAssumption
  <2> QED BY <2>1, <2>2 DEF CallTypeOK
<1>3. CASE TakeAddress
  <2>1. DetranslateAddress(lastCall.given) \in IPv4Address
    BY <1>3, BackType DEF TakeAddress, IInv, CallInv
  <2> QED BY SMT, <1>3, <2>1 DEF TakeAddress, CallTypeOK
<1>4. CASE Transfer
  <2>1. PICK ref \in Refs :
          \/ lastCall' = NoCall \/ lastCall' = lastCall
          \/ lastCall' = [call |-> "transfer", ref |-> ref, length |-> KernelLength(ref)]
    BY <1>4 DEF Transfer
  <2>2. KernelLength(ref) \in Ulong
    <3>1. ref \in BufferRefs /\ 0 \in SizeT
      BY ProgramAssumption, BufferAssumption DEF SizeT
    <3> QED BY <3>1, LengthTypes
  <2> QED BY <1>1, <2>1, <2>2 DEF CallTypeOK
<1>5. CASE SyncTransfer
  <2>1. PICK size \in Sizes :
          lastCall' = [call |-> "sync", size |-> size, length |-> SyncLength(size)]
    BY <1>5 DEF SyncTransfer
  <2>2. SyncLength(size) \in SizeT
    <3>1. size \in SizeT /\ BufferRef(0, 0, 0) \in BufferRefs
      BY ProgramAssumption, BufferAssumption DEF SizeT, BufferRef, BufferRefs
    <3> QED BY <3>1, LengthTypes
  <2> QED BY <2>1, <2>2 DEF CallTypeOK
<1> QED BY <1>1, <1>2, <1>3, <1>4, <1>5 DEF Next, ServiceOnly, UseSocket, EndService, vars

\* Every variable keeps its type, whatever the constants are.
THEOREM TypeCorrect == Spec => []TypeOK
<1>1. Init => ServiceTypeOK /\ CallTypeOK
  <2> SUFFICES ASSUME Init PROVE ServiceTypeOK /\ CallTypeOK
    OBVIOUS
  <2>1. \A i \in DOMAIN threads : threads[i] \in ThreadStates
    BY DEF Init, CreationInit, ThreadStates
  <2>2. /\ process = "up" /\ attempts = 0 /\ startups = 0 /\ lostStartups = 0
        /\ told = {} /\ missed = {}
    BY DEF Init, CreationInit, RunInit
  <2>3. isRunning \in BOOLEAN /\ stopping \in BOOLEAN
    BY DEF Init, RunInit
  <2>4. 0 \in 0 .. MaxAttempts /\ 0 \in 0 .. 0
    BY CreationAssumption
  <2>5. ServiceTypeOK
    BY Zenon, <2>1, <2>2, <2>3, <2>4 DEF ServiceTypeOK
  <2>6. CallTypeOK
    BY DEF Init, CallTypeOK
  <2> QED BY <2>5, <2>6
<1>2. IInv /\ ServiceTypeOK /\ CallTypeOK /\ [Next]_vars => (ServiceTypeOK /\ CallTypeOK)'
  BY ServiceTypesKept, CallTypesKept
<1>3. IInv /\ ServiceTypeOK /\ CallTypeOK => TypeOK
  BY DEF IInv, HandleInv, ServiceTypeOK, TypeOK
<1> QED BY <1>1, <1>2, <1>3, ProgramInvariance, PTL DEF Spec
=============================================================================
