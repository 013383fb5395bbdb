--------------------------- MODULE ClientProgram ---------------------------
(***************************************************************************)
(* A program that creates a service, runs it, uses its sockets and destroys*)
(* it, on either backend, with the calls' arguments as the kernel gets     *)
(* them.  The program follows the rules a user would read from the headers:*)
(* it uses sockets while it has a service, closes a socket once, and has   *)
(* closed all of them before it destroys the service.                      *)
(***************************************************************************)
EXTENDS ServiceThreads, SocketHandles, IPv4Addresses, IOBuffers

CONSTANTS
  Addresses,  \* the IPv4Addresses it binds and connects to
  Refs,       \* the buffer references it makes
  Sizes       \* the sizes it reads and writes synchronously

ASSUME ProgramAssumption ==
  /\ Addresses \subseteq IPv4Address
  /\ Refs \subseteq BufferRefs
  /\ Sizes \subseteq SizeT

VARIABLE lastCall  \* history: what the last socket call passed on

vars == <<backend, process, service, creationVars, runVars, socketVars, lastCall>>

NoCall == [call |-> "none"]

Init ==
  /\ CreationInit
  /\ RunInit
  /\ SocketsInit
  /\ lastCall = NoCall

InUse == service \in {"ready", "running", "returned"}

ServiceOnly == UNCHANGED <<runVars, socketVars, lastCall>>

DataOnly == UNCHANGED <<service, creationVars, runVars, socketVars>>

\* bind or connect, after translateAddress.
GiveAddress ==
  /\ \E addr \in Addresses :
       lastCall' = [call |-> "bind", asked |-> addr, given |-> TranslateAddress(addr)]
  /\ DataOnly /\ UNCHANGED process

\* detranslateAddress of what translateAddress made.
TakeAddress ==
  /\ lastCall.call = "bind"
  /\ lastCall' = [call |-> "detranslate", asked |-> lastCall.asked,
                  back |-> DetranslateAddress(lastCall.given)]
  /\ DataOnly /\ UNCHANGED process

\* An RcBufferRef is made and given to readAsync or writeAsync.
Transfer ==
  /\ OnWin32
  /\ \E ref \in Refs :
       IF ref = WholeBuffer(ref.bytes) \/ SliceAccepted(ref.bytes, ref.offset, ref.size)
       THEN /\ lastCall' = IF TooBig(ref) THEN NoCall
                           ELSE [call |-> "transfer", ref |-> ref, length |-> KernelLength(ref)]
            /\ UNCHANGED process
       ELSE process' = "sliceAssert" /\ UNCHANGED lastCall
  /\ DataOnly

\* read or write.
SyncTransfer ==
  /\ \E size \in Sizes :
       lastCall' = [call |-> "sync", size |-> size, length |-> SyncLength(size)]
  /\ DataOnly /\ UNCHANGED process

\* Bound: calls with data are made on the first socket, before there is another.
Alone(s) == \A t \in Sockets \ {s} : sockets[t].state = "none"

UseSocket(s) ==
  /\ InUse
  /\ \/ /\ SocketCall(s)
        /\ lastCall' = NoCall
        /\ UNCHANGED <<service, creationVars, runVars>>
     \/ Usable(s) /\ Alone(s) /\ (GiveAddress \/ TakeAddress \/ Transfer \/ SyncTransfer)

\* The last WSACleanup closes the handles that are left.
EndService ==
  /\ ~stopping
  /\ \A s \in Sockets : Live(s) => Closed(s)
  /\ DestroyService
  /\ IF OnWin32 /\ startups' = 0 THEN open' = {} /\ attached' = {} ELSE UNCHANGED <<open, attached>>
  /\ UNCHANGED <<runVars, sockets, leaked, lastCall>>

Threads == \E i \in DOMAIN threads : Thread(i)

Next ==
  /\ process = "up"
  /\ UNCHANGED backend
  /\ \/ (Creation \/ ThreadsWaitedFor) /\ ServiceOnly
     \/ (Running \/ Threads) /\ UNCHANGED <<socketVars, lastCall>>
     \/ \E s \in Sockets : UseSocket(s)
     \/ EndService

Spec == Init /\ [][Next]_vars

-----------------------------------------------------------------------------
CallTypeOK ==
  \/ lastCall = NoCall
  \/ /\ lastCall.call = "bind"
     /\ lastCall.asked \in Addresses
     /\ lastCall.given.sin_port \in Uint16
  \/ lastCall.call = "detranslate" /\ lastCall.back \in IPv4Address
  \/ lastCall.call = "transfer" /\ lastCall.length \in Ulong
  \/ lastCall.call = "sync" /\ lastCall.length \in SizeT

\* Every variable has its type: thread states, socket objects, handles and the
\* arguments of the last call.
TypeOK ==
  /\ backend \in {"win32", "unix"}
  /\ process \in {"up", "noPort", "runAssert", "stopAssert", "socketAssert", "systemCall",
                  "sliceAssert"}
  /\ service \in Services
  /\ \A i \in DOMAIN threads : threads[i] \in ThreadStates
  /\ attempts \in 0 .. MaxAttempts
  /\ startups \in 0 .. attempts
  /\ lostStartups \in 0 .. startups
  /\ isRunning \in BOOLEAN /\ stopping \in BOOLEAN
  /\ told \subseteq DOMAIN threads /\ missed \subseteq told
  /\ SocketsTypeOK
  /\ CallTypeOK

\* When a service is gone, or could not be created, nothing of it is left but
\* what the code is known to lose: the WSAStartup of a creation that got no
\* memory for the service, and handles of accept and acceptAsync.
NothingLeftBehind ==
  service \in {"none", "gone"} =>
    /\ startups = lostStartups
    /\ open \subseteq leaked

\* A Unix thread still waits to be started, after run() has told them all, only
\* if it was told before it waited.
AsleepBecauseMissed ==
  service \in {"running", "returned"} /\ told = DOMAIN threads =>
    \A i \in DOMAIN threads : threads[i] = "waiting" => i \in missed

\* bind and connect name the bytes of the address in network order;
\* detranslateAddress gives them back in the opposite order.
AddressesKeepTheirBytes ==
  /\ lastCall.call = "bind" => Image(lastCall.given) = lastCall.asked
  /\ lastCall.call = "detranslate" =>
       lastCall.back = [a |-> lastCall.asked.d, b |-> lastCall.asked.c, c |-> lastCall.asked.b,
                        d |-> lastCall.asked.a, high |-> lastCall.asked.low,
                        low |-> lastCall.asked.high]

\* The kernel never goes past the end of the buffer, although a slice may say
\* more, and a whole buffer is used whole.  A synchronous call asks for what it
\* was told up to the largest int.
KernelStaysInBuffer ==
  /\ lastCall.call = "transfer" =>
       /\ lastCall.ref.offset + lastCall.length <= lastCall.ref.bytes
       /\ lastCall.ref = WholeBuffer(lastCall.ref.bytes) => lastCall.length = lastCall.ref.size
  /\ lastCall.call = "sync" /\ lastCall.size <= UlongMax \div 2 => lastCall.length = lastCall.size

\* A Win32IOService that is being destroyed waits for no thread that could still
\* use it: only for threads that have ended or, for ever, for those of a service
\* that was never run.
DestroyedAtRest ==
  service \in {"destroying", "gone"} /\ OnWin32 =>
    \A i \in DOMAIN threads : threads[i] \in {"missing", "ended", "suspended"}
=============================================================================
