----------------------------- MODULE HttpServer -----------------------------
(***************************************************************************)
(* The example server as a whole: main() registers handlers, runs the I/O  *)
(* service and takes the server down; worker threads run the callbacks of  *)
(* the accept and of every connection; the kernel completes their          *)
(* operations.  Every head of a request is received into the one buffer of *)
(* the accept callback.                                                    *)
(*                                                                         *)
(* The service is taken at its promise (module AsyncOperation): a callback *)
(* runs at most once, after its operation; how it keeps that is module     *)
(* Win32IOService.  The heads are cut where HttpRequestReader keeps them   *)
(* intact, and a head that is parsed from the bytes of its own client      *)
(* gives that client's request, which is one that HttpRequestReader calls  *)
(* supported.                                                              *)
(***************************************************************************)
EXTENDS HandlerRegistry, ResponseStage, Integers, FiniteSetsExt

CONSTANTS
  Clients,    \* peers; each connects at most once
  NoClient,
  Workers,    \* worker threads of the I/O service
  Requests,   \* what a client may ask
  Pieces,     \* number of reads a head may arrive in
  StopPath    \* the path whose handler calls stop()

FaultKinds == {"oom", "refused", "unreported", "failed", "pending", "handler"}

\* The parts of a request target that the server tells apart.
Delimiters == {"?", "#"}

ASSUME ServerAssumption ==
  /\ Clients \cap {NoClient, "none", "armed", "failed", "accept"} = {}
  /\ Faults \subseteq FaultKinds
  /\ Pieces \in Nat \ {0}
  /\ \A r \in Requests :
       /\ r.target \in Seq(STRING) /\ r.target # <<>>
       /\ r.method \in STRING
       /\ r.body \in BOOLEAN

VARIABLES
  serving,      \* how far main() is
  isRunning,    \* Win32IOService::_isRunning
  acceptOp,     \* the accept in flight: "none", "armed", "failed", or whom it got
  conn,         \* conn[c]: the connection object of client c
  connections,  \* HttpServer::connections
  destroyed,    \* destroyed[c]: how often ~Connection ran on it
  op,           \* op[c]: the operation of the connection
  received,     \* received[c]: pieces of the head the kernel delivered
  buffer,       \* whose bytes HttpAcceptAsyncCallback::buffer holds
  worker,       \* what each worker thread is doing, and for which client
  request,      \* what each client asks, once its head is there, or what was parsed
  answer,       \* responseData of the clients whose answer was written
  answered,     \* those clients
  corrupt,      \* clients for whom another client's bytes were parsed
  shared,       \* history: two heads were being received at one time
  unreported    \* history: refused calls whose error was lost

connVars   == <<conn, connections, destroyed>>
answerVars == <<answer, answered>>
history    == <<shared, unreported>>
vars == <<registryVars, process, serving, isRunning, acceptOp, connVars, op, received,
          buffer, worker, request, answerVars, corrupt, history>>

NoRequest == [target |-> <<>>, method |-> "", body |-> FALSE]

NoOp == [what |-> "none", at |-> "none"]
Operation(what, at) == [what |-> what, at |-> at]
Operations == {NoOp} \cup [what : {"head", "body", "write"}, at : {"pending", "queued", "failed"}]

Doing(what, c) == [at |-> what, client |-> c]
Idle == Doing("idle", NoClient)
Busy == {"accepting", "rearming", "readingHead", "readingBody"}
WorkerStates == [at : Busy \cup {"idle", "ended", "threw"}, client : Clients \cup {NoClient}]

Init ==
  /\ RegistryInit
  /\ process     = "up"
  /\ serving     = "setup"
  /\ isRunning   = FALSE
  /\ acceptOp    = "armed"
  /\ conn        = [c \in Clients |-> "none"]
  /\ connections = {}
  /\ destroyed   = [c \in Clients |-> 0]
  /\ op          = [c \in Clients |-> NoOp]
  /\ received    = [c \in Clients |-> 0]
  /\ buffer      = NoClient
  /\ worker      = [w \in Workers |-> Idle]
  /\ request     = [c \in Clients |-> NoRequest]
  /\ answer      = [c \in Clients |-> <<>>]
  /\ answered    = {}
  /\ corrupt     = {}
  /\ shared      = FALSE
  /\ unreported  = {}

\* Clients whose head is being received or is about to be parsed.
HeadReaders ==
  {c \in Clients : op[c].what = "head"} \cup
  {worker[w].client : w \in {v \in Workers : worker[v].at = "readingHead"}}

\* The accept callback, with its buffer, lives as long as main() or an accept
\* refers to it.
AcceptCallbackAlive ==
  \/ serving \notin {"released", "destroyed"}
  \/ acceptOp # "none"
  \/ \E w \in Workers : worker[w].at \in {"accepting", "rearming"}

Ends(reason) == process' = reason

-----------------------------------------------------------------------------
(* main().                                                                 *)

\* The example ends when a registration fails; a program may also try again.
RegisterHandlers ==
  /\ serving = "setup"
  /\ \E h \in Handlers : RegisterHandler(h[1], h[2])
  /\ UNCHANGED <<serving, isRunning, acceptOp, connVars, op, received, buffer, worker,
                 request, answerVars, corrupt, unreported>>

MainOnly == UNCHANGED <<registryVars, received, buffer, worker, request, answerVars,
                        corrupt, unreported>>

\* main() runs the service only when every handler is registered.
EnterRun ==
  /\ serving = "setup"
  /\ registered = Handlers
  /\ serving' = "running"
  /\ isRunning' = TRUE
  /\ MainOnly /\ UNCHANGED <<process, acceptOp, connVars, op>>

\* run() is woken by stop(), by a failed callback, or for no reason, and posts
\* the packets that end the workers.
LeaveSleep ==
  /\ serving = "running"
  /\ serving' = "stopping"
  /\ MainOnly /\ UNCHANGED <<process, isRunning, acceptOp, connVars, op>>

Joined == \A w \in Workers : worker[w].at \in {"ended", "threw"}

\* Mutant: main() does not look at what run() returned.
ReturnFromRunIgnored ==
  /\ serving = "stopping"
  /\ Joined
  /\ serving' = "returned"
  /\ MainOnly /\ UNCHANGED <<process, isRunning, acceptOp, connVars, op>>

\* run() returns an exception of a worker, and main() ends the process.
ReturnFromRun ==
  /\ serving = "stopping"
  /\ Joined
  /\ \/ /\ \E w \in Workers : worker[w].at = "threw"
        /\ Ends("runFailed")
        /\ UNCHANGED serving
     \/ /\ \A w \in Workers : worker[w].at # "threw"
        /\ serving' = "returned"
        /\ UNCHANGED process
  /\ MainOnly /\ UNCHANGED <<isRunning, acceptOp, connVars, op>>

\* acceptAsyncTask and callback go out of scope before httpServer does.
ReleaseCallback ==
  /\ serving = "returned"
  /\ serving' = "released"
  /\ MainOnly /\ UNCHANGED <<process, isRunning, acceptOp, connVars, op>>

\* The connections go, and with them their sockets and what they had in
\* flight; then the server's socket.
DestroyServer ==
  /\ serving = "released"
  /\ serving' = "destroyed"
  /\ destroyed' = [c \in Clients |-> destroyed[c] + (IF c \in connections THEN 1 ELSE 0)]
  /\ conn' = [c \in Clients |-> IF c \in connections THEN "destroyed" ELSE conn[c]]
  /\ op' = [c \in Clients |-> NoOp]
  /\ connections' = {}
  /\ acceptOp' = "none"
  /\ MainOnly /\ UNCHANGED <<process, isRunning>>

MainStep ==
  \/ RegisterHandlers \/ EnterRun \/ LeaveSleep
  \/ ReturnFromRun \/ ReleaseCallback \/ DestroyServer

-----------------------------------------------------------------------------
(* The kernel completes operations, before run() and after it, too.        *)

KernelOnly == UNCHANGED <<registryVars, process, serving, isRunning, connVars, worker,
                          answerVars, corrupt, unreported>>

Connects(c) ==
  /\ acceptOp = "armed"
  /\ conn[c] = "none"
  /\ acceptOp' = c
  /\ KernelOnly /\ UNCHANGED <<request, op, received, buffer>>

ReceivesHead(c) ==
  /\ op[c] = Operation("head", "pending")
  /\ received[c] < Pieces
  /\ received' = [received EXCEPT ![c] = @ + 1]
  /\ buffer' = c
  /\ op' = [op EXCEPT ![c] = Operation("head", "queued")]
  /\ \/ received'[c] = Pieces /\ \E r \in Requests : request' = [request EXCEPT ![c] = r]
     \/ received'[c] < Pieces /\ UNCHANGED request
  /\ KernelOnly /\ UNCHANGED acceptOp

\* Mutant: the body is received into the buffer of the heads.
ReceivesBodyShared(c) ==
  /\ op[c] = Operation("body", "pending")
  /\ op' = [op EXCEPT ![c] = Operation("body", "queued")]
  /\ buffer' = c
  /\ KernelOnly /\ UNCHANGED <<request, acceptOp, received>>

\* Into HttpReadAsyncCallback::body, which is the connection's own.
ReceivesBody(c) ==
  /\ op[c] = Operation("body", "pending")
  /\ op' = [op EXCEPT ![c] = Operation("body", "queued")]
  /\ KernelOnly /\ UNCHANGED <<request, acceptOp, received, buffer>>

Sends(c) ==
  /\ op[c] = Operation("write", "pending")
  /\ op' = [op EXCEPT ![c] = Operation("write", "queued")]
  /\ KernelOnly /\ UNCHANGED <<request, acceptOp, received, buffer>>

\* An operation in flight fails.
Fails ==
  /\ "failed" \in Faults
  /\ \/ /\ acceptOp = "armed"
        /\ acceptOp' = "failed"
        /\ UNCHANGED op
     \/ /\ \E c \in Clients :
             /\ op[c].at = "pending"
             /\ op' = [op EXCEPT ![c] = Operation(op[c].what, "failed")]
        /\ UNCHANGED acceptOp
  /\ KernelOnly /\ UNCHANGED <<request, received, buffer>>

KernelStep ==
  \/ Fails
  \/ \E c \in Clients : Connects(c) \/ ReceivesHead(c) \/ ReceivesBody(c) \/ Sends(c)

-----------------------------------------------------------------------------
(* Worker threads.  A callback's steps are separate where the kernel or    *)
(* another worker may act in between.                                      *)

Goes(w, what, c) == worker' = [worker EXCEPT ![w] = Doing(what, c)]
GoesIdle(w) == worker' = [worker EXCEPT ![w] = Idle]

\* The callback returns an exception: the worker ends, and run() will find it.
Throws(w) == worker' = [worker EXCEPT ![w].at = "threw"]

\* The error of a refused call cannot be allocated, and its null pointer is
\* taken for success.
LosesError(what) == "unreported" \in Faults /\ unreported' = unreported \cup {what}

MayThrow == Faults \cap {"oom", "refused"} # {}

\* A packet is taken from the port.
TakeOnly == UNCHANGED <<registryVars, process, serving, isRunning, connVars, received, buffer,
                        request, answerVars, corrupt>>

TakeAccept(w) ==
  /\ acceptOp \in Clients
  /\ Goes(w, "accepting", acceptOp)
  /\ acceptOp' = "none"
  /\ TakeOnly /\ UNCHANGED <<op, unreported>>

TakeRead(w, c) ==
  /\ \/ op[c] = Operation("head", "queued") /\ Goes(w, "readingHead", c)
     \/ op[c] = Operation("body", "queued") /\ Goes(w, "readingBody", c)
  /\ op' = [op EXCEPT ![c] = NoOp]
  /\ TakeOnly /\ UNCHANGED <<acceptOp, unreported>>

\* HttpWriteAsyncCallback::onStatusChanged does nothing.
TakeWrite(w, c) ==
  /\ op[c] = Operation("write", "queued")
  /\ op' = [op EXCEPT ![c] = NoOp]
  /\ TakeOnly /\ UNCHANGED <<acceptOp, unreported, worker>>

\* A failed operation ends the worker that learns of it, and only run(), if it
\* is ever woken, finds the exception.
TakeFailure(w) ==
  /\ \/ /\ acceptOp = "failed"
        /\ acceptOp' = "none"
        /\ UNCHANGED op
        /\ \/ Goes(w, "threw", NoClient) /\ UNCHANGED unreported
           \/ Goes(w, "ended", NoClient) /\ LosesError("accept")
     \/ \E c \in Clients :
          /\ op[c].at = "failed"
          /\ op' = [op EXCEPT ![c] = NoOp]
          /\ UNCHANGED acceptOp
          /\ \/ Goes(w, "threw", c) /\ UNCHANGED unreported
             \/ Goes(w, "ended", c) /\ LosesError(c)
  /\ TakeOnly

TakePill(w) ==
  /\ serving = "stopping"
  /\ Goes(w, "ended", NoClient)
  /\ TakeOnly /\ UNCHANGED <<acceptOp, op, unreported>>

TakePacket(w) ==
  /\ worker[w] = Idle
  /\ serving \in {"running", "stopping"}
  /\ \/ TakeAccept(w) \/ TakeFailure(w) \/ TakePill(w)
     \/ \E c \in Clients : TakeRead(w, c) \/ TakeWrite(w, c)

-----------------------------------------------------------------------------
(* HttpAcceptAsyncCallback::onAccepted.                                    *)

AcceptOnly == UNCHANGED <<registryVars, process, serving, isRunning, received, buffer, request,
                          answerVars, corrupt>>

\* No memory for the connection: the socket is closed.
NoConnection(w, c) ==
  /\ "oom" \in Faults
  /\ conn' = [conn EXCEPT ![c] = "refused"]
  /\ Throws(w)
  /\ UNCHANGED <<connections, destroyed, op, unreported>>

\* addConnection fails: its temporary UniquePtr destroys the connection, and so
\* does the caller's.
NotAdded(w, c) ==
  /\ "oom" \in Faults
  /\ conn' = [conn EXCEPT ![c] = "destroyed"]
  /\ destroyed' = [destroyed EXCEPT ![c] = @ + 2]
  /\ Throws(w)
  /\ UNCHANGED <<connections, op, unreported>>

\* The callback or the first read fails: conn is destroyed, and stays in the
\* set.
NotRead(w, c) ==
  /\ MayThrow
  /\ conn' = [conn EXCEPT ![c] = "destroyed"]
  /\ destroyed' = [destroyed EXCEPT ![c] = @ + 1]
  /\ connections' = connections \cup {c}
  /\ Throws(w)
  /\ UNCHANGED <<op, unreported>>

\* The head is being read, or so the callback believes; conn.release().
Opened(w, c) ==
  /\ conn' = [conn EXCEPT ![c] = "open"]
  /\ connections' = connections \cup {c}
  /\ \/ op' = [op EXCEPT ![c] = Operation("head", "pending")] /\ UNCHANGED unreported
     \/ LosesError(c) /\ UNCHANGED op
  /\ Goes(w, "rearming", c)
  /\ UNCHANGED destroyed

OnAccepted(w) ==
  /\ worker[w].at = "accepting"
  /\ LET c == worker[w].client
     IN NoConnection(w, c) \/ NotAdded(w, c) \/ NotRead(w, c) \/ Opened(w, c)
  /\ AcceptOnly /\ UNCHANGED acceptOp

\* Mutant: the connection is given up only after acceptAsync succeeded.
RearmBeforeRelease(w) ==
  /\ worker[w].at = "rearming"
  /\ \/ acceptOp' = "armed" /\ GoesIdle(w) /\ UNCHANGED <<unreported, conn, destroyed>>
     \/ /\ MayThrow /\ Throws(w) /\ UNCHANGED <<acceptOp, unreported>>
        /\ conn' = [conn EXCEPT ![worker[w].client] = "destroyed"]
        /\ destroyed' = [destroyed EXCEPT ![worker[w].client] = @ + 1]
  /\ AcceptOnly /\ UNCHANGED <<connections, op>>

\* Mutant: the accept is not posted again.
RearmForgotten(w) ==
  /\ worker[w].at = "rearming"
  /\ GoesIdle(w)
  /\ AcceptOnly /\ UNCHANGED <<connVars, op, acceptOp, unreported>>

\* acceptAsync, so that the next client is accepted.
Rearm(w) ==
  /\ worker[w].at = "rearming"
  /\ \/ acceptOp' = "armed" /\ GoesIdle(w) /\ UNCHANGED unreported
     \/ MayThrow /\ Throws(w) /\ UNCHANGED <<acceptOp, unreported>>
     \/ LosesError("accept") /\ GoesIdle(w) /\ UNCHANGED acceptOp
  /\ AcceptOnly /\ UNCHANGED <<connVars, op>>

-----------------------------------------------------------------------------
(* HttpReadAsyncCallback::onStatusChanged, once a read has completed.      *)

\* Where a delimiter is first in a target; 0 is npos.
First(mark, target) ==
  LET found == {i \in DOMAIN target : target[i] = mark}
  IN IF found = {} THEN 0 ELSE Min(found)

\* A question mark after the number sign is refused.
BadTarget(target) == First("#", target) # 0 /\ First("?", target) > First("#", target)

\* Mutant: without a fragment, the query stays in the path.
PathWithQuery(target) ==
  LET ends == {First(mark, target) : mark \in {"#"}} \ {0}
  IN IF ends = {} THEN target ELSE SubSeq(target, 1, Min(ends) - 1)

\* rawPath up to its query or, without one, its fragment.
PathOf(target) ==
  LET ends == {First(mark, target) : mark \in Delimiters} \ {0}
  IN IF ends = {} THEN target ELSE SubSeq(target, 1, Min(ends) - 1)

\* What is done with a request: a handler is called, or a status is answered.
Statuses == {"400 Bad Request", "404 Not Found", "405 Method Not Allowed"}

Route(r) ==
  LET path == PathOf(r.target) IN
  IF BadTarget(r.target) THEN "400 Bad Request"
  ELSE IF path \notin DOMAIN handlerRegistries THEN "404 Not Found"
  ELSE IF r.method \notin handlerRegistries[path] THEN "405 Method Not Allowed"
  ELSE IF path = StopPath THEN "stop" ELSE "handler"

\* writeAsync of the response, through a new HttpWriteAsyncCallback.  A send
\* that does not complete at once ends the process.
Written(w, c, data) ==
  /\ answer' = [answer EXCEPT ![c] = data]
  /\ answered' = answered \cup {c}
  /\ op' = [op EXCEPT ![c] = Operation("write", "pending")]
  /\ GoesIdle(w)
  /\ UNCHANGED <<process, unreported>>

WriteFails(w, c) ==
  /\ \/ MayThrow /\ Throws(w) /\ UNCHANGED <<process, unreported>>
     \/ "pending" \in Faults /\ Ends("unmappedError") /\ UNCHANGED <<worker, unreported>>
     \/ LosesError(c) /\ GoesIdle(w) /\ UNCHANGED process
  /\ UNCHANGED <<answerVars, op>>

Respond(w, c, data) == Written(w, c, data) \/ WriteFails(w, c)

\* An error response; what writeResponse returns is dropped, and dropping an
\* exception is an assertion failure.
RespondStatus(w, c, status) ==
  \E r \in WriteResponse(status) :
    \/ r.result = "ok" /\ Respond(w, c, r.data)
    \/ /\ r.result = "wrongStage" \/ (r.result = "outOfMemory" /\ "oom" \in Faults)
       /\ Ends(IF r.result = "wrongStage" THEN "wrongStage" ELSE "unhandledAssert")
       /\ UNCHANGED <<answerVars, op, worker, unreported>>

\* A handler has the state as a const reference and cannot write to it: its
\* response is empty.
RunHandler(w, c, what) ==
  \/ /\ what = "stop" /\ ~isRunning
     /\ Ends("stopAssert")
     /\ UNCHANGED <<answerVars, op, worker, unreported, isRunning>>
  \/ /\ what = "stop" /\ isRunning
     /\ isRunning' = FALSE
     /\ Respond(w, c, <<>>)
  \/ /\ what = "handler"
     /\ \/ Respond(w, c, <<>>)
        \/ /\ "handler" \in Faults
           /\ Throws(w)
           /\ UNCHANGED <<answerVars, op, process, unreported>>
     /\ UNCHANGED isRunning

Answer(w, c, what) ==
  \/ what \in Statuses /\ RespondStatus(w, c, what) /\ UNCHANGED isRunning
  \/ RunHandler(w, c, what)

\* readAsync for more of the head (readNext) or for the body.
PostRead(w, c, what) ==
  /\ \/ /\ op' = [op EXCEPT ![c] = Operation(what, "pending")]
        /\ GoesIdle(w) /\ UNCHANGED unreported
     \/ MayThrow /\ Throws(w) /\ UNCHANGED <<op, unreported>>
     \/ LosesError(c) /\ GoesIdle(w) /\ UNCHANGED op
  /\ UNCHANGED <<answerVars, process, isRunning>>

ReadOnly == UNCHANGED <<registryVars, serving, acceptOp, connVars, received, buffer>>

\* Mutant: no [[fallthrough]] from the header to the body.
HeadParsedBreaks(w, c, r) ==
  /\ request' = [request EXCEPT ![c] = r]
  /\ \/ r.body /\ PostRead(w, c, "body")
     \/ /\ ~r.body /\ GoesIdle(w)
        /\ UNCHANGED <<answerVars, op, process, isRunning, unreported>>

\* The whole head was parsed, as request r.
HeadParsed(w, c, r) ==
  /\ request' = [request EXCEPT ![c] = r]
  /\ \/ r.body /\ PostRead(w, c, "body")
     \/ ~r.body /\ Answer(w, c, Route(r))

\* The callback parses what the buffer holds now.  With another client's bytes
\* in it, it may find any request, none yet, or none at all.
OnHeadRead(w) ==
  /\ worker[w].at = "readingHead"
  /\ LET c == worker[w].client IN
       /\ corrupt' = IF buffer = c THEN corrupt ELSE corrupt \cup {c}
       /\ \/ /\ received[c] < Pieces \/ c \in corrupt'
             /\ PostRead(w, c, "head")
             /\ UNCHANGED request
          \/ /\ received[c] = Pieces /\ c \notin corrupt'
             /\ HeadParsed(w, c, request[c])
          \/ /\ c \in corrupt'
             /\ \E r \in Requests : HeadParsed(w, c, r)
          \/ /\ c \in corrupt'
             /\ Ends("parseError")
             /\ UNCHANGED <<answerVars, op, worker, unreported, isRunning, request>>
  /\ ReadOnly

OnBodyRead(w) ==
  /\ worker[w].at = "readingBody"
  /\ LET c == worker[w].client IN Answer(w, c, Route(request[c]))
  /\ ReadOnly /\ UNCHANGED <<corrupt, request>>

WorkerStep(w) ==
  TakePacket(w) \/ OnAccepted(w) \/ Rearm(w) \/ OnHeadRead(w) \/ OnBodyRead(w)

-----------------------------------------------------------------------------
Next ==
  /\ process = "up"
  /\ MainStep \/ KernelStep \/ \E w \in Workers : WorkerStep(w)
  /\ shared' = (shared \/ Cardinality(HeadReaders') > 1)

Spec == Init /\ [][Next]_vars

Moves(A) == process = "up" /\ A /\ shared' = (shared \/ Cardinality(HeadReaders') > 1)

\* A worker that can take a step takes one, and the peers of open connections
\* send all of their requests (of which there are finitely many pieces).
FairSpec ==
  /\ Spec
  /\ \A w \in Workers : WF_vars(Moves(WorkerStep(w)))
  /\ WF_vars(Moves(\E c \in Clients : ReceivesHead(c) \/ ReceivesBody(c)))
-----------------------------------------------------------------------------
(* Properties.                                                             *)

\* Every variable has the type its declaration says.
TypeOK ==
  /\ \A name \in DOMAIN handlerRegistries :
       {name} \X handlerRegistries[name] \subseteq Handlers
  /\ registered \subseteq Handlers
  /\ process \in {"up", "registryAssert", "runFailed", "unmappedError", "unhandledAssert",
                  "wrongStage", "stopAssert", "parseError"}
  /\ serving \in {"setup", "running", "stopping", "returned", "released", "destroyed"}
  /\ isRunning \in BOOLEAN
  /\ acceptOp \in {"none", "armed", "failed"} \cup Clients
  /\ conn \in [Clients -> {"none", "refused", "open", "destroyed"}]
  /\ connections \subseteq Clients
  /\ destroyed \in [Clients -> 0 .. 2]
  /\ op \in [Clients -> Operations]
  /\ received \in [Clients -> 0 .. Pieces]
  /\ buffer \in Clients \cup {NoClient}
  /\ worker \in [Workers -> WorkerStates]
  /\ request \in [Clients -> Requests \cup {NoRequest}]
  /\ answer \in [Clients -> {<<>>} \cup {WholeResponse(status) : status \in Statuses}]
  /\ answered \subseteq Clients
  /\ corrupt \subseteq Clients
  /\ shared \in BOOLEAN
  /\ unreported \subseteq Clients \cup {"accept"}

\* A request is parsed from its own bytes as long as no two heads are received
\* at one time: the buffer is safe for one client after another, and bodies,
\* answers and accepts do not touch it.
OwnBytesUnlessShared == ~shared => corrupt = {}

\* The first n parts of a target are its path: all before its first delimiter.
IsPath(n, target) ==
  /\ \A i \in 1 .. n : target[i] \notin Delimiters
  /\ n < Len(target) => target[n + 1] \in Delimiters

\* A target whose path of n parts ends in a number sign, with a question mark
\* after it.
Misplaced(n, target) ==
  /\ n < Len(target) /\ target[n + 1] = "#"
  /\ \E i \in DOMAIN target : i > n /\ target[i] = "?"

\* An answer that was parsed from its client's own bytes is the one its request
\* deserves, complete: 400 for a misplaced query, 404 where no handler has the
\* path, 405 where none has the method, too, and else what a handler wrote; an
\* error response is never written in the wrong stage.
AnswerRight ==
  /\ process # "wrongStage"
  /\ \A c \in answered \ corrupt : \E n \in 0 .. Len(request[c].target) :
       LET target  == request[c].target
           methods == {h[2] : h \in {g \in Handlers : g[1] = SubSeq(target, 1, n)}}
       IN /\ IsPath(n, target)
          /\ answer[c] =
               IF Misplaced(n, target) THEN WholeResponse("400 Bad Request")
               ELSE IF methods = {} THEN WholeResponse("404 Not Found")
               ELSE IF request[c].method \notin methods
                    THEN WholeResponse("405 Method Not Allowed")
               ELSE <<>>

\* A worker is at one of these places, for client c or for anyone.
SomeWorker(places, c) ==
  \E w \in Workers : worker[w].at \in places /\ c \in {worker[w].client, NoClient}

\* The server does not go deaf, and it forgets no connection: an accept is in
\* flight, and so is an operation of every open connection that has no answer,
\* or a worker is at it, or one threw, or the error of a refused call was lost.
NothingForgotten ==
  serving \in {"running", "stopping"} =>
    /\ acceptOp = "none" =>
         "accept" \in unreported \/ SomeWorker({"accepting", "rearming", "threw"}, NoClient)
    /\ \A c \in Clients :
         conn[c] = "open" /\ op[c] = NoOp /\ c \notin answered =>
           c \in unreported \/ SomeWorker({"readingHead", "readingBody", "threw"}, c)

\* The kernel receives heads into a buffer that exists, also while main() takes
\* the server down, unless the accept was not armed again and nobody knew.
ReadsHaveTheirBuffer ==
  \A c \in Clients :
    op[c] = Operation("head", "pending") => AcceptCallbackAlive \/ "accept" \in unreported

\* No callback of a connection runs, or will run, once the connection is gone.
CallbacksSeeLiveConnections ==
  \A c \in Clients :
    \/ op[c] # NoOp
    \/ \E w \in Workers :
         worker[w].client = c /\ worker[w].at \in {"rearming", "readingHead", "readingBody"}
    => conn[c] = "open"

\* A connection is destroyed once.  The exceptions are two: one that could not
\* be added is destroyed twice, and one whose first read failed is left in the
\* set; but the process then ends before the set is destroyed.
DestroyedOnce ==
  \A c \in Clients :
    /\ c \in connections \/ serving = "destroyed" =>
         destroyed[c] <= 1 \/ \E w \in Workers : worker[w] = Doing("threw", c)
    /\ serving = "destroyed" => destroyed[c] <= 1

\* A worker whose callback failed, an error that was lost, a second head in the
\* buffer, the end of run() or of the process: what may cost a client its answer.
Disturbed ==
  \/ process # "up" \/ serving \notin {"setup", "running"}
  \/ shared \/ unreported # {}
  \/ \E w \in Workers : worker[w].at \in {"threw", "ended"}

\* Every client that was accepted and sends its request is answered, if nothing
\* of that happens.
Unserved == {c \in Clients : conn[c] = "open"} \ answered

ClientServed == Unserved # {} ~> Unserved = {} \/ Disturbed
=============================================================================
