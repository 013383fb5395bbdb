------------------------- MODULE HttpServer_proofs -------------------------
(* The example server keeps its promises to its clients for every number   *)
(* of clients and of worker threads, whatever the requests and the faults. *)
(*                                                                         *)
(* The invariants build on each other: the types, the one accept, the      *)
(* phases of main(), then what each says of a connection.                  *)
EXTENDS HttpServer, FiniteSetTheorems, WellFoundedInduction, TLAPS

-----------------------------------------------------------------------------
(* A response: what its stages return as a success is the whole of it, and *)
(* no stage is the wrong one.                                              *)

\* The response is in this stage with these data, or it ran out of memory.
Outcomes(rs, stage, data) ==
  \A r \in rs : r = Response(stage, data, "ok") \/ r.result = "outOfMemory"

\* Writes in their stage append their parts or run out of memory.
LEMMA WritesOutcomes ==
  ASSUME NEW rs, NEW stage, NEW data, NEW parts, NEW to, Outcomes(rs, stage, data)
  PROVE  Outcomes(Writes(rs, stage, parts, to), to, data \o parts)
<1> SUFFICES ASSUME NEW x \in rs,
                    NEW r \in IF x.result = "ok" THEN Write(x, stage, parts, to) ELSE {x}
             PROVE  r = Response(to, data \o parts, "ok") \/ r.result = "outOfMemory"
  BY DEF Outcomes, Writes
<1>1. CASE x.result = "ok"
  <2>1. x = Response(stage, data, "ok")
    BY <1>1 DEF Outcomes
  <2> QED
    BY <1>1, <2>1 DEF Write, Response
<1>2. CASE x.result # "ok"
  BY <1>2 DEF Outcomes, Response
<1> QED
  BY <1>1, <1>2

\* Every outcome of an error response is the whole of it or an exception.
LEMMA ResponseOutcomes ==
  ASSUME NEW status, NEW r \in WriteResponse(status)
  PROVE  \/ r.result = "ok" /\ r.data = WholeResponse(status)
         \/ r.result = "outOfMemory"
<1> DEFINE lined  == WriteStatusLine({Started}, status)
           typed  == WriteHeader(lined)
           sized  == WriteHeader(typed)
           ended  == EndHeader(sized)
           bodied == WriteBody(ended)
           line   == <<>> \o <<"HTTP/1,1 ", status, "CRLF">>
           all    == ((line \o HeaderParts) \o HeaderParts) \o <<"CRLF">>
<1>1. Outcomes(lined, "ResponseHeaders", line)
  BY WritesOutcomes DEF WriteStatusLine, Started, Outcomes
<1>2. Outcomes(typed, "ResponseHeaders", line \o HeaderParts)
  BY <1>1, WritesOutcomes DEF WriteHeader
<1>3. Outcomes(sized, "ResponseHeaders", (line \o HeaderParts) \o HeaderParts)
  BY <1>2, WritesOutcomes DEF WriteHeader
<1>4. Outcomes(ended, "ResponseBody", all)
  BY <1>3, WritesOutcomes DEF EndHeader
<1>5. Outcomes(bodied, "ResponseBody", all \o <<"body", "CRLF">>)
  BY <1>4, WritesOutcomes DEF WriteBody
<1>6. \E x \in bodied : r = IF x.result = "ok" THEN Response("End", x.data, "ok") ELSE x
  BY DEF WriteResponse, EndBody
<1>7. all \o <<"body", "CRLF">> = WholeResponse(status)
  <2> DEFINE start == <<"HTTP/1,1 ", status, "CRLF">>
  <2>1. line = start
    OBVIOUS
  <2> HIDE DEF line, start
  <2> QED
    BY <2>1 DEF WholeResponse, start
<1> HIDE DEF bodied, all
<1> QED
  <2>1. PICK x \in bodied : r = IF x.result = "ok" THEN Response("End", x.data, "ok") ELSE x
    BY <1>6
  <2>2. CASE x = Response("ResponseBody", all \o <<"body", "CRLF">>, "ok")
    BY <2>1, <2>2, <1>7 DEF Response
  <2>3. CASE x.result = "outOfMemory"
    BY <2>1, <2>3
  <2> QED
    BY <2>2, <2>3, <1>5 DEF Outcomes

-----------------------------------------------------------------------------
(* Reading callbacks end in one of four ways, whatever they found.         *)

\* The callback posts an operation of its connection.
Posts(w, c) ==
  /\ GoesIdle(w)
  /\ UNCHANGED <<process, unreported>>
  /\ \/ /\ \E what \in {"head", "body"} : op' = [op EXCEPT ![c] = Operation(what, "pending")]
        /\ UNCHANGED answerVars
     \/ /\ op' = [op EXCEPT ![c] = Operation("write", "pending")]
        /\ answered' = answered \cup {c}
        /\ \E data \in {<<>>} \cup {WholeResponse(status) : status \in Statuses} :
             answer' = [answer EXCEPT ![c] = data]

\* It returns an exception, or one is lost.
Refused(w, c) ==
  /\ UNCHANGED <<process, op, answerVars>>
  /\ \/ Throws(w) /\ UNCHANGED unreported
     \/ GoesIdle(w) /\ unreported' = unreported \cup {c}

\* It ends the process.
EndsProcess(reasons) ==
  /\ process' \in reasons
  /\ UNCHANGED <<worker, op, answerVars, unreported>>

\* It has nothing more to do.
CallbackEnds(w, c) ==
  /\ isRunning' \in BOOLEAN
  /\ \/ Posts(w, c)
     \/ Refused(w, c)
     \/ EndsProcess({"unmappedError", "unhandledAssert", "stopAssert", "parseError"})

\* The answer to a request is one of them.
LEMMA AnswerEnds ==
  ASSUME TypeOK, NEW w \in Workers, NEW c \in Clients, NEW what, Answer(w, c, what)
  PROVE  CallbackEnds(w, c)
<1>1. ASSUME NEW data \in {<<>>} \cup {WholeResponse(status) : status \in Statuses},
             Respond(w, c, data), isRunning' \in BOOLEAN
      PROVE  CallbackEnds(w, c)
  BY <1>1 DEF Respond, Written, WriteFails, CallbackEnds, Posts, Refused, EndsProcess,
              LosesError, Ends, answerVars
<1>2. CASE what \in Statuses /\ RespondStatus(w, c, what) /\ UNCHANGED isRunning
  <2>1. PICK r \in WriteResponse(what) :
          \/ r.result = "ok" /\ Respond(w, c, r.data)
          \/ /\ r.result = "wrongStage" \/ (r.result = "outOfMemory" /\ "oom" \in Faults)
             /\ Ends(IF r.result = "wrongStage" THEN "wrongStage" ELSE "unhandledAssert")
             /\ UNCHANGED <<answerVars, op, worker, unreported>>
    BY <1>2 DEF RespondStatus
  <2>2. CASE r.result = "ok" /\ r.data = WholeResponse(what)
    BY <1>1, <1>2, <2>1, <2>2 DEF TypeOK
  <2>3. CASE r.result = "outOfMemory"
    BY <1>2, <2>1, <2>3 DEF CallbackEnds, EndsProcess, Ends, TypeOK
  <2> QED
    BY <2>2, <2>3, ResponseOutcomes
<1>3. CASE RunHandler(w, c, what)
  <2>1. CASE what = "stop" /\ ~isRunning
    BY <1>3, <2>1 DEF RunHandler, CallbackEnds, EndsProcess, Ends, TypeOK
  <2>2. CASE isRunning' \in BOOLEAN /\ Respond(w, c, <<>>)
    BY <1>1, <2>2
  <2>3. CASE Throws(w) /\ UNCHANGED <<answerVars, op, process, unreported, isRunning>>
    BY <2>3 DEF CallbackEnds, Refused, TypeOK
  <2> QED
    BY <1>3, <2>1, <2>2, <2>3 DEF RunHandler, TypeOK
<1> QED
  BY <1>2, <1>3 DEF Answer

\* So is the read that is posted next.
LEMMA PostReadEnds ==
  ASSUME TypeOK, NEW w \in Workers, NEW c \in Clients, NEW what \in {"head", "body"},
         PostRead(w, c, what)
  PROVE  CallbackEnds(w, c)
BY DEF PostRead, CallbackEnds, Posts, Refused, LosesError, TypeOK, answerVars

\* And so is what follows a head.
LEMMA HeadParsedEnds ==
  ASSUME TypeOK, NEW w \in Workers, NEW c \in Clients, NEW r \in Requests \cup {NoRequest},
         HeadParsed(w, c, r)
  PROVE  CallbackEnds(w, c) /\ request' = [request EXCEPT ![c] = r]
BY AnswerEnds, PostReadEnds DEF HeadParsed

\* A head was received: the callback parses it, and marks its client when the
\* bytes are another's.
LEMMA OnHeadReadEnds ==
  ASSUME TypeOK, NEW w \in Workers, OnHeadRead(w), worker[w].client \in Clients
  PROVE  LET c == worker[w].client IN
         /\ CallbackEnds(w, c)
         /\ corrupt' = IF buffer = c THEN corrupt ELSE corrupt \cup {c}
         /\ \/ UNCHANGED request
            \/ c \in corrupt' /\ \E r \in Requests : request' = [request EXCEPT ![c] = r]
         /\ ReadOnly
<1> DEFINE c == worker[w].client
<1>1. CASE PostRead(w, c, "head") /\ UNCHANGED request
  BY <1>1, PostReadEnds DEF OnHeadRead
<1>2. CASE HeadParsed(w, c, request[c])
  <2>1. request[c] \in Requests \cup {NoRequest} /\ request = [request EXCEPT ![c] = request[c]]
    BY DEF TypeOK
  <2> QED
    BY <1>2, <2>1, HeadParsedEnds DEF OnHeadRead
<1>3. CASE c \in corrupt' /\ \E r \in Requests : HeadParsed(w, c, r)
  BY <1>3, HeadParsedEnds DEF OnHeadRead
<1>4. CASE Ends("parseError") /\ UNCHANGED <<answerVars, op, worker, unreported, isRunning, request>>
  BY <1>4 DEF OnHeadRead, CallbackEnds, EndsProcess, Ends, TypeOK
<1> QED
  BY <1>1, <1>2, <1>3, <1>4 DEF OnHeadRead

-----------------------------------------------------------------------------
(* The invariant.                                                          *)

AtAccept(w) == worker[w].at \in {"accepting", "rearming"}

\* A worker that runs a callback of a connection runs it for a client.
BusyForClient == \A w \in Workers : worker[w].at \in Busy => worker[w].client \in Clients

\* There is one accept: in flight, or completed and with one worker.
OneAccept ==
  /\ \A v, w \in Workers : AtAccept(v) /\ AtAccept(w) => v = w
  /\ \A w \in Workers : AtAccept(w) => acceptOp = "none"

\* Whoever was accepted last has no connection yet.
NewClient ==
  /\ \A c \in Clients : acceptOp = c => conn[c] = "none"
  /\ \A w \in Workers : worker[w].at = "accepting" => conn[worker[w].client] = "none"

\* What the workers, and in the end the operations, are in the phases of main().
Phases ==
  /\ serving = "setup" => \A w \in Workers : worker[w] = Idle
  /\ serving \in {"returned", "released", "destroyed"} =>
       \A w \in Workers : worker[w].at = "ended"
  /\ serving = "destroyed" => acceptOp = "none" /\ \A c \in Clients : op[c] = NoOp

\* A connection that was destroyed while the server lives has a worker that
\* ended for it.
DestroyedByThrow ==
  \A c \in Clients :
    /\ conn[c] = "none" => destroyed[c] = 0
    /\ serving # "destroyed" /\ destroyed[c] # 0 => \E w \in Workers : worker[w] = Doing("threw", c)
    /\ serving = "destroyed" => destroyed[c] <= 1

Core == TypeOK /\ BusyForClient /\ OneAccept /\ NewClient /\ Phases /\ DestroyedByThrow

\* A step of a reading callback, as far as most of the invariant is concerned.
Reads(w, c) ==
  /\ worker[w].at \in {"readingHead", "readingBody"}
  /\ c = worker[w].client
  /\ CallbackEnds(w, c)
  /\ ReadOnly
  /\ corrupt' \in {corrupt, corrupt \cup {c}}
  /\ request' = request \/ \E r \in Requests : request' = [request EXCEPT ![c] = r]

LEMMA ReadingSteps ==
  ASSUME TypeOK, BusyForClient, NEW w \in Workers, OnHeadRead(w) \/ OnBodyRead(w)
  PROVE  \E c \in Clients : Reads(w, c)
<1> DEFINE c == worker[w].client
<1>1. c \in Clients
  BY DEF BusyForClient, OnHeadRead, OnBodyRead, Busy
<1>2. CASE OnHeadRead(w)
  BY <1>1, <1>2, OnHeadReadEnds DEF Reads, OnHeadRead
<1>3. CASE OnBodyRead(w)
  BY <1>1, <1>3, AnswerEnds DEF Reads, OnBodyRead
<1> QED
  BY <1>1, <1>2, <1>3

\* What may become of a worker, and of an operation.
LEMMA WorkerTypes ==
  ASSUME TypeOK, NEW w \in Workers
  PROVE  /\ \A what \in Busy \cup {"ended", "threw"}, c \in Clients \cup {NoClient} :
              Goes(w, what, c) => worker' \in [Workers -> WorkerStates]
         /\ GoesIdle(w) \/ Throws(w) => worker' \in [Workers -> WorkerStates]
<1>1. \A what \in Busy \cup {"ended", "threw"}, c \in Clients \cup {NoClient} :
        Doing(what, c) \in WorkerStates
  BY DEF Doing, WorkerStates
<1>2. Idle \in WorkerStates
  BY DEF Idle, Doing, WorkerStates
<1>3. [worker[w] EXCEPT !.at = "threw"] \in WorkerStates
  BY DEF TypeOK, WorkerStates
<1>4. worker \in [Workers -> WorkerStates]
  BY DEF TypeOK
<1> QED
  BY <1>1, <1>2, <1>3, <1>4 DEF Goes, GoesIdle, Throws

LEMMA OpTypes ==
  ASSUME TypeOK, NEW c \in Clients
  PROVE  /\ \A what \in {"head", "body", "write"}, at \in {"pending", "queued", "failed"} :
              op' = [op EXCEPT ![c] = Operation(what, at)] => op' \in [Clients -> Operations]
         /\ op' = [op EXCEPT ![c] = NoOp] => op' \in [Clients -> Operations]
         /\ op[c].at = "pending" /\ op' = [op EXCEPT ![c] = Operation(op[c].what, "failed")] =>
              op' \in [Clients -> Operations]
<1>1. NoOp \in Operations
  BY DEF Operations
<1>2. \A what \in {"head", "body", "write"}, at \in {"pending", "queued", "failed"} :
        Operation(what, at) \in Operations
  BY DEF Operations, Operation
<1>3. op[c].at = "pending" => op[c].what \in {"head", "body", "write"}
  <2>1. op[c] \in Operations
    BY DEF TypeOK
  <2> QED
    BY <2>1 DEF Operations, NoOp
<1>4. ASSUME NEW o \in Operations, op' = [op EXCEPT ![c] = o]
      PROVE  op' \in [Clients -> Operations]
  BY <1>4 DEF TypeOK
<1> QED
  BY <1>1, <1>2, <1>3, <1>4

\* _reserveHandlerRegistry adds an empty registry, and takes none away.
LEMMA ReservedIs ==
  ASSUME NEW name
  PROVE  /\ DOMAIN Reserved(name) = DOMAIN handlerRegistries \cup {name}
         /\ \A n \in DOMAIN handlerRegistries : Reserved(name)[n] = handlerRegistries[n]
         /\ name \notin DOMAIN handlerRegistries => Reserved(name)[name] = {}
BY DEF Reserved

\* A refused handler leaves the registries as they were.
LEMMA RefusedChangesNothing ==
  ASSUME NEW name, HandlerRefused(name)
  PROVE  /\ DOMAIN handlerRegistries' = DOMAIN handlerRegistries
         /\ \A n \in DOMAIN handlerRegistries : handlerRegistries'[n] = handlerRegistries[n]
         /\ UNCHANGED <<registered, process>>
<1>1. CASE name \in DOMAIN handlerRegistries
  BY <1>1 DEF HandlerRefused, GuardArmed, Reserved
<1>2. CASE name \notin DOMAIN handlerRegistries
  <2>1. handlerRegistries' = Without(Reserved(name), name)
    BY <1>2 DEF HandlerRefused, GuardArmed
  <2> QED
    BY <1>2, <2>1, ReservedIs DEF Without, Restrict, HandlerRefused
<1> QED
  BY <1>1, <1>2

\* A registered handler is added to the registry of its path.
LEMMA RegisteredAdds ==
  ASSUME NEW name, NEW method, RegisterOk(name, method)
  PROVE  /\ DOMAIN handlerRegistries' = DOMAIN handlerRegistries \cup {name}
         /\ \A n \in DOMAIN handlerRegistries \ {name} :
              handlerRegistries'[n] = handlerRegistries[n]
         /\ handlerRegistries'[name] =
              (IF name \in DOMAIN handlerRegistries THEN handlerRegistries[name] ELSE {})
              \cup {method}
         /\ registered' = registered \cup {<<name, method>>}
         /\ process' = process
BY ReservedIs DEF RegisterOk

LEMMA ServerTypeInit == Init => TypeOK
<1> SUFFICES ASSUME Init PROVE TypeOK
  OBVIOUS
<1>1. DOMAIN handlerRegistries = {}
  BY DEF Init, RegistryInit
<1>2. worker \in [Workers -> WorkerStates]
  BY DEF Init, Idle, Doing, WorkerStates
<1>3. op \in [Clients -> Operations]
  BY DEF Init, Operations
<1>4. /\ received \in [Clients -> 0 .. Pieces]
      /\ destroyed \in [Clients -> 0 .. 2]
  BY ServerAssumption DEF Init
<1> QED
  BY <1>1, <1>2, <1>3, <1>4 DEF Init, RegistryInit, TypeOK

LEMMA ServerTypeStep ==
  ASSUME Core, Next
  PROVE  TypeOK'
<1> SUFFICES ASSUME TypeOK, BusyForClient, OneAccept, NewClient, Phases, DestroyedByThrow
             PROVE  TypeOK'
  BY DEF Core
<1>0. shared' \in BOOLEAN
  BY DEF Next, TypeOK
<1>1. CASE MainStep
  <2>1. CASE RegisterHandlers
    <3>1. PICK name, method : RegisterHandler(name, method)
      BY <2>1 DEF RegisterHandlers
    <3>2. /\ \A n \in DOMAIN handlerRegistries' : {n} \X handlerRegistries'[n] \subseteq Handlers
          /\ registered' \subseteq Handlers
          /\ process' \in {process, "registryAssert"}
      <4>1. CASE RegisterOk(name, method)
        <5>1. <<name, method>> \in Handlers
          BY <3>1 DEF RegisterHandler
        <5>2. \A n \in DOMAIN handlerRegistries : \A m \in handlerRegistries[n] : <<n, m>> \in Handlers
          BY DEF TypeOK
        <5>6. /\ DOMAIN handlerRegistries' = DOMAIN handlerRegistries \cup {name}
              /\ \A n \in DOMAIN handlerRegistries \ {name} :
                   handlerRegistries'[n] = handlerRegistries[n]
              /\ handlerRegistries'[name] =
                   (IF name \in DOMAIN handlerRegistries THEN handlerRegistries[name] ELSE {})
                   \cup {method}
          BY <4>1, RegisteredAdds
        <5>3. ASSUME NEW n \in DOMAIN handlerRegistries', NEW m \in handlerRegistries'[n]
              PROVE  <<n, m>> \in Handlers
          <6>1. CASE n = name
            <7>1. m = method \/ (n \in DOMAIN handlerRegistries /\ m \in handlerRegistries[n])
              BY <5>6, <5>3, <6>1
            <7> QED
              BY <5>1, <5>2, <6>1, <7>1
          <6>2. CASE n # name
            BY <5>6, <5>2, <5>3, <6>2
          <6> QED
            BY <6>1, <6>2
        <5>4. \A n \in DOMAIN handlerRegistries' : {n} \X handlerRegistries'[n] \subseteq Handlers
          <6> SUFFICES ASSUME NEW n \in DOMAIN handlerRegistries',
                              NEW p \in {n} \X handlerRegistries'[n]
                       PROVE  p \in Handlers
            OBVIOUS
          <6>1. PICK m \in handlerRegistries'[n] : p = <<n, m>>
            OBVIOUS
          <6> QED
            BY <5>3, <6>1
        <5>5. registered' \subseteq Handlers /\ process' = process
          BY <4>1, <5>1 DEF RegisterOk, TypeOK
        <5> QED
          BY <5>4, <5>5
      <4>2. CASE HandlerRefused(name)
        BY <4>2, RefusedChangesNothing DEF TypeOK
      <4>3. CASE RegistryRefused(name)
        BY <4>3 DEF RegistryRefused, TypeOK, registryVars
      <4> QED
        BY <3>1, <4>1, <4>2, <4>3 DEF RegisterHandler
    <3> QED
      BY <1>0, <2>1, <3>2 DEF RegisterHandlers, TypeOK, connVars, answerVars
  <2>2. CASE EnterRun
    BY <1>0, <2>2 DEF EnterRun, MainOnly, TypeOK, registryVars, connVars, answerVars
  <2>4. CASE LeaveSleep
    BY <1>0, <2>4 DEF LeaveSleep, MainOnly, TypeOK, registryVars, connVars, answerVars
  <2>5. CASE ReturnFromRun
    BY <1>0, <2>5 DEF ReturnFromRun, MainOnly, Ends, TypeOK, registryVars, connVars, answerVars
  <2>6. CASE ReleaseCallback
    BY <1>0, <2>6 DEF ReleaseCallback, MainOnly, TypeOK, registryVars, connVars, answerVars
  <2>3. CASE DestroyServer
    <3>1. \A c \in Clients : c \in connections => destroyed[c] = 0
      <4>1. serving = "released"
        BY <2>3 DEF DestroyServer
      <4>2. \A w \in Workers, c \in Clients : worker[w] # Doing("threw", c)
        BY <4>1 DEF Phases, Doing
      <4> QED
        BY <4>1, <4>2 DEF DestroyedByThrow
    <3>2. destroyed' \in [Clients -> 0 .. 2]
      <4>1. \A c \in Clients : destroyed[c] \in 0 .. 2
        BY DEF TypeOK
      <4>2. \A c \in Clients : destroyed[c] + (IF c \in connections THEN 1 ELSE 0) \in 0 .. 2
        BY <3>1, <4>1
      <4>3. destroyed' = [c \in Clients |-> destroyed[c] + (IF c \in connections THEN 1 ELSE 0)]
        BY <2>3 DEF DestroyServer
      <4> QED
        BY <4>2, <4>3
    <3>3. op' \in [Clients -> Operations]
      BY <2>3 DEF DestroyServer, Operations
    <3> QED
      BY <1>0, <2>3, <3>2, <3>3 DEF DestroyServer, MainOnly, TypeOK, registryVars, answerVars
  <2> QED
    BY <1>1, <2>1, <2>2, <2>3, <2>4, <2>5, <2>6 DEF MainStep
<1>2. CASE KernelStep
  <2>1. CASE Fails
    <3>1. op' \in [Clients -> Operations] /\ acceptOp' \in {"none", "armed", "failed"} \cup Clients
      BY <2>1, OpTypes DEF Fails, TypeOK
    <3> QED
      BY <1>0, <2>1, <3>1 DEF Fails, KernelOnly, TypeOK, registryVars, connVars, answerVars
  <2>2. ASSUME NEW c \in Clients, Connects(c) \/ ReceivesHead(c) \/ ReceivesBody(c) \/ Sends(c)
        PROVE TypeOK'
    <3>1. op' \in [Clients -> Operations]
      <4> QED
        BY <2>2, OpTypes DEF Connects, ReceivesHead, ReceivesBody, Sends, TypeOK
    <3>2. received' \in [Clients -> 0 .. Pieces]
      <4>1. CASE received[c] < Pieces /\ received' = [received EXCEPT ![c] = @ + 1]
        BY <4>1, ServerAssumption DEF TypeOK
      <4>2. CASE UNCHANGED received
        BY <4>2 DEF TypeOK
      <4> QED
        BY <2>2, <4>1, <4>2 DEF Connects, ReceivesHead, ReceivesBody, Sends
    <3>3. request' \in [Clients -> Requests \cup {NoRequest}]
      <4>1. request \in [Clients -> Requests \cup {NoRequest}]
        BY DEF TypeOK
      <4>2. request' = request \/ \E r \in Requests : request' = [request EXCEPT ![c] = r]
        BY <2>2 DEF Connects, ReceivesHead, ReceivesBody, Sends
      <4> QED
        BY <4>1, <4>2
    <3>4. buffer' \in Clients \cup {NoClient} /\ acceptOp' \in {"none", "armed", "failed"} \cup Clients
      BY <2>2 DEF Connects, ReceivesHead, ReceivesBody, Sends, TypeOK
    <3> QED
      BY <1>0, <2>2, <3>1, <3>2, <3>3, <3>4
      DEF Connects, ReceivesHead, ReceivesBody, Sends, KernelOnly, TypeOK, registryVars, connVars, answerVars
  <2> QED
    BY <1>2, <2>1, <2>2 DEF KernelStep
<1>3. ASSUME NEW w \in Workers, TakePacket(w)
      PROVE  TypeOK'
  <2>1. ASSUME TakeOnly,
               worker' \in [Workers -> WorkerStates],
               op' \in [Clients -> Operations],
               acceptOp' \in {acceptOp, "none"},
               unreported' \in SUBSET (Clients \cup {"accept"})
        PROVE  TypeOK'
    BY <1>0, <2>1 DEF TakeOnly, TypeOK, registryVars, connVars, answerVars
  <2>2. CASE TakeAccept(w) \/ TakePill(w)
    BY <2>1, <2>2, WorkerTypes DEF TakeAccept, TakePill, TypeOK, Busy
  <2>3. CASE TakeFailure(w)
    <3>1. CASE UNCHANGED op /\ acceptOp' = "none" /\ (Goes(w, "threw", NoClient) \/ Goes(w, "ended", NoClient))
      <4>1. worker' \in [Workers -> WorkerStates]
        BY <3>1, WorkerTypes
      <4>2. unreported' \in SUBSET (Clients \cup {"accept"})
        BY <2>3 DEF TakeFailure, TypeOK, LosesError
      <4> QED
        BY <2>1, <2>3, <3>1, <4>1, <4>2 DEF TakeFailure, TypeOK
    <3>2. ASSUME NEW c \in Clients,
                 op' = [op EXCEPT ![c] = NoOp], UNCHANGED acceptOp,
                 Goes(w, "threw", c) \/ Goes(w, "ended", c),
                 unreported' \in {unreported, unreported \cup {c}}
          PROVE  TypeOK'
      <4>1. op' \in [Clients -> Operations]
        BY <3>2, OpTypes
      <4>2. worker' \in [Workers -> WorkerStates]
        BY <3>2, WorkerTypes
      <4> QED
        BY <2>1, <2>3, <3>2, <4>1, <4>2 DEF TakeFailure, TypeOK
    <3> QED
      BY <2>3, <3>1, <3>2 DEF TakeFailure, LosesError
  <2>4. ASSUME NEW c \in Clients, TakeRead(w, c) \/ TakeWrite(w, c)
        PROVE TypeOK'
    BY <2>1, <2>4, WorkerTypes, OpTypes DEF TakeRead, TakeWrite, TypeOK, Busy
  <2> QED
    BY <1>3, <2>2, <2>3, <2>4 DEF TakePacket
<1>4. ASSUME NEW w \in Workers, OnAccepted(w)
      PROVE  TypeOK'
  <2> DEFINE c == worker[w].client
  <2>1. c \in Clients /\ destroyed[c] = 0
    BY <1>4 DEF OnAccepted, BusyForClient, Busy, NewClient, DestroyedByThrow
  <2>2. destroyed' \in [Clients -> 0 .. 2]
    BY <1>4, <2>1 DEF OnAccepted, NoConnection, NotAdded, NotRead, Opened, TypeOK
  <2>3. worker' \in [Workers -> WorkerStates]
    BY <1>4, <2>1, WorkerTypes DEF OnAccepted, NoConnection, NotAdded, NotRead, Opened, Busy
  <2>4. op' \in [Clients -> Operations]
    BY <1>4, <2>1, OpTypes DEF OnAccepted, NoConnection, NotAdded, NotRead, Opened, TypeOK
  <2>5. unreported' \in SUBSET (Clients \cup {"accept"}) /\ connections' \subseteq Clients
    BY <1>4, <2>1 DEF OnAccepted, NoConnection, NotAdded, NotRead, Opened, LosesError, TypeOK
  <2>6. conn' \in [Clients -> {"none", "refused", "open", "destroyed"}]
    BY <1>4, <2>1 DEF OnAccepted, NoConnection, NotAdded, NotRead, Opened, TypeOK
  <2> QED
    BY <1>0, <1>4, <2>2, <2>3, <2>4, <2>5, <2>6
    DEF OnAccepted, AcceptOnly, TypeOK, registryVars, answerVars
<1>5. ASSUME NEW w \in Workers, Rearm(w)
      PROVE  TypeOK'
  <2>1. worker' \in [Workers -> WorkerStates]
    BY <1>5, WorkerTypes DEF Rearm
  <2> QED
    BY <1>0, <1>5, <2>1 DEF Rearm, AcceptOnly, TypeOK, registryVars, connVars, answerVars, LosesError
<1>6. ASSUME NEW w \in Workers, NEW c \in Clients, Reads(w, c)
      PROVE  TypeOK'
  <2>1. ASSUME worker' \in [Workers -> WorkerStates],
               op' \in [Clients -> Operations],
               unreported' \in SUBSET (Clients \cup {"accept"}),
               answer' \in [Clients -> {<<>>} \cup {WholeResponse(status) : status \in Statuses}],
               answered' \subseteq Clients,
               process' \in {process, "unmappedError", "unhandledAssert", "stopAssert", "parseError"}
        PROVE  TypeOK'
    <3>1. request' \in [Clients -> Requests \cup {NoRequest}]
      <4>1. request \in [Clients -> Requests \cup {NoRequest}]
        BY DEF TypeOK
      <4>2. request' = request \/ \E r \in Requests : request' = [request EXCEPT ![c] = r]
        BY <1>6 DEF Reads
      <4> QED
        BY <4>1, <4>2
    <3>2. isRunning' \in BOOLEAN /\ ReadOnly /\ corrupt' \subseteq Clients
      BY <1>6 DEF Reads, CallbackEnds, TypeOK
    <3> QED
      BY <1>0, <2>1, <3>1, <3>2 DEF ReadOnly, TypeOK, registryVars, connVars
  <2>2. CASE Posts(w, c)
    <3>1. op' \in [Clients -> Operations]
      BY <2>2, OpTypes DEF Posts, TypeOK
    <3>2. /\ answer' \in [Clients -> {<<>>} \cup {WholeResponse(status) : status \in Statuses}]
          /\ answered' \subseteq Clients
      <4> DEFINE D == {<<>>} \cup {WholeResponse(status) : status \in Statuses}
      <4>1. answer \in [Clients -> D] /\ answered \subseteq Clients
        BY DEF TypeOK
      <4>2. \/ UNCHANGED <<answer, answered>>
            \/ /\ answered' = answered \cup {c}
               /\ \E data \in D : answer' = [answer EXCEPT ![c] = data]
        BY <2>2 DEF Posts, answerVars
      <4> HIDE DEF D
      <4>3. CASE UNCHANGED <<answer, answered>>
        BY <4>1, <4>3 DEF D
      <4>4. ASSUME NEW data \in D, answer' = [answer EXCEPT ![c] = data], answered' = answered \cup {c}
            PROVE  answer' \in [Clients -> D] /\ answered' \subseteq Clients
        BY <4>1, <4>4
      <4> QED
        BY <4>2, <4>3, <4>4 DEF D
    <3> QED
      BY <2>1, <2>2, <3>1, <3>2, WorkerTypes DEF Posts, TypeOK
  <2>3. CASE Refused(w, c)
    BY <2>1, <2>3, WorkerTypes DEF Refused, TypeOK, answerVars
  <2>4. CASE EndsProcess({"unmappedError", "unhandledAssert", "stopAssert", "parseError"})
    BY <2>1, <2>4 DEF EndsProcess, TypeOK, answerVars
  <2> QED
    BY <1>6, <2>2, <2>3, <2>4 DEF Reads, CallbackEnds
<1> QED
  BY <1>1, <1>2, <1>3, <1>4, <1>5, <1>6, ReadingSteps DEF Next, WorkerStep

-----------------------------------------------------------------------------
(* The rest of the core.                                                   *)

\* Where a worker is after a step, and that no other has moved.
LEMMA Moved ==
  ASSUME TypeOK, NEW w \in Workers
  PROVE  /\ \A what, c : Goes(w, what, c) =>
              /\ worker'[w] = Doing(what, c)
              /\ worker'[w].at = what /\ worker'[w].client = c
              /\ \A v \in Workers \ {w} : worker'[v] = worker[v]
         /\ GoesIdle(w) =>
              /\ worker'[w] = Idle
              /\ worker'[w].at = "idle" /\ worker'[w].client = NoClient
              /\ \A v \in Workers \ {w} : worker'[v] = worker[v]
         /\ Throws(w) =>
              /\ worker'[w] = Doing("threw", worker[w].client)
              /\ worker'[w].at = "threw" /\ worker'[w].client = worker[w].client
              /\ \A v \in Workers \ {w} : worker'[v] = worker[v]
<1>1. worker[w] \in WorkerStates
  BY DEF TypeOK
<1>2. [worker[w] EXCEPT !.at = "threw"] = Doing("threw", worker[w].client)
  BY <1>1 DEF WorkerStates, Doing
<1> QED
  BY <1>2 DEF TypeOK, Goes, GoesIdle, Throws, Idle, Doing

\* What a step of a reading callback does to its worker.
LEMMA ReadsMoves ==
  ASSUME TypeOK, NEW w \in Workers, NEW c \in Clients, Reads(w, c)
  PROVE  /\ worker[w].at \in {"readingHead", "readingBody"} /\ worker[w].client = c
         /\ \A v \in Workers \ {w} : worker'[v] = worker[v]
         /\ \/ worker'[w] = worker[w]
            \/ worker'[w] = Idle /\ worker'[w].at = "idle"
            \/ worker'[w] = Doing("threw", c) /\ worker'[w].at = "threw"
<1>1. CASE Posts(w, c)
  BY <1>1, Moved DEF Posts, Reads
<1>2. CASE Refused(w, c)
  BY <1>2, Moved DEF Refused, Reads
<1>3. CASE EndsProcess({"unmappedError", "unhandledAssert", "stopAssert", "parseError"})
  BY <1>3 DEF EndsProcess, Reads
<1> QED
  BY <1>1, <1>2, <1>3 DEF Reads, CallbackEnds

\* What the steps of OnAccepted do to their worker and its client.
LEMMA AcceptedMoves ==
  ASSUME Core, NEW w \in Workers, OnAccepted(w)
  PROVE  \E c \in Clients :
           /\ worker[w].at = "accepting" /\ worker[w].client = c /\ conn[c] = "none"
           /\ \A v \in Workers \ {w} : worker'[v] = worker[v]
           /\ conn'[c] \in {"refused", "destroyed", "open"}
           /\ \A d \in Clients \ {c} : conn'[d] = conn[d] /\ destroyed'[d] = destroyed[d]
           /\ \/ /\ worker'[w] = Doing("threw", c) /\ worker'[w].at = "threw"
                 /\ UNCHANGED op
              \/ /\ worker'[w] = Doing("rearming", c) /\ worker'[w].at = "rearming"
                 /\ worker'[w].client = c
                 /\ conn'[c] = "open"
                 /\ UNCHANGED destroyed
           /\ UNCHANGED <<serving, acceptOp>>
<1> DEFINE c == worker[w].client
<1>1. c \in Clients /\ worker[w].at = "accepting" /\ conn[c] = "none"
  BY DEF Core, OnAccepted, BusyForClient, Busy, NewClient
<1>2. TypeOK
  BY DEF Core
<1>3. CASE NoConnection(w, c) \/ NotAdded(w, c) \/ NotRead(w, c)
  <2>1. /\ worker'[w] = Doing("threw", c) /\ worker'[w].at = "threw"
        /\ \A v \in Workers \ {w} : worker'[v] = worker[v]
    BY <1>2, <1>3, Moved DEF NoConnection, NotAdded, NotRead
  <2>2. /\ conn'[c] \in {"refused", "destroyed", "open"}
        /\ \A d \in Clients \ {c} : conn'[d] = conn[d] /\ destroyed'[d] = destroyed[d]
        /\ UNCHANGED op
    BY <1>1, <1>2, <1>3 DEF NoConnection, NotAdded, NotRead, TypeOK
  <2> QED
    BY <1>1, <2>1, <2>2 DEF OnAccepted, AcceptOnly
<1>4. CASE Opened(w, c)
  <2>1. /\ worker'[w] = Doing("rearming", c) /\ worker'[w].at = "rearming"
        /\ worker'[w].client = c
        /\ \A v \in Workers \ {w} : worker'[v] = worker[v]
    BY <1>2, <1>4, Moved DEF Opened
  <2> QED
    BY <1>1, <1>2, <1>4, <2>1 DEF OnAccepted, AcceptOnly, Opened, TypeOK
<1> QED
  BY <1>3, <1>4 DEF OnAccepted

LEMMA CoreInit == Init => Core
<1> SUFFICES ASSUME Init PROVE Core
  OBVIOUS
<1>1. \A w \in Workers : worker[w] = Idle /\ worker[w].at = "idle"
  BY DEF Init, Idle, Doing
<1>2. BusyForClient /\ OneAccept /\ Phases
  BY <1>1 DEF Init, BusyForClient, OneAccept, AtAccept, Phases, Busy
<1>3. NewClient /\ DestroyedByThrow
  BY <1>1, ServerAssumption DEF Init, NewClient, DestroyedByThrow
<1> QED
  BY <1>2, <1>3, ServerTypeInit DEF Core

\* Every step but those of main() and of the kernel keeps what the core says of
\* the workers, and so do these.
LEMMA CoreStep ==
  ASSUME Core, Next
  PROVE  Core'
<1> SUFFICES ASSUME TypeOK, BusyForClient, OneAccept, NewClient, Phases, DestroyedByThrow
             PROVE  (BusyForClient /\ OneAccept /\ NewClient /\ Phases /\ DestroyedByThrow)'
  BY ServerTypeStep DEF Core
<1> DEFINE Rest == BusyForClient /\ OneAccept /\ NewClient /\ Phases /\ DestroyedByThrow
<1>1. CASE MainStep
  <2>0. UNCHANGED worker
    BY <1>1 DEF MainStep, RegisterHandlers, EnterRun, LeaveSleep, ReturnFromRun, ReleaseCallback,
                DestroyServer, MainOnly
  <2>1. CASE RegisterHandlers \/ EnterRun \/ LeaveSleep \/ ReturnFromRun \/ ReleaseCallback
    <3>1. UNCHANGED <<conn, destroyed, op, acceptOp>>
      BY <2>1 DEF RegisterHandlers, EnterRun, LeaveSleep, ReturnFromRun, ReleaseCallback, connVars
    <3>2. (BusyForClient /\ OneAccept /\ NewClient)'
      BY <2>0, <3>1 DEF BusyForClient, OneAccept, NewClient, AtAccept
    <3>3. Phases'
      <4>1. CASE RegisterHandlers \/ EnterRun \/ LeaveSleep \/ ReleaseCallback
        BY <2>0, <3>1, <4>1 DEF RegisterHandlers, EnterRun, LeaveSleep, ReleaseCallback, Phases
      <4>2. CASE ReturnFromRun
        BY <2>0, <3>1, <4>2 DEF ReturnFromRun, Joined, Phases
      <4> QED
        BY <2>1, <4>1, <4>2
    <3>4. serving # "destroyed" /\ serving' # "destroyed"
      BY <2>1 DEF RegisterHandlers, EnterRun, LeaveSleep, ReturnFromRun, ReleaseCallback
    <3>5. DestroyedByThrow'
      BY <2>0, <3>1, <3>4 DEF DestroyedByThrow
    <3> QED
      BY <3>2, <3>3, <3>5
  <2>2. CASE DestroyServer
    <3>1. serving = "released" /\ serving' = "destroyed" /\ acceptOp' = "none"
      BY <2>2 DEF DestroyServer
    <3>2. \A w \in Workers : worker[w].at = "ended"
      BY <3>1 DEF Phases
    <3>3. (BusyForClient /\ OneAccept /\ NewClient)'
      BY <2>0, <3>1, <3>2, ServerAssumption DEF BusyForClient, OneAccept, NewClient, AtAccept, Busy
    <3>4. Phases'
      BY <2>0, <2>2, <3>1, <3>2 DEF Phases, DestroyServer
    <3>5. \A c \in Clients : destroyed[c] = 0
      <4>1. \A w \in Workers, c \in Clients : worker[w] # Doing("threw", c)
        BY <3>2 DEF Doing
      <4> QED
        BY <3>1, <4>1 DEF DestroyedByThrow
    <3>6. \A c \in Clients : destroyed'[c] <= 1 /\ (conn'[c] = "none" => destroyed'[c] = 0)
      BY <2>2, <3>5 DEF DestroyServer, TypeOK
    <3>7. DestroyedByThrow'
      BY <3>1, <3>6 DEF DestroyedByThrow
    <3> QED
      BY <3>3, <3>4, <3>7
  <2> QED
    BY <1>1, <2>1, <2>2 DEF MainStep
<1>2. CASE KernelStep
  <2>1. UNCHANGED <<worker, serving, conn, destroyed>>
    BY <1>2 DEF KernelStep, Fails, Connects, ReceivesHead, ReceivesBody, Sends, KernelOnly, connVars
  <2>2. \/ UNCHANGED acceptOp
        \/ /\ acceptOp = "armed"
           /\ acceptOp' = "failed" \/ \E c \in Clients : acceptOp' = c /\ conn[c] = "none"
    BY <1>2 DEF KernelStep, Fails, Connects, ReceivesHead, ReceivesBody, Sends
  <2>3. (BusyForClient /\ OneAccept /\ NewClient)'
    BY <2>1, <2>2, ServerAssumption DEF BusyForClient, OneAccept, NewClient, AtAccept
  <2>4. serving = "destroyed" => UNCHANGED <<acceptOp, op>>
    BY <1>2 DEF KernelStep, Fails, Connects, ReceivesHead, ReceivesBody, Sends, Phases, NoOp, Operation
  <2>5. Phases'
    BY <2>1, <2>4 DEF Phases
  <2>6. DestroyedByThrow'
    BY <2>1 DEF DestroyedByThrow
  <2> QED
    BY <2>3, <2>5, <2>6
<1>3. ASSUME NEW w \in Workers,
             UNCHANGED <<serving, conn, destroyed>>,
             serving \in {"running", "stopping"},
             worker[w].at # "threw",
             \A v \in Workers \ {w} : worker'[v] = worker[v],
             worker'[w].at \in Busy => worker'[w].client \in Clients,
             \/ ~AtAccept(w)' /\ acceptOp' \in {acceptOp, "none", "armed"}
             \/ /\ acceptOp \in Clients /\ acceptOp' = "none"
                /\ worker'[w] = Doing("accepting", acceptOp),
             acceptOp' = "armed" => acceptOp = "armed" \/ AtAccept(w)
      PROVE  Rest'
  <2>1. BusyForClient'
    BY <1>3 DEF BusyForClient
  <2>2. OneAccept' /\ NewClient'
    <3>1. CASE ~AtAccept(w)' /\ acceptOp' \in {acceptOp, "none", "armed"}
      BY <1>3, <3>1, ServerAssumption DEF OneAccept, NewClient, AtAccept
    <3>2. CASE /\ acceptOp \in Clients /\ acceptOp' = "none"
               /\ worker'[w] = Doing("accepting", acceptOp)
      BY <1>3, <3>2, ServerAssumption DEF OneAccept, NewClient, AtAccept, Doing
    <3> QED
      BY <1>3, <3>1, <3>2
  <2>3. Phases'
    BY <1>3 DEF Phases
  <2>4. DestroyedByThrow'
    <3>1. \A v \in Workers, c \in Clients : worker[v] = Doing("threw", c) => worker'[v] = worker[v]
      BY <1>3 DEF Doing
    <3> QED
      BY <1>3, <3>1 DEF DestroyedByThrow
  <2> QED
    BY <2>1, <2>2, <2>3, <2>4
<1>4. \A w \in Workers : worker[w].at \in Busy => serving \in {"running", "stopping"}
  BY DEF Phases, Busy, Idle, Doing, TypeOK
<1> HIDE DEF Rest
<1>5. ASSUME NEW w \in Workers, TakePacket(w)
      PROVE  Rest'
  <2>1. /\ worker[w].at # "threw" /\ serving \in {"running", "stopping"}
        /\ UNCHANGED <<serving, conn, destroyed>>
    BY <1>5 DEF TakePacket, TakeOnly, connVars, Idle, Doing, TakeAccept, TakeFailure, TakePill,
                TakeRead, TakeWrite
  <2>2. CASE TakeAccept(w)
    BY <1>3, <2>1, <2>2, Moved DEF TakeAccept, Busy
  <2>3. CASE TakeFailure(w) \/ TakePill(w)
    BY <1>3, <2>1, <2>3, Moved DEF TakeFailure, TakePill, Busy, AtAccept
  <2>4. ASSUME NEW c \in Clients, TakeRead(w, c) \/ TakeWrite(w, c)
        PROVE  Rest'
    <3>1. UNCHANGED acceptOp
      BY <2>4 DEF TakeRead, TakeWrite
    <3>2. CASE Goes(w, "readingHead", c) \/ Goes(w, "readingBody", c)
      <4>1. /\ worker'[w].at \in {"readingHead", "readingBody"} /\ worker'[w].client = c
            /\ \A v \in Workers \ {w} : worker'[v] = worker[v]
        BY <3>2, Moved
      <4>2. ~AtAccept(w)'
        BY <4>1 DEF AtAccept
      <4> QED
        BY <1>3, <2>1, <3>1, <4>1, <4>2
    <3>3. CASE UNCHANGED worker
      <4>1. worker'[w].at = "idle" /\ \A v \in Workers \ {w} : worker'[v] = worker[v]
        BY <1>5, <3>3 DEF TakePacket, Idle, Doing
      <4>2. ~AtAccept(w)' /\ worker'[w].at \notin Busy
        BY <4>1 DEF AtAccept, Busy
      <4> QED
        BY <1>3, <2>1, <3>1, <4>1, <4>2
    <3> QED
      BY <2>4, <3>2, <3>3 DEF TakeRead, TakeWrite
  <2> QED
    BY <1>5, <2>2, <2>3, <2>4 DEF TakePacket
<1>6. ASSUME NEW w \in Workers, OnAccepted(w)
      PROVE  Rest'
  <2>1. PICK c \in Clients :
           /\ worker[w].at = "accepting" /\ worker[w].client = c /\ conn[c] = "none"
           /\ \A v \in Workers \ {w} : worker'[v] = worker[v]
           /\ conn'[c] \in {"refused", "destroyed", "open"}
           /\ \A d \in Clients \ {c} : conn'[d] = conn[d] /\ destroyed'[d] = destroyed[d]
           /\ \/ /\ worker'[w] = Doing("threw", c) /\ worker'[w].at = "threw"
                 /\ UNCHANGED op
              \/ /\ worker'[w] = Doing("rearming", c) /\ worker'[w].at = "rearming"
                 /\ worker'[w].client = c
                 /\ conn'[c] = "open"
                 /\ UNCHANGED destroyed
           /\ UNCHANGED <<serving, acceptOp>>
    BY <1>6, AcceptedMoves
  <2>2. acceptOp = "none" /\ \A v \in Workers \ {w} : ~AtAccept(v)
    BY <2>1 DEF OneAccept, AtAccept
  <2>3. BusyForClient'
    BY <2>1 DEF BusyForClient, Busy
  <2>4. OneAccept' /\ NewClient'
    BY <2>1, <2>2, ServerAssumption DEF OneAccept, NewClient, AtAccept
  <2>5. serving \in {"running", "stopping"}
    BY <1>4, <2>1 DEF Busy
  <2>6. Phases'
    BY <2>1, <2>5 DEF Phases
  <2>7. DestroyedByThrow'
    <3>1. \A v \in Workers, d \in Clients : worker[v] = Doing("threw", d) => worker'[v] = worker[v]
      BY <2>1 DEF Doing
    <3>2. destroyed[c] = 0
      BY <2>1 DEF DestroyedByThrow
    <3> QED
      BY <2>1, <2>5, <3>1, <3>2 DEF DestroyedByThrow
  <2> QED
    BY <2>3, <2>4, <2>6, <2>7 DEF Rest
<1>7. ASSUME NEW w \in Workers, Rearm(w)
      PROVE  Rest'
  <2>1. /\ worker[w].at = "rearming" /\ UNCHANGED <<serving, conn, destroyed>>
        /\ acceptOp' \in {acceptOp, "armed"}
    BY <1>7 DEF Rearm, AcceptOnly, connVars
  <2>2. /\ worker'[w].at \in {"idle", "threw"}
        /\ \A v \in Workers \ {w} : worker'[v] = worker[v]
    BY <1>7, Moved DEF Rearm
  <2>3. serving \in {"running", "stopping"}
    BY <1>4, <2>1 DEF Busy
  <2> QED
    BY <1>3, <2>1, <2>2, <2>3 DEF AtAccept, Busy
<1>8. ASSUME NEW w \in Workers, NEW c \in Clients, Reads(w, c)
      PROVE  Rest'
  <2>1. UNCHANGED <<serving, conn, destroyed, acceptOp>>
    BY <1>8 DEF Reads, ReadOnly, connVars
  <2>2. serving \in {"running", "stopping"}
    BY <1>4, <1>8 DEF Busy, Reads
  <2>3. /\ worker[w].at # "threw"
        /\ worker[w].client = c
        /\ \A v \in Workers \ {w} : worker'[v] = worker[v]
        /\ worker'[w] = worker[w] \/ worker'[w].at \in {"idle", "threw"}
    BY <1>8, ReadsMoves
  <2>4. ~AtAccept(w)' /\ (worker'[w].at \in Busy => worker'[w].client \in Clients)
    BY <1>8, <2>3 DEF Reads, AtAccept, Busy
  <2> QED
    BY <1>3, <2>1, <2>2, <2>3, <2>4
<1> QED
  BY <1>1, <1>2, <1>5, <1>6, <1>7, <1>8, ReadingSteps DEF Next, WorkerStep, Rest

-----------------------------------------------------------------------------
(* The registry.                                                           *)

\* RegistryExact pair by pair.
ExactPairs ==
  /\ \A name \in DOMAIN handlerRegistries : handlerRegistries[name] # {}
  /\ \A name \in DOMAIN handlerRegistries : \A method \in handlerRegistries[name] :
       <<name, method>> \in registered
  /\ \A p \in registered :
       \E name \in DOMAIN handlerRegistries : \E method \in handlerRegistries[name] :
         p = <<name, method>>

LEMMA ExactByPairs == ExactPairs <=> RegistryExact
<1> DEFINE all == UNION {{name} \X handlerRegistries[name] : name \in DOMAIN handlerRegistries}
<1>1. \A p : p \in all <=>
        \E name \in DOMAIN handlerRegistries : \E method \in handlerRegistries[name] :
          p = <<name, method>>
  OBVIOUS
<1> HIDE DEF all
<1>2. ASSUME ExactPairs PROVE all = registered
  BY <1>1, <1>2 DEF ExactPairs
<1>3. ASSUME all = registered PROVE
        /\ \A name \in DOMAIN handlerRegistries : \A method \in handlerRegistries[name] :
             <<name, method>> \in registered
        /\ \A p \in registered :
             \E name \in DOMAIN handlerRegistries : \E method \in handlerRegistries[name] :
               p = <<name, method>>
  BY <1>1, <1>3
<1>4. RegistryExact <=>
        /\ \A name \in DOMAIN handlerRegistries : handlerRegistries[name] # {}
        /\ all = registered
  BY DEF RegistryExact, all
<1> QED
  BY <1>2, <1>3, <1>4 DEF ExactPairs

\* registerHandler keeps the registry exact, whether it succeeds or not.
LEMMA RegisterKeepsExact ==
  ASSUME ExactPairs, NEW name, NEW method, RegisterHandler(name, method)
  PROVE  ExactPairs'
<1>1. CASE RegisterOk(name, method)
  <2>1. /\ DOMAIN handlerRegistries' = DOMAIN handlerRegistries \cup {name}
        /\ \A n \in DOMAIN handlerRegistries \ {name} :
             handlerRegistries'[n] = handlerRegistries[n]
        /\ handlerRegistries'[name] =
             (IF name \in DOMAIN handlerRegistries THEN handlerRegistries[name] ELSE {})
             \cup {method}
        /\ registered' = registered \cup {<<name, method>>}
    BY <1>1, RegisteredAdds
  <2>2. \A n \in DOMAIN handlerRegistries' : handlerRegistries'[n] # {}
    BY <2>1 DEF ExactPairs
  <2>3. \A n \in DOMAIN handlerRegistries' : \A m \in handlerRegistries'[n] :
          <<n, m>> \in registered'
    BY <2>1 DEF ExactPairs
  <2>4. ASSUME NEW p \in registered'
        PROVE  \E n \in DOMAIN handlerRegistries' : \E m \in handlerRegistries'[n] : p = <<n, m>>
    <3>1. CASE p \in registered
      <4>1. PICK n \in DOMAIN handlerRegistries : \E m \in handlerRegistries[n] : p = <<n, m>>
        BY <3>1 DEF ExactPairs
      <4>2. PICK m \in handlerRegistries[n] : p = <<n, m>>
        BY <4>1
      <4>3. n \in DOMAIN handlerRegistries' /\ m \in handlerRegistries'[n]
        BY <2>1, <4>1, <4>2
      <4> QED
        BY <4>2, <4>3
    <3>2. CASE p = <<name, method>>
      BY <2>1, <3>2
    <3> QED
      BY <2>1, <3>1, <3>2
  <2> QED
    BY <2>2, <2>3, <2>4 DEF ExactPairs
<1>2. CASE HandlerRefused(name)
  <2>1. /\ DOMAIN handlerRegistries' = DOMAIN handlerRegistries
        /\ \A n \in DOMAIN handlerRegistries : handlerRegistries'[n] = handlerRegistries[n]
        /\ registered' = registered
    BY <1>2, RefusedChangesNothing
  <2> QED
    BY <2>1 DEF ExactPairs
<1>3. CASE RegistryRefused(name)
  BY <1>3 DEF RegistryRefused, registryVars, ExactPairs
<1> QED
  BY <1>1, <1>2, <1>3 DEF RegisterHandler

\* Once the server runs, every handler is registered.
AllRegistered == serving # "setup" => registered = Handlers

LEMMA RegistryInvInit == Init => ExactPairs /\ AllRegistered
BY DEF Init, RegistryInit, ExactPairs, AllRegistered

LEMMA RegistryInvStep ==
  ASSUME ExactPairs, AllRegistered, Core, Next
  PROVE  ExactPairs' /\ AllRegistered'
<1>1. CASE RegisterHandlers
  <2>1. PICK name, method : RegisterHandler(name, method)
    BY <1>1 DEF RegisterHandlers
  <2> QED
    BY <1>1, <2>1, RegisterKeepsExact DEF RegisterHandlers, AllRegistered
<1>2. CASE UNCHANGED <<handlerRegistries, registered>> /\
           (serving = "setup" /\ serving' # "setup" => registered = Handlers)
  BY <1>2 DEF ExactPairs, AllRegistered
<1>3. CASE EnterRun \/ LeaveSleep \/ ReturnFromRun \/ ReleaseCallback \/ DestroyServer
  BY <1>2, <1>3 DEF EnterRun, LeaveSleep, ReturnFromRun, ReleaseCallback, DestroyServer,
                    MainOnly, registryVars
<1>4. CASE KernelStep
  BY <1>2, <1>4 DEF KernelStep, Fails, Connects, ReceivesHead, ReceivesBody, Sends, KernelOnly,
                    registryVars
<1>5. ASSUME NEW w \in Workers, WorkerStep(w)
      PROVE  UNCHANGED <<handlerRegistries, registered, serving>>
  <2>1. CASE TakePacket(w)
    BY <2>1 DEF TakePacket, TakeAccept, TakeFailure, TakePill, TakeRead, TakeWrite, TakeOnly,
                registryVars
  <2>2. CASE OnAccepted(w) \/ Rearm(w)
    BY <2>2 DEF OnAccepted, Rearm, AcceptOnly, registryVars
  <2>3. CASE OnHeadRead(w) \/ OnBodyRead(w)
    BY <2>3 DEF OnHeadRead, OnBodyRead, ReadOnly, registryVars
  <2> QED
    BY <1>5, <2>1, <2>2, <2>3 DEF WorkerStep
<1> QED
  BY <1>1, <1>2, <1>3, <1>4, <1>5 DEF Next, MainStep

-----------------------------------------------------------------------------
(* The accept and the connections are not forgotten, nor used when gone.   *)

\* The accept is in flight or at a worker, or one threw, or its error is lost.
AcceptKept ==
  serving # "destroyed" /\ acceptOp = "none" =>
    \/ "accept" \in unreported
    \/ \E w \in Workers : worker[w].at \in {"accepting", "rearming", "threw"}

ConnectionKept ==
  \A c \in Clients :
    /\ op[c].what = "write" => c \in answered
    /\ /\ serving \in {"setup", "running", "stopping"}
       /\ conn[c] = "open" /\ op[c] = NoOp /\ c \notin answered
       => \/ c \in unreported
          \/ \E w \in Workers :
               worker[w].at \in {"readingHead", "readingBody", "threw"} /\ worker[w].client = c

Kept == AcceptKept /\ ConnectionKept /\ CallbacksSeeLiveConnections

LEMMA KeptInit == Init => Kept
<1> SUFFICES ASSUME Init PROVE Kept
  OBVIOUS
<1>1. \A c \in Clients : op[c] = NoOp /\ op[c].what # "write" /\ conn[c] = "none"
  BY DEF Init, NoOp
<1>2. \A w \in Workers : worker[w].at = "idle"
  BY DEF Init, Idle, Doing
<1> QED
  BY <1>1, <1>2 DEF Init, Kept, AcceptKept, ConnectionKept, CallbacksSeeLiveConnections

\* Steps that leave the workers alone keep it.
LEMMA KeptFrame ==
  ASSUME Kept,
         UNCHANGED <<worker, conn, unreported, answered>>,
         serving' # "destroyed" => serving # "destroyed",
         serving' \in {"setup", "running", "stopping"} =>
           serving \in {"setup", "running", "stopping"},
         acceptOp' = "none" => acceptOp = "none",
         \A c \in Clients : op'[c].what = op[c].what /\ (op'[c] = NoOp <=> op[c] = NoOp)
  PROVE  Kept'
<1>1. AcceptKept'
  BY DEF Kept, AcceptKept
<1>2. ConnectionKept'
  BY DEF Kept, ConnectionKept
<1>3. CallbacksSeeLiveConnections'
  BY DEF Kept, CallbacksSeeLiveConnections
<1> QED
  BY <1>1, <1>2, <1>3 DEF Kept

\* A worker at w takes a step for client c that neither opens nor closes c.
LEMMA KeptWorker ==
  ASSUME Kept, NEW w \in Workers, NEW c,
         UNCHANGED <<serving, conn>>,
         \A v \in Workers \ {w} : worker'[v] = worker[v],
         worker[w].at # "threw",
         worker[w].at \in {"readingHead", "readingBody"} => worker[w].client = c,
         worker'[w].at \in {"rearming", "readingHead", "readingBody"} =>
           c \in Clients /\ conn[c] = "open" /\ worker'[w].client = c,
         unreported \subseteq unreported', answered \subseteq answered',
         \/ acceptOp' = acceptOp /\ worker[w].at \notin {"accepting", "rearming"}
         \/ acceptOp' # "none"
         \/ "accept" \in unreported'
         \/ worker'[w].at \in {"accepting", "rearming", "threw"},
         \A d \in Clients \ {c} : op'[d] = op[d],
         c \in Clients =>
           /\ op'[c].what = "write" => c \in answered'
           /\ op'[c] # NoOp => conn[c] = "open"
           /\ op'[c] = NoOp =>
                \/ conn[c] # "open"
                \/ c \in unreported' \cup answered'
                \/ /\ worker'[w].at \in {"readingHead", "readingBody", "threw"}
                   /\ worker'[w].client = c
                \/ op[c] = NoOp /\ worker[w].at \notin {"readingHead", "readingBody"}
  PROVE  Kept'
<1>1. AcceptKept'
  <2>1. ASSUME NEW v \in Workers \ {w}, worker[v].at \in {"accepting", "rearming", "threw"}
        PROVE  worker'[v].at \in {"accepting", "rearming", "threw"}
    BY <2>1
  <2> QED
    BY <2>1 DEF Kept, AcceptKept
<1>2. ConnectionKept'
  <2> SUFFICES ASSUME NEW d \in Clients
               PROVE  /\ op'[d].what = "write" => d \in answered'
                      /\ /\ serving \in {"setup", "running", "stopping"}
                         /\ conn[d] = "open" /\ op'[d] = NoOp /\ d \notin answered'
                         => \/ d \in unreported'
                            \/ \E v \in Workers :
                                 /\ worker'[v].at \in {"readingHead", "readingBody", "threw"}
                                 /\ worker'[v].client = d
    BY DEF ConnectionKept
  <2>1. /\ op[d].what = "write" => d \in answered
        /\ /\ serving \in {"setup", "running", "stopping"}
           /\ conn[d] = "open" /\ op[d] = NoOp /\ d \notin answered
           => \/ d \in unreported
              \/ \E v \in Workers :
                   worker[v].at \in {"readingHead", "readingBody", "threw"} /\ worker[v].client = d
    BY DEF Kept, ConnectionKept
  <2>2. ASSUME NEW v \in Workers,
               worker[v].at \in {"readingHead", "readingBody", "threw"}, worker[v].client = d,
               v # w
        PROVE  worker'[v].at \in {"readingHead", "readingBody", "threw"} /\ worker'[v].client = d
    BY <2>2
  <2>3. CASE d # c
    BY <2>1, <2>2, <2>3
  <2>4. CASE d = c
    BY <2>1, <2>2, <2>4
  <2> QED
    BY <2>3, <2>4
<1>3. CallbacksSeeLiveConnections'
  BY DEF Kept, CallbacksSeeLiveConnections
<1> QED
  BY <1>1, <1>2, <1>3 DEF Kept

LEMMA KeptStep ==
  ASSUME Kept, Core, Next
  PROVE  Kept'
<1>0. TypeOK /\ Phases /\ NewClient
  BY DEF Core
<1>1. CASE MainStep
  <2>1. CASE RegisterHandlers \/ EnterRun \/ LeaveSleep \/ ReturnFromRun \/ ReleaseCallback
    <3>1. UNCHANGED <<worker, conn, unreported, answered, acceptOp, op>>
      BY <2>1 DEF RegisterHandlers, EnterRun, LeaveSleep, ReturnFromRun, ReleaseCallback, MainOnly,
                  connVars, answerVars
    <3>2. /\ serving' # "destroyed" => serving # "destroyed"
          /\ serving' \in {"setup", "running", "stopping"} =>
               serving \in {"setup", "running", "stopping"}
      BY <2>1 DEF RegisterHandlers, EnterRun, LeaveSleep, ReturnFromRun, ReleaseCallback
    <3> QED
      BY <3>1, <3>2, KeptFrame
  <2>2. CASE DestroyServer
    <3>1. /\ serving' = "destroyed" /\ UNCHANGED worker
          /\ \A c \in Clients : op'[c] = NoOp
          /\ \A w \in Workers : worker[w].at = "ended"
      BY <1>0, <2>2 DEF DestroyServer, MainOnly, Phases
    <3>2. NoOp.what # "write"
      BY DEF NoOp
    <3> QED
      BY <3>1, <3>2 DEF Kept, AcceptKept, ConnectionKept, CallbacksSeeLiveConnections
  <2> QED
    BY <1>1, <2>1, <2>2 DEF MainStep
<1>2. CASE KernelStep
  <2>1. UNCHANGED <<worker, conn, unreported, answered, serving>>
    BY <1>2 DEF KernelStep, Fails, Connects, ReceivesHead, ReceivesBody, Sends, KernelOnly,
                connVars, answerVars
  <2>2. acceptOp' = "none" => acceptOp = "none"
    BY <1>2, ServerAssumption DEF KernelStep, Fails, Connects, ReceivesHead, ReceivesBody, Sends
  <2>3. \A c \in Clients : op'[c].what = op[c].what /\ (op'[c] = NoOp <=> op[c] = NoOp)
    <3>1. \A what : \A at \in {"pending", "queued", "failed"} :
            Operation(what, at) # NoOp /\ Operation(what, at).what = what
              /\ Operation(what, at).at = at
      BY DEF Operation, NoOp
    <3>2. NoOp.at = "none"
      BY DEF NoOp
    <3>3. CASE UNCHANGED op
      BY <3>3
    <3>4. ASSUME NEW c \in Clients, NEW at \in {"queued", "failed"}, op[c].at = "pending",
                 op' = [op EXCEPT ![c] = Operation(op[c].what, at)]
          PROVE  \A d \in Clients : op'[d].what = op[d].what /\ (op'[d] = NoOp <=> op[d] = NoOp)
      BY <1>0, <3>1, <3>2, <3>4 DEF TypeOK
    <3>5. CASE Fails
      BY <3>3, <3>4, <3>5 DEF Fails
    <3>6. ASSUME NEW c \in Clients, Connects(c)
          PROVE  UNCHANGED op
      BY <3>6 DEF Connects
    <3>7. ASSUME NEW c \in Clients, ReceivesHead(c) \/ ReceivesBody(c) \/ Sends(c)
          PROVE  op[c].at = "pending" /\ op' = [op EXCEPT ![c] = Operation(op[c].what, "queued")]
      BY <3>1, <3>7 DEF ReceivesHead, ReceivesBody, Sends
    <3> QED
      BY <1>2, <3>3, <3>4, <3>5, <3>6, <3>7 DEF KernelStep
  <2> QED
    BY <2>1, <2>2, <2>3, KeptFrame
<1>3. ASSUME NEW w \in Workers, TakePacket(w)
      PROVE  Kept'
  <2>1. /\ UNCHANGED <<serving, conn, answered>>
        /\ worker[w] = Idle /\ worker[w].at = "idle"
        /\ unreported \subseteq unreported'
    BY <1>3 DEF TakePacket, TakeOnly, connVars, answerVars, Idle, Doing, TakeAccept, TakeFailure,
                TakePill, TakeRead, TakeWrite, LosesError
  <2>2. CASE TakeAccept(w)
    <3>1. /\ worker'[w].at = "accepting"
          /\ \A v \in Workers \ {w} : worker'[v] = worker[v]
          /\ op' = op
      BY <1>0, <2>2, Moved DEF TakeAccept
    <3> QED
      BY <2>1, <3>1, KeptWorker, ServerAssumption DEF Kept, ConnectionKept
  <2>3. CASE TakePill(w)
    <3>1. /\ worker'[w].at = "ended"
          /\ \A v \in Workers \ {w} : worker'[v] = worker[v]
          /\ op' = op /\ acceptOp' = acceptOp
      BY <1>0, <2>3, Moved DEF TakePill
    <3> QED
      BY <2>1, <3>1, KeptWorker, ServerAssumption DEF Kept, ConnectionKept
  <2>4. CASE TakeFailure(w)
    <3>1. CASE /\ op' = op
               /\ Goes(w, "threw", NoClient) \/ (Goes(w, "ended", NoClient) /\ LosesError("accept"))
      <4>1. /\ worker'[w].at = "threw" \/ (worker'[w].at = "ended" /\ "accept" \in unreported')
            /\ \A v \in Workers \ {w} : worker'[v] = worker[v]
        BY <1>0, <3>1, Moved DEF LosesError
      <4> QED
        BY <2>1, <3>1, <4>1, KeptWorker, ServerAssumption DEF Kept, ConnectionKept
    <3>2. ASSUME NEW c \in Clients, op' = [op EXCEPT ![c] = NoOp], UNCHANGED acceptOp,
                 Goes(w, "threw", c) \/ (Goes(w, "ended", c) /\ LosesError(c))
          PROVE  Kept'
      <4>1. /\ \/ worker'[w].at = "threw" /\ worker'[w].client = c
               \/ worker'[w].at = "ended" /\ c \in unreported'
            /\ \A v \in Workers \ {w} : worker'[v] = worker[v]
        BY <1>0, <3>2, Moved DEF LosesError
      <4>2. op'[c] = NoOp /\ NoOp.what # "write" /\ \A d \in Clients \ {c} : op'[d] = op[d]
        BY <1>0, <3>2 DEF TypeOK, NoOp
      <4> QED
        BY <2>1, <3>2, <4>1, <4>2, KeptWorker
    <3> QED
      BY <2>4, <3>1, <3>2 DEF TakeFailure
  <2>5. ASSUME NEW c \in Clients, TakeRead(w, c)
        PROVE  Kept'
    <3>1. op[c] # NoOp /\ NoOp.what # "write" /\ UNCHANGED acceptOp
      BY <2>5 DEF TakeRead, NoOp, Operation
    <3>2. conn[c] = "open"
      BY <3>1 DEF Kept, CallbacksSeeLiveConnections
    <3>3. op'[c] = NoOp /\ \A d \in Clients \ {c} : op'[d] = op[d]
      BY <1>0, <2>5 DEF TypeOK, TakeRead
    <3>4. /\ worker'[w].at \in {"readingHead", "readingBody"} /\ worker'[w].client = c
          /\ \A v \in Workers \ {w} : worker'[v] = worker[v]
      BY <1>0, <2>5, Moved DEF TakeRead
    <3> QED
      BY <2>1, <3>1, <3>2, <3>3, <3>4, KeptWorker
  <2>6. ASSUME NEW c \in Clients, TakeWrite(w, c)
        PROVE  Kept'
    <3>1. op[c].what = "write" /\ NoOp.what # "write" /\ UNCHANGED <<acceptOp, worker>>
      BY <2>6 DEF TakeWrite, NoOp, Operation
    <3>2. c \in answered
      BY <3>1 DEF Kept, ConnectionKept
    <3>3. op'[c] = NoOp /\ \A d \in Clients \ {c} : op'[d] = op[d]
      BY <1>0, <2>6 DEF TypeOK, TakeWrite
    <3> QED
      BY <2>1, <3>1, <3>2, <3>3, KeptWorker
  <2> QED
    BY <1>3, <2>2, <2>3, <2>4, <2>5, <2>6 DEF TakePacket
<1>4. ASSUME NEW w \in Workers, OnAccepted(w)
      PROVE  Kept'
  <2>1. PICK c \in Clients :
           /\ worker[w].at = "accepting" /\ worker[w].client = c /\ conn[c] = "none"
           /\ \A v \in Workers \ {w} : worker'[v] = worker[v]
           /\ conn'[c] \in {"refused", "destroyed", "open"}
           /\ \A d \in Clients \ {c} : conn'[d] = conn[d] /\ destroyed'[d] = destroyed[d]
           /\ \/ /\ worker'[w] = Doing("threw", c) /\ worker'[w].at = "threw"
                 /\ UNCHANGED op
              \/ /\ worker'[w] = Doing("rearming", c) /\ worker'[w].at = "rearming"
                 /\ worker'[w].client = c
                 /\ conn'[c] = "open"
                 /\ UNCHANGED destroyed
           /\ UNCHANGED <<serving, acceptOp>>
    BY <1>4, AcceptedMoves
  <2>2. op[c] = NoOp /\ \A v \in Workers :
          worker[v].at \in {"readingHead", "readingBody"} => worker[v].client # c
    BY <2>1 DEF Kept, CallbacksSeeLiveConnections
  <2>3. /\ UNCHANGED answered /\ unreported \subseteq unreported'
        /\ \A d \in Clients \ {c} : op'[d] = op[d]
        /\ op'[c] # NoOp => op'[c] = Operation("head", "pending") /\ conn'[c] = "open"
        /\ op'[c] = NoOp /\ conn'[c] = "open" => c \in unreported'
    <3>1. Operation("head", "pending") # NoOp
      BY DEF Operation, NoOp
    <3>2. CASE NoConnection(w, c) \/ NotAdded(w, c) \/ NotRead(w, c)
      BY <1>0, <1>4, <2>2, <3>2 DEF NoConnection, NotAdded, NotRead, OnAccepted, AcceptOnly,
                               answerVars, TypeOK
    <3>3. CASE Opened(w, c)
      BY <1>0, <1>4, <2>2, <3>1, <3>3 DEF Opened, OnAccepted, AcceptOnly, answerVars, TypeOK,
                                          LosesError
    <3> QED
      BY <1>4, <2>1, <3>2, <3>3 DEF OnAccepted
  <2>4. AcceptKept'
    BY <2>1 DEF AcceptKept
  <2>5. ConnectionKept'
    <3> SUFFICES ASSUME NEW d \in Clients
                 PROVE  /\ op'[d].what = "write" => d \in answered'
                        /\ /\ serving \in {"setup", "running", "stopping"}
                           /\ conn'[d] = "open" /\ op'[d] = NoOp /\ d \notin answered'
                           => \/ d \in unreported'
                              \/ \E v \in Workers :
                                   /\ worker'[v].at \in {"readingHead", "readingBody", "threw"}
                                   /\ worker'[v].client = d
      BY <2>1 DEF ConnectionKept
    <3>1. CASE d = c
      BY <2>3, <3>1 DEF Operation, NoOp
    <3>2. CASE d # c
      BY <2>1, <2>3, <3>2 DEF Kept, ConnectionKept
    <3> QED
      BY <3>1, <3>2
  <2>6. CallbacksSeeLiveConnections'
    <3> SUFFICES ASSUME NEW d \in Clients,
                        \/ op'[d] # NoOp
                        \/ \E v \in Workers :
                             /\ worker'[v].client = d
                             /\ worker'[v].at \in {"rearming", "readingHead", "readingBody"}
                 PROVE  conn'[d] = "open"
      BY DEF CallbacksSeeLiveConnections
    <3>1. CASE d = c
      BY <2>1, <2>2, <2>3, <3>1 DEF Kept, CallbacksSeeLiveConnections
    <3>2. CASE d # c
      BY <2>1, <2>3, <3>2 DEF Kept, CallbacksSeeLiveConnections
    <3> QED
      BY <3>1, <3>2
  <2> QED
    BY <2>4, <2>5, <2>6 DEF Kept
<1>5. ASSUME NEW w \in Workers, Rearm(w)
      PROVE  Kept'
  <2>1. /\ worker[w].at = "rearming"
        /\ UNCHANGED <<serving, conn, answered, op>>
        /\ unreported \subseteq unreported'
    BY <1>5 DEF Rearm, AcceptOnly, connVars, answerVars, LosesError
  <2>2. /\ worker'[w].at \in {"idle", "threw"}
        /\ \A v \in Workers \ {w} : worker'[v] = worker[v]
        /\ worker'[w].at = "threw" \/ acceptOp' = "armed" \/ "accept" \in unreported'
    BY <1>0, <1>5, Moved DEF Rearm, LosesError
  <2> QED
    BY <2>1, <2>2, KeptWorker, ServerAssumption
<1>6. ASSUME NEW w \in Workers, NEW c \in Clients, Reads(w, c)
      PROVE  Kept'
  <2>1. /\ worker[w].at \in {"readingHead", "readingBody"} /\ worker[w].client = c
        /\ conn[c] = "open"
        /\ UNCHANGED <<serving, conn, acceptOp>>
    BY <1>0, <1>6 DEF Reads, ReadOnly, connVars, Kept, CallbacksSeeLiveConnections
  <2>2. CASE Posts(w, c)
    <3>1. \A what : Operation(what, "pending") # NoOp /\ Operation(what, "pending").what = what
      BY DEF Operation, NoOp
    <3>2. /\ worker'[w].at = "idle" /\ \A v \in Workers \ {w} : worker'[v] = worker[v]
          /\ UNCHANGED unreported
      BY <1>0, <2>2, Moved DEF Posts
    <3>3. /\ op'[c] # NoOp /\ \A d \in Clients \ {c} : op'[d] = op[d]
          /\ op'[c].what = "write" => c \in answered'
          /\ answered \subseteq answered'
      BY <1>0, <2>2, <3>1 DEF Posts, TypeOK, answerVars
    <3> QED
      BY <2>1, <3>2, <3>3, KeptWorker
  <2>3. CASE Refused(w, c)
    <3>1. /\ \/ worker'[w].at = "threw" /\ worker'[w].client = c
             \/ worker'[w].at = "idle" /\ c \in unreported'
          /\ \A v \in Workers \ {w} : worker'[v] = worker[v]
          /\ UNCHANGED <<op, answered>> /\ unreported \subseteq unreported'
      BY <1>0, <2>1, <2>3, Moved DEF Refused, answerVars
    <3> QED
      BY <2>1, <3>1, KeptWorker DEF Kept, ConnectionKept
  <2>4. CASE EndsProcess({"unmappedError", "unhandledAssert", "stopAssert", "parseError"})
    <3>1. UNCHANGED <<worker, conn, unreported, answered, serving, acceptOp, op>>
      BY <2>1, <2>4 DEF EndsProcess, answerVars
    <3> QED
      BY <3>1, KeptFrame
  <2> QED
    BY <1>6, <2>2, <2>3, <2>4 DEF Reads, CallbackEnds
<1> QED
  BY <1>1, <1>2, <1>3, <1>4, <1>5, <1>6, ReadingSteps DEF Next, WorkerStep, Core

-----------------------------------------------------------------------------
(* One buffer for all heads.                                               *)

OneHead == \A c, d \in HeadReaders : c = d

\* While no two heads were received at one time, the head that was received is
\* in the buffer, until it is parsed.
HeadInBuffer ==
  /\ \A c \in Clients : op[c] = Operation("head", "queued") => buffer = c
  /\ \A w \in Workers : worker[w].at = "readingHead" => buffer = worker[w].client

Heads ==
  /\ IsFiniteSet(HeadReaders)
  /\ ~shared => OneHead /\ HeadInBuffer /\ corrupt = {}

\* A finite set with two elements has more than one.
LEMMA TwoElements ==
  ASSUME NEW S, IsFiniteSet(S), NEW c \in S, NEW d \in S, c # d
  PROVE  Cardinality(S) > 1
<1>1. IsFiniteSet({c}) /\ Cardinality({c}) = 1
  BY FS_Singleton
<1>2. IsFiniteSet({c} \cup {d}) /\ Cardinality({c} \cup {d}) = 2
  <2>1. d \notin {c} /\ 1 + 1 = 2
    OBVIOUS
  <2>2. /\ IsFiniteSet({c} \cup {d})
        /\ Cardinality({c} \cup {d}) = IF d \in {c} THEN Cardinality({c}) ELSE Cardinality({c}) + 1
    BY <1>1, FS_AddElement
  <2> QED
    BY <1>1, <2>1, <2>2
<1>3. {c} \cup {d} \subseteq S
  OBVIOUS
<1>4. Cardinality({c} \cup {d}) <= Cardinality(S) /\ Cardinality(S) \in Nat
  BY <1>3, FS_Subset, FS_CardinalityType
<1> QED
  BY <1>2, <1>4

LEMMA WhoReads ==
  \A c : c \in HeadReaders <=>
    \/ c \in Clients /\ op[c].what = "head"
    \/ \E w \in Workers : worker[w].at = "readingHead" /\ worker[w].client = c
BY DEF HeadReaders

LEMMA HeadsInit == Init => Heads
<1> SUFFICES ASSUME Init PROVE Heads
  OBVIOUS
<1>1. \A c \in Clients : op[c] = NoOp /\ op[c].what # "head" /\ NoOp # Operation("head", "queued")
  BY DEF Init, NoOp, Operation
<1>2. \A w \in Workers : worker[w].at # "readingHead"
  BY DEF Init, Idle, Doing
<1>3. HeadReaders = {}
  BY <1>1, <1>2, WhoReads
<1> QED
  BY <1>1, <1>2, <1>3, FS_EmptySet DEF Heads, OneHead, HeadInBuffer, Init

\* A step after which at most x is a new reader of a head keeps it, when what
\* was received is still in the buffer.
LEMMA HeadsFrame ==
  ASSUME Heads, Next, NEW x,
         \A d \in Clients \ {x} : op'[d].what = "head" => op[d].what = "head",
         \A v \in Workers :
           worker'[v].at = "readingHead" =>
             \/ worker'[v] = worker[v]
             \/ /\ worker'[v].client \in Clients
                /\ op[worker'[v].client] = Operation("head", "queued"),
         \/ /\ UNCHANGED buffer
            /\ \A d \in Clients :
                 op'[d] = Operation("head", "queued") => op[d] = Operation("head", "queued")
         \/ buffer' = x /\ x \in HeadReaders',
         HeadInBuffer => corrupt' = corrupt
  PROVE  Heads'
<1>1. Operation("head", "queued").what = "head"
  BY DEF Operation
<1>2. HeadReaders' \subseteq HeadReaders \cup {x}
  <2> SUFFICES ASSUME NEW c \in HeadReaders', c # x
               PROVE  c \in HeadReaders
    OBVIOUS
  <2>1. \/ c \in Clients /\ op'[c].what = "head"
        \/ \E w \in Workers : worker'[w].at = "readingHead" /\ worker'[w].client = c
    BY WhoReads DEF HeadReaders
  <2>2. CASE c \in Clients /\ op'[c].what = "head"
    BY <2>2, WhoReads
  <2>3. CASE \E w \in Workers : worker'[w].at = "readingHead" /\ worker'[w].client = c
    BY <1>1, <2>3, WhoReads
  <2> QED
    BY <2>1, <2>2, <2>3
<1>3. IsFiniteSet(HeadReaders')
  BY <1>2, FS_AddElement, FS_Subset DEF Heads
<1>4. shared' = (shared \/ Cardinality(HeadReaders') > 1)
  BY DEF Next
<1>5. ASSUME ~shared'
      PROVE  OneHead' /\ ~shared
  BY <1>3, <1>4, <1>5, TwoElements DEF OneHead
<1>6. ASSUME ~shared'
      PROVE  HeadInBuffer'
  <2>1. ~shared /\ OneHead' /\ HeadInBuffer
    BY <1>5, <1>6 DEF Heads
  <2>2. /\ \A c \in Clients : op'[c] = Operation("head", "queued") => c \in HeadReaders'
        /\ \A w \in Workers : worker'[w].at = "readingHead" => worker'[w].client \in HeadReaders'
    BY <1>1 DEF HeadReaders
  <2>3. CASE buffer' = x /\ x \in HeadReaders'
    BY <2>1, <2>2, <2>3 DEF OneHead, HeadInBuffer
  <2>4. CASE /\ UNCHANGED buffer
             /\ \A d \in Clients :
                  op'[d] = Operation("head", "queued") => op[d] = Operation("head", "queued")
    BY <2>1, <2>4 DEF HeadInBuffer
  <2> QED
    BY <2>3, <2>4
<1>7. ~shared' => corrupt' = {}
  BY <1>5 DEF Heads
<1> QED
  BY <1>3, <1>5, <1>6, <1>7 DEF Heads

LEMMA HeadsStep ==
  ASSUME Heads, Core, Next
  PROVE  Heads'
<1>0. TypeOK /\ BusyForClient
  BY DEF Core
<1>10. /\ \A what : \A at : Operation(what, at).what = what /\ Operation(what, at).at = at
      /\ NoOp.what = "none"
  BY DEF Operation, NoOp
<1>1. CASE MainStep
  <2>1. UNCHANGED <<worker, buffer, corrupt>>
    BY <1>1 DEF MainStep, RegisterHandlers, EnterRun, LeaveSleep, ReturnFromRun, ReleaseCallback,
                DestroyServer, MainOnly
  <2>2. \A d \in Clients : op'[d] \in {op[d], NoOp}
    BY <1>1 DEF MainStep, RegisterHandlers, EnterRun, LeaveSleep, ReturnFromRun, ReleaseCallback,
                DestroyServer
  <2> QED
    BY <1>10, <2>1, <2>2, HeadsFrame
<1>2. CASE Fails
  <2>1. UNCHANGED <<worker, buffer, corrupt>>
    BY <1>2 DEF Fails, KernelOnly
  <2>2. \A d \in Clients : op'[d] \in {op[d], Operation(op[d].what, "failed")}
    BY <1>0, <1>2 DEF Fails, TypeOK
  <2> QED
    BY <1>10, <2>1, <2>2, HeadsFrame
<1>3. ASSUME NEW c \in Clients, Connects(c) \/ ReceivesBody(c) \/ Sends(c)
      PROVE  Heads'
  <2>1. UNCHANGED <<worker, buffer, corrupt>>
    BY <1>3 DEF Connects, ReceivesBody, Sends, KernelOnly
  <2>2. \A d \in Clients : op'[d] \in {op[d], Operation("body", "queued"), Operation("write", "queued")}
    BY <1>0, <1>3 DEF Connects, ReceivesBody, Sends, TypeOK
  <2> QED
    BY <1>10, <2>1, <2>2, HeadsFrame
<1>4. ASSUME NEW c \in Clients, ReceivesHead(c)
      PROVE  Heads'
  <2>1. UNCHANGED <<worker, corrupt>> /\ buffer' = c
    BY <1>4 DEF ReceivesHead, KernelOnly
  <2>2. op'[c].what = "head" /\ \A d \in Clients \ {c} : op'[d] = op[d]
    BY <1>0, <1>10, <1>4 DEF ReceivesHead, TypeOK
  <2>3. c \in HeadReaders'
    BY <2>2 DEF HeadReaders
  <2> QED
    BY <2>1, <2>2, <2>3, HeadsFrame
<1>5. ASSUME NEW w \in Workers, TakePacket(w)
      PROVE  Heads'
  <2>1. UNCHANGED <<buffer, corrupt>>
    BY <1>5 DEF TakePacket, TakeOnly, TakeAccept, TakeFailure, TakePill, TakeRead, TakeWrite
  <2>2. \A d \in Clients : op'[d] \in {op[d], NoOp}
    BY <1>0, <1>5 DEF TakePacket, TakeAccept, TakeFailure, TakePill, TakeRead, TakeWrite, TypeOK
  <2>3. \A v \in Workers : worker'[v].at = "readingHead" =>
          \/ worker'[v] = worker[v]
          \/ /\ worker'[v].client \in Clients
             /\ op[worker'[v].client] = Operation("head", "queued")
    <3>1. CASE TakeAccept(w) \/ TakeFailure(w) \/ TakePill(w)
      <4>1. \E what \in {"accepting", "threw", "ended"} : \E c : Goes(w, what, c)
        BY <3>1 DEF TakeAccept, TakeFailure, TakePill
      <4>2. /\ worker'[w].at \in {"accepting", "threw", "ended"}
            /\ \A v \in Workers \ {w} : worker'[v] = worker[v]
        BY <1>0, <4>1, Moved
      <4> QED
        BY <4>2
    <3>2. ASSUME NEW c \in Clients, TakeRead(w, c)
          PROVE  /\ \A v \in Workers \ {w} : worker'[v] = worker[v]
                 /\ worker'[w].at = "readingHead" =>
                      worker'[w].client = c /\ op[c] = Operation("head", "queued")
      BY <1>0, <3>2, Moved DEF TakeRead
    <3>3. ASSUME NEW c \in Clients, TakeWrite(w, c)
          PROVE  UNCHANGED worker
      BY <3>3 DEF TakeWrite
    <3> QED
      BY <1>5, <3>1, <3>2, <3>3 DEF TakePacket
  <2> QED
    BY <1>10, <2>1, <2>2, <2>3, HeadsFrame
<1>6. ASSUME NEW w \in Workers, OnAccepted(w)
      PROVE  Heads'
  <2>1. PICK c \in Clients :
           /\ \A v \in Workers \ {w} : worker'[v] = worker[v]
           /\ \/ worker'[w] = Doing("threw", c) /\ worker'[w].at = "threw"
              \/ worker'[w] = Doing("rearming", c) /\ worker'[w].at = "rearming"
           /\ c = worker[w].client
    BY <1>6, AcceptedMoves
  <2>2. UNCHANGED <<buffer, corrupt>>
    BY <1>6 DEF OnAccepted, AcceptOnly
  <2>3. \A d \in Clients \ {c} : op'[d] = op[d]
    BY <1>0, <1>6, <2>1 DEF OnAccepted, NoConnection, NotAdded, NotRead, Opened, TypeOK
  <2>4. op'[c] \in {op[c], Operation("head", "pending")}
    BY <1>0, <1>6, <2>1 DEF OnAccepted, NoConnection, NotAdded, NotRead, Opened, TypeOK
  <2> QED
    BY <1>10, <2>1, <2>2, <2>3, <2>4, HeadsFrame
<1>7. ASSUME NEW w \in Workers, Rearm(w)
      PROVE  Heads'
  <2>1. /\ UNCHANGED <<op, buffer, corrupt>>
        /\ worker'[w].at \in {"idle", "threw"}
        /\ \A v \in Workers \ {w} : worker'[v] = worker[v]
    BY <1>0, <1>7, Moved DEF Rearm, AcceptOnly
  <2> QED
    BY <2>1, HeadsFrame
<1>8. ASSUME NEW w \in Workers, NEW c \in Clients, Reads(w, c),
             HeadInBuffer => UNCHANGED corrupt
      PROVE  Heads'
  <2>1. /\ UNCHANGED buffer
        /\ \A v \in Workers : worker'[v].at = "readingHead" => worker'[v] = worker[v]
    BY <1>0, <1>8, ReadsMoves DEF Reads, ReadOnly
  <2>2. /\ \A d \in Clients \ {c} : op'[d] = op[d]
        /\ op'[c] # op[c] => op'[c].at = "pending"
    BY <1>0, <1>10, <1>8 DEF Reads, CallbackEnds, Posts, Refused, EndsProcess, TypeOK
  <2> QED
    BY <1>10, <1>8, <2>1, <2>2, HeadsFrame
<1>9. ASSUME NEW w \in Workers, OnHeadRead(w) \/ OnBodyRead(w)
      PROVE  HeadInBuffer => UNCHANGED corrupt
  BY <1>9 DEF HeadInBuffer, OnHeadRead, OnBodyRead
<1> QED
  BY <1>0, <1>1, <1>2, <1>3, <1>4, <1>5, <1>6, <1>7, <1>8, <1>9, ReadingSteps
  DEF Next, WorkerStep, KernelStep

-----------------------------------------------------------------------------
(* Answers.                                                                *)

\* What Answer writes, if it writes.
AnswerOf(what) == IF what \in Statuses THEN WholeResponse(what) ELSE <<>>

\* As long as client c was not mistaken for another: its request is what it
\* sent, no answer is given before all of the head is there, and the answer is
\* the one of its route.
AnswerInv(c) ==
  c \notin corrupt =>
    /\ received[c] = Pieces => request[c] \in Requests
    /\ \/ c \in answered \/ op[c].what = "body"
       \/ \E w \in Workers : worker[w].at = "readingBody" /\ worker[w].client = c
       => received[c] = Pieces
    /\ c \in answered => answer[c] = AnswerOf(Route(request[c]))

Answers ==
  /\ process # "wrongStage"
  /\ serving = "setup" => answered = {}
  /\ \A c \in Clients : AnswerInv(c)

LEMMA AnswerIs ==
  ASSUME NEW w, NEW c, NEW what \in Statuses \cup {"stop", "handler"}, Answer(w, c, what)
  PROVE  \/ UNCHANGED answerVars
         \/ answered' = answered \cup {c} /\ answer' = [answer EXCEPT ![c] = AnswerOf(what)]
<1>1. ASSUME NEW data, Respond(w, c, data), data = AnswerOf(what)
      PROVE  \/ UNCHANGED answerVars
             \/ answered' = answered \cup {c} /\ answer' = [answer EXCEPT ![c] = AnswerOf(what)]
  BY <1>1 DEF Respond, Written, WriteFails, answerVars
<1>2. CASE what \in Statuses /\ RespondStatus(w, c, what)
  <2>1. PICK r \in WriteResponse(what) :
          \/ r.result = "ok" /\ Respond(w, c, r.data)
          \/ /\ r.result = "wrongStage" \/ (r.result = "outOfMemory" /\ "oom" \in Faults)
             /\ Ends(IF r.result = "wrongStage" THEN "wrongStage" ELSE "unhandledAssert")
             /\ UNCHANGED <<answerVars, op, worker, unreported>>
    BY <1>2 DEF RespondStatus
  <2>2. CASE r.result = "ok" /\ Respond(w, c, r.data)
    <3>1. r.data = AnswerOf(what)
      BY <1>2, <2>2, ResponseOutcomes DEF AnswerOf
    <3> QED
      BY <1>1, <2>2, <3>1
  <2> QED
    BY <2>1, <2>2
<1>3. CASE RunHandler(w, c, what)
  <2>1. what \notin Statuses
    BY <1>3 DEF RunHandler, Statuses
  <2>2. AnswerOf(what) = <<>>
    BY <2>1 DEF AnswerOf
  <2>3. Respond(w, c, <<>>) \/ UNCHANGED answerVars
    BY <1>3 DEF RunHandler, answerVars
  <2> QED
    BY <1>1, <2>2, <2>3
<1> QED
  BY <1>2, <1>3 DEF Answer

LEMMA Routes == \A r : Route(r) \in Statuses \cup {"stop", "handler"}
BY DEF Route, Statuses

LEMMA AnswersInit == Init => Answers
<1> SUFFICES ASSUME Init PROVE Answers
  OBVIOUS
<1>1. Pieces # 0
  BY ServerAssumption
<1>2. \A c \in Clients : op[c].what # "body" /\ received[c] = 0 /\ c \notin answered
  BY DEF Init, NoOp
<1>3. \A w \in Workers : worker[w].at # "readingBody"
  BY DEF Init, Idle, Doing
<1> QED
  BY <1>1, <1>2, <1>3 DEF Init, Answers, AnswerInv

\* A step that answers nobody and begins no reading of a body keeps what holds
\* of a client, whose head did not change.
LEMMA AnswerFrame ==
  ASSUME NEW c, AnswerInv(c), corrupt \subseteq corrupt',
         UNCHANGED <<handlerRegistries, answered>> \/ c \notin answered' \cup answered,
         c \in answered => answer'[c] = answer[c],
         UNCHANGED <<received[c], request[c]>>,
         op'[c].what = "body" => op[c].what = "body",
         \A w \in Workers :
           worker'[w].at = "readingBody" /\ worker'[w].client = c =>
             worker'[w] = worker[w] \/ op[c].what = "body"
  PROVE  AnswerInv(c)'
<1> SUFFICES ASSUME c \notin corrupt'
             PROVE  AnswerInv(c)'
  BY DEF AnswerInv
<1>1. received'[c] = Pieces => request'[c] \in Requests
  BY DEF AnswerInv
<1>2. \/ c \in answered' \/ op'[c].what = "body"
      \/ \E w \in Workers : worker'[w].at = "readingBody" /\ worker'[w].client = c
      => received'[c] = Pieces
  BY DEF AnswerInv
<1>3. ASSUME c \in answered'
      PROVE  answer'[c] = AnswerOf(Route(request[c]))'
  <2>1. c \in answered /\ UNCHANGED handlerRegistries
    BY <1>3
  <2>2. answer'[c] = AnswerOf(Route(request[c]))
    BY <2>1 DEF AnswerInv
  <2>3. Route(request[c])' = Route(request[c])
    BY <2>1 DEF Route
  <2> QED
    BY <2>2, <2>3 DEF AnswerOf
<1> QED
  BY <1>1, <1>2, <1>3 DEF AnswerInv
LEMMA AnswersStep ==
  ASSUME Answers, ExactPairs, Core, Next
  PROVE  Answers'
<1>0. TypeOK /\ BusyForClient
  BY DEF Core
<1>10. /\ \A what : \A at : Operation(what, at).what = what
       /\ NoOp.what = "none"
  BY DEF Operation, NoOp
<1>1. CASE RegisterHandlers
  <2>1. answered = {} /\ answered' = {} /\ serving' = "setup"
    BY <1>1 DEF RegisterHandlers, Answers, answerVars
  <2>2. UNCHANGED <<op, received, request, answer, worker, corrupt>>
    BY <1>1 DEF RegisterHandlers, answerVars
  <2>3. process' # "wrongStage"
    BY <1>1 DEF RegisterHandlers, RegisterHandler, RegisterOk, HandlerRefused, RegistryRefused,
                Answers
  <2>4. ASSUME NEW c \in Clients
        PROVE  AnswerInv(c)'
    BY <2>1, <2>2, AnswerFrame DEF Answers
  <2> QED
    BY <2>1, <2>3, <2>4 DEF Answers
<1>2. CASE EnterRun \/ LeaveSleep \/ ReturnFromRun \/ ReleaseCallback \/ DestroyServer
  <2>1. UNCHANGED <<handlerRegistries, received, request, answer, answered, worker, corrupt>>
    BY <1>2 DEF EnterRun, LeaveSleep, ReturnFromRun, ReleaseCallback, DestroyServer, MainOnly,
                registryVars, answerVars
  <2>2. \A c \in Clients : op'[c] \in {op[c], NoOp}
    BY <1>2 DEF EnterRun, LeaveSleep, ReturnFromRun, ReleaseCallback, DestroyServer
  <2>3. process' # "wrongStage" /\ serving' # "setup"
    BY <1>2 DEF EnterRun, LeaveSleep, ReturnFromRun, ReleaseCallback, DestroyServer, Ends, Answers
  <2>4. ASSUME NEW c \in Clients
        PROVE  AnswerInv(c)'
    BY <1>10, <2>1, <2>2, AnswerFrame DEF Answers
  <2> QED
    BY <2>3, <2>4 DEF Answers
<1>3. CASE KernelStep
  <2>1. /\ UNCHANGED <<handlerRegistries, answer, answered, worker, corrupt>>
        /\ UNCHANGED <<process, serving>>
    BY <1>3 DEF KernelStep, Fails, Connects, ReceivesHead, ReceivesBody, Sends, KernelOnly,
                registryVars, answerVars
  <2>2. \A c \in Clients : op'[c].what = op[c].what
    <3>1. \A c \in Clients : op'[c] = op[c] \/ op'[c].what = op[c].what
      BY <1>0, <1>3, <1>10 DEF KernelStep, Fails, Connects, ReceivesHead, ReceivesBody, Sends,
                               TypeOK
    <3> QED
      BY <3>1
  <2>3. ASSUME NEW c \in Clients
        PROVE  AnswerInv(c)'
    <3>1. CASE UNCHANGED <<received[c], request[c]>>
      BY <2>1, <2>2, <3>1, AnswerFrame DEF Answers
    <3>2. CASE ReceivesHead(c)
      <4>1. /\ received[c] \in 0 .. Pieces - 1 /\ received'[c] = received[c] + 1
            /\ op[c].what = "head"
            /\ received'[c] = Pieces => request'[c] \in Requests
        BY <1>0, <1>10, <3>2, ServerAssumption DEF ReceivesHead, TypeOK
      <4>2. c \notin corrupt =>
              /\ c \notin answered
              /\ ~ \E w \in Workers : worker[w].at = "readingBody" /\ worker[w].client = c
        BY <4>1, ServerAssumption DEF Answers, AnswerInv
      <4> QED
        BY <2>1, <2>2, <4>1, <4>2 DEF AnswerInv
    <3>3. ReceivesHead(c) \/ UNCHANGED <<received[c], request[c]>>
      BY <1>0, <1>3 DEF KernelStep, Fails, Connects, ReceivesHead, ReceivesBody, Sends, TypeOK
    <3> QED
      BY <3>1, <3>2, <3>3
  <2> QED
    BY <2>1, <2>3 DEF Answers
<1>4. ASSUME NEW w \in Workers, TakePacket(w)
      PROVE  Answers'
  <2>1. UNCHANGED <<handlerRegistries, answer, answered, corrupt, process, serving, received,
                    request>>
    BY <1>4 DEF TakePacket, TakeOnly, TakeAccept, TakeFailure, TakePill, TakeRead, TakeWrite,
                registryVars, answerVars
  <2>2. \A d \in Clients : op'[d] \in {op[d], NoOp}
    BY <1>0, <1>4 DEF TakePacket, TakeAccept, TakeFailure, TakePill, TakeRead, TakeWrite, TypeOK
  <2>3. \A v \in Workers, d \in Clients :
          worker'[v].at = "readingBody" /\ worker'[v].client = d =>
            worker'[v] = worker[v] \/ op[d].what = "body"
    <3>1. CASE TakeAccept(w) \/ TakeFailure(w) \/ TakePill(w)
      <4>1. \E what \in {"accepting", "threw", "ended"} : \E c : Goes(w, what, c)
        BY <3>1 DEF TakeAccept, TakeFailure, TakePill
      <4>2. /\ worker'[w].at \in {"accepting", "threw", "ended"}
            /\ \A v \in Workers \ {w} : worker'[v] = worker[v]
        BY <1>0, <4>1, Moved
      <4> QED
        BY <4>2
    <3>2. ASSUME NEW c \in Clients, TakeRead(w, c)
          PROVE  /\ \A v \in Workers \ {w} : worker'[v] = worker[v]
                 /\ worker'[w].at = "readingBody" =>
                      worker'[w].client = c /\ op[c] = Operation("body", "queued")
      BY <1>0, <3>2, Moved DEF TakeRead
    <3>3. ASSUME NEW c \in Clients, TakeWrite(w, c)
          PROVE  UNCHANGED worker
      BY <3>3 DEF TakeWrite
    <3> QED
      BY <1>4, <1>10, <3>1, <3>2, <3>3 DEF TakePacket
  <2>4. ASSUME NEW c \in Clients
        PROVE  AnswerInv(c)'
    BY <1>10, <2>1, <2>2, <2>3, AnswerFrame DEF Answers
  <2> QED
    BY <2>1, <2>4 DEF Answers
<1>5. ASSUME NEW w \in Workers, OnAccepted(w)
      PROVE  Answers'
  <2>1. PICK c \in Clients :
           /\ \A v \in Workers \ {w} : worker'[v] = worker[v]
           /\ \/ worker'[w] = Doing("threw", c) /\ worker'[w].at = "threw"
              \/ worker'[w] = Doing("rearming", c) /\ worker'[w].at = "rearming"
           /\ c = worker[w].client
    BY <1>5, AcceptedMoves
  <2>2. UNCHANGED <<handlerRegistries, answer, answered, corrupt, process, serving, received,
                    request>>
    BY <1>5 DEF OnAccepted, AcceptOnly, registryVars, answerVars
  <2>3. \A d \in Clients : op'[d] \in {op[d], Operation("head", "pending")}
    BY <1>0, <1>5, <2>1 DEF OnAccepted, NoConnection, NotAdded, NotRead, Opened, TypeOK
  <2>4. ASSUME NEW d \in Clients
        PROVE  AnswerInv(d)'
    BY <1>10, <2>1, <2>2, <2>3, AnswerFrame DEF Answers
  <2> QED
    BY <2>2, <2>4 DEF Answers
<1>6. ASSUME NEW w \in Workers, Rearm(w)
      PROVE  Answers'
  <2>1. /\ worker'[w].at \in {"idle", "threw"}
        /\ \A v \in Workers \ {w} : worker'[v] = worker[v]
    BY <1>0, <1>6, Moved DEF Rearm
  <2>2. UNCHANGED <<handlerRegistries, answer, answered, corrupt, process, serving, received,
                    request, op>>
    BY <1>6 DEF Rearm, AcceptOnly, registryVars, answerVars
  <2>3. ASSUME NEW d \in Clients
        PROVE  AnswerInv(d)'
    BY <2>1, <2>2, AnswerFrame DEF Answers
  <2> QED
    BY <2>2, <2>3 DEF Answers
<1>7. ASSUME NEW w \in Workers, OnHeadRead(w) \/ OnBodyRead(w)
      PROVE  Answers'
  <2>1. PICK c \in Clients : Reads(w, c)
    BY <1>0, <1>7, ReadingSteps
  <2>2. /\ UNCHANGED <<handlerRegistries, serving, received>>
        /\ worker[w].at \in {"readingHead", "readingBody"} /\ c = worker[w].client
        /\ corrupt \subseteq corrupt'
    BY <2>1 DEF Reads, ReadOnly, registryVars
  <2>3. /\ \A v \in Workers \ {w} : worker'[v] = worker[v]
        /\ worker'[w] = worker[w] \/ worker'[w].at \in {"idle", "threw"}
    BY <1>0, <2>1, ReadsMoves
  <2>4. \A d \in Clients \ {c} :
          /\ UNCHANGED <<op[d], request[d], answer[d]>>
          /\ d \in answered' <=> d \in answered
    BY <1>0, <2>1 DEF Reads, CallbackEnds, Posts, Refused, EndsProcess, answerVars, TypeOK
  <2>5. ASSUME NEW d \in Clients \ {c}
        PROVE  AnswerInv(d)'
    <3>1. CASE d \in answered
      <4>1. Route(request[d])' = Route(request[d])
        BY <2>2, <2>4 DEF Route
      <4> QED
        BY <2>2, <2>3, <2>4, <3>1, <4>1 DEF Answers, AnswerInv, AnswerOf
    <3>2. CASE d \notin answered
      BY <2>2, <2>3, <2>4, <3>2 DEF Answers, AnswerInv
    <3> QED
      BY <3>1, <3>2
  <2>6. ASSUME UNCHANGED <<request, corrupt>>, received[c] = Pieces, c \notin corrupt,
               Answer(w, c, Route(request[c]))
        PROVE  AnswerInv(c)'
    <3>1. Route(request[c])' = Route(request[c])
      BY <2>2, <2>6 DEF Route
    <3>2. \/ UNCHANGED answerVars
          \/ /\ answered' = answered \cup {c}
             /\ answer' = [answer EXCEPT ![c] = AnswerOf(Route(request[c]))]
      BY <2>6, AnswerIs, Routes
    <3>3. c \in answered' => answer'[c] = AnswerOf(Route(request[c]))
      BY <1>0, <2>6, <3>2 DEF Answers, AnswerInv, answerVars, TypeOK
    <3> QED
      BY <2>2, <2>6, <3>1, <3>3 DEF Answers, AnswerInv, AnswerOf
  <2>7. AnswerInv(c)'
    <3>1. CASE c \in corrupt'
      BY <3>1 DEF AnswerInv
    <3>2. CASE OnBodyRead(w) /\ c \notin corrupt
      <4>1. received[c] = Pieces
        BY <2>2, <3>2 DEF OnBodyRead, Answers, AnswerInv
      <4> QED
        BY <2>2, <2>6, <3>2, <4>1 DEF OnBodyRead
    <3>3. CASE OnHeadRead(w) /\ c \notin corrupt'
      <4>1. UNCHANGED corrupt
        BY <2>2, <3>3 DEF OnHeadRead
      <4>2. CASE PostRead(w, c, "head") /\ UNCHANGED request
        <5>1. op'[c].what = "body" => op[c].what = "body"
          BY <1>0, <1>10, <4>2 DEF PostRead, TypeOK
        <5> QED
          BY <2>2, <2>3, <4>1, <4>2, <5>1, AnswerFrame DEF PostRead, Answers, answerVars
      <4>3. CASE received[c] = Pieces /\ HeadParsed(w, c, request[c])
        <5>1. UNCHANGED request
          BY <1>0, <4>3 DEF HeadParsed, TypeOK
        <5>2. CASE PostRead(w, c, "body")
          <6>1. Route(request[c])' = Route(request[c])
            BY <2>2, <5>1 DEF Route
          <6>2. UNCHANGED <<answer, answered>>
            BY <5>2 DEF PostRead, answerVars
          <6> QED
            BY <2>2, <4>1, <4>3, <5>1, <6>1, <6>2 DEF Answers, AnswerInv, AnswerOf
        <5>3. CASE Answer(w, c, Route(request[c]))
          BY <2>6, <3>3, <4>1, <4>3, <5>1, <5>3
        <5> QED
          BY <4>3, <5>2, <5>3 DEF HeadParsed
      <4> QED
        BY <2>2, <3>3, <4>2, <4>3 DEF OnHeadRead
    <3> QED
      BY <1>7, <2>2, <3>1, <3>2, <3>3
  <2>8. process' # "wrongStage"
    BY <2>1 DEF Reads, CallbackEnds, Posts, Refused, EndsProcess, Answers
  <2>9. serving # "setup"
    <3>1. worker[w] # Idle
      BY <2>2 DEF Idle, Doing
    <3> QED
      BY <3>1 DEF Core, Phases
  <2> QED
    BY <2>2, <2>5, <2>7, <2>8, <2>9 DEF Answers
<1> QED
  BY <1>1, <1>2, <1>3, <1>4, <1>5, <1>6, <1>7 DEF Next, MainStep, WorkerStep

-----------------------------------------------------------------------------
(* The path of a target.                                                   *)

LEMMA LessIsWellFounded ==
  \E R : IsWellFoundedOn(R, Nat) /\ \A x, y \in Nat : <<x, y>> \in R <=> x < y
<1>1. \A x, y \in Nat : <<x, y>> \in OpToRel(<, Nat) <=> x < y
  BY DEF OpToRel
<1> QED
  BY <1>1, NatLessThanWellFounded, Zenon

\* A nonempty set of natural numbers has a least element, and Min finds it.
LEMMA Least ==
  ASSUME NEW S, S \subseteq Nat, S # {}
  PROVE  Min(S) \in S /\ \A x \in S : Min(S) <= x
<1>1. PICK R : IsWellFoundedOn(R, Nat) /\ \A x, y \in Nat : <<x, y>> \in R <=> x < y
  BY LessIsWellFounded
<1>2. IsWellFoundedOn(R, Nat)
  BY <1>1
<1>3. \E x \in S : \A y \in S : ~ (<<y, x>> \in R)
  BY <1>2, WFMin
<1>4. PICK x \in S : \A y \in S : ~ (<<y, x>> \in R)
  BY <1>3
<1>5. \A y \in S : y \in Nat /\ x \in Nat /\ ~ (y < x)
  BY <1>1, <1>4
<1>6. \A y \in S : x <= y
  BY <1>5
<1> QED
  BY <1>6 DEF Min

\* First finds the first delimiter of a kind, or 0.
LEMMA FirstIs ==
  ASSUME NEW target \in Seq(STRING), NEW mark
  PROVE  /\ First(mark, target) \in 0 .. Len(target)
         /\ First(mark, target) # 0 => target[First(mark, target)] = mark
         /\ \A i \in 1 .. Len(target) :
              target[i] = mark => First(mark, target) # 0 /\ First(mark, target) <= i
<1> DEFINE found == {i \in DOMAIN target : target[i] = mark}
<1>1. DOMAIN target = 1 .. Len(target) /\ Len(target) \in Nat
  OBVIOUS
<1>2. found \subseteq Nat
  BY <1>1
<1>3. First(mark, target) = IF found = {} THEN 0 ELSE Min(found)
  BY DEF First
<1>4. CASE found = {}
  BY <1>1, <1>3, <1>4
<1>5. CASE found # {}
  <2>1. Min(found) \in found /\ \A i \in found : Min(found) <= i
    BY <1>2, <1>5, Least
  <2>2. PICK least : least = First(mark, target)
    OBVIOUS
  <2>3. least \in found /\ \A i \in found : least <= i
    BY <1>3, <1>5, <2>1, <2>2
  <2>4. /\ least \in 1 .. Len(target) /\ target[least] = mark
        /\ \A i \in 1 .. Len(target) : target[i] = mark => least <= i
    BY <1>1, <2>3
  <2> QED
    BY <1>1, <2>2, <2>4
<1> QED
  BY <1>4, <1>5

\* PathOf cuts a target at its first delimiter, and BadTarget finds out whether
\* that is a number sign before a question mark.
LEMMA PathIs ==
  ASSUME NEW target \in Seq(STRING), target # <<>>
  PROVE  \E n \in 0 .. Len(target) :
           /\ IsPath(n, target)
           /\ PathOf(target) = SubSeq(target, 1, n)
           /\ BadTarget(target) <=> Misplaced(n, target)
<1> DEFINE q    == First("?", target)
           f    == First("#", target)
           ends == {First(mark, target) : mark \in Delimiters} \ {0}
<1>1. Len(target) \in Nat /\ DOMAIN target = 1 .. Len(target)
  OBVIOUS
<1>2. /\ q \in 0 .. Len(target)
      /\ q # 0 => target[q] = "?"
      /\ \A i \in 1 .. Len(target) : target[i] = "?" => q # 0 /\ q <= i
  BY FirstIs
<1>3. /\ f \in 0 .. Len(target)
      /\ f # 0 => target[f] = "#"
      /\ \A i \in 1 .. Len(target) : target[i] = "#" => f # 0 /\ f <= i
  BY FirstIs
<1>4. ends = {q, f} \ {0}
  BY DEF Delimiters
<1>5. PathOf(target) = IF ends = {} THEN target ELSE SubSeq(target, 1, Min(ends) - 1)
  BY DEF PathOf
<1>6. BadTarget(target) <=> f # 0 /\ q > f
  BY DEF BadTarget
<1> HIDE DEF q, f, ends
<1>7. CASE ends = {}
  <2>1. q = 0 /\ f = 0
    BY <1>4, <1>7
  <2>2. IsPath(Len(target), target)
    BY <1>1, <1>2, <1>3, <2>1 DEF IsPath, Delimiters
  <2>3. target = SubSeq(target, 1, Len(target))
    BY <1>1
  <2>4. ~ BadTarget(target) /\ ~ Misplaced(Len(target), target)
    BY <1>1, <1>6, <2>1 DEF Misplaced
  <2>5. PathOf(target) = SubSeq(target, 1, Len(target))
    BY <1>5, <1>7, <2>3
  <2>6. Len(target) \in 0 .. Len(target)
    BY <1>1
  <2> QED
    BY <2>2, <2>4, <2>5, <2>6
<1>8. CASE ends # {}
  <2> DEFINE m == Min(ends)
  <2>1. m \in ends /\ \A x \in ends : m <= x
    <3>1. ends \subseteq Nat
      BY <1>2, <1>3, <1>4
    <3> QED
      BY <3>1, <1>8, Least
  <2> HIDE DEF m
  <2>2. m \in 1 .. Len(target) /\ target[m] \in Delimiters
    BY <1>1, <1>2, <1>3, <1>4, <2>1 DEF Delimiters
  <2>3. \A i \in 1 .. m - 1 : target[i] \notin Delimiters
    <3> SUFFICES ASSUME NEW i \in 1 .. m - 1, target[i] \in Delimiters
                 PROVE  FALSE
      OBVIOUS
    <3>1. m \in Nat /\ i \in 1 .. Len(target) /\ i \in Nat /\ ~ (m <= i)
      BY <1>1, <2>2
    <3>2. target[i] = "?" \/ target[i] = "#"
      BY DEF Delimiters
    <3>3. CASE target[i] = "?"
      BY <1>2, <1>4, <2>1, <3>1, <3>3
    <3>4. CASE target[i] = "#"
      BY <1>3, <1>4, <2>1, <3>1, <3>4
    <3> QED
      BY <3>2, <3>3, <3>4
  <2>4. m - 1 \in 0 .. Len(target) /\ (m - 1) + 1 = m /\ m - 1 < Len(target)
    BY <1>1, <2>2
  <2>5. IsPath(m - 1, target)
    BY <2>2, <2>3, <2>4 DEF IsPath
  <2>6. ASSUME BadTarget(target)
        PROVE  Misplaced(m - 1, target)
    <3>1. f # 0 /\ q > f /\ q # 0
      BY <1>2, <1>3, <1>6, <2>6
    <3>2. m = f
      BY <1>2, <1>3, <1>4, <2>1, <3>1
    <3>3. q \in DOMAIN target /\ q > m - 1 /\ target[q] = "?"
      BY <1>1, <1>2, <1>3, <3>1, <3>2
    <3> QED
      BY <1>3, <2>4, <3>1, <3>2, <3>3 DEF Misplaced
  <2>7. ASSUME Misplaced(m - 1, target)
        PROVE  BadTarget(target)
    <3>1. target[m] = "#" /\ \E i \in DOMAIN target : target[i] = "?"
      BY <2>4, <2>7 DEF Misplaced
    <3>2. m = f /\ f # 0 /\ q # 0
      BY <1>1, <1>2, <1>3, <1>4, <2>1, <3>1
    <3>3. q # f
      BY <1>2, <3>1, <3>2
    <3>4. q \in ends /\ q \in Nat /\ f \in Nat
      BY <1>2, <1>3, <1>4, <3>2
    <3>5. f <= q
      BY <2>1, <3>2, <3>4
    <3>6. q > f
      BY <3>3, <3>4, <3>5
    <3> QED
      BY <1>6, <3>2, <3>6
  <2> QED
    BY <1>5, <1>8, <2>4, <2>5, <2>6, <2>7 DEF m
<1> QED
  BY <1>7, <1>8

-----------------------------------------------------------------------------
(* What the invariant says of a state.                                     *)

LEMMA AnswersAreRight ==
  ASSUME TypeOK, ExactPairs, AllRegistered, Answers
  PROVE  AnswerRight
<1> SUFFICES ASSUME NEW c \in answered \ corrupt
             PROVE  \E n \in 0 .. Len(request[c].target) :
                      LET target  == request[c].target
                          methods == {h[2] : h \in {g \in Handlers : g[1] = SubSeq(target, 1, n)}}
                      IN /\ IsPath(n, target)
                         /\ answer[c] =
                              IF Misplaced(n, target) THEN WholeResponse("400 Bad Request")
                              ELSE IF methods = {} THEN WholeResponse("404 Not Found")
                              ELSE IF request[c].method \notin methods
                                   THEN WholeResponse("405 Method Not Allowed")
                              ELSE <<>>
  BY DEF AnswerRight, Answers
<1>1. /\ request[c] \in Requests
      /\ answer[c] = AnswerOf(Route(request[c]))
      /\ registered = Handlers
  BY DEF TypeOK, Answers, AnswerInv, AllRegistered
<1> DEFINE target == request[c].target
<1>2. target \in Seq(STRING) /\ target # <<>>
  BY <1>1, ServerAssumption
<1>3. PICK n \in 0 .. Len(target) :
        /\ IsPath(n, target)
        /\ PathOf(target) = SubSeq(target, 1, n)
        /\ BadTarget(target) <=> Misplaced(n, target)
  BY <1>2, PathIs
<1> DEFINE path    == SubSeq(target, 1, n)
           methods == {h[2] : h \in {g \in Handlers : g[1] = path}}
<1>9. \A h \in Handlers :
        h[1] \in DOMAIN handlerRegistries /\ h[2] \in handlerRegistries[h[1]]
  <2> SUFFICES ASSUME NEW h \in Handlers
               PROVE  h[1] \in DOMAIN handlerRegistries /\ h[2] \in handlerRegistries[h[1]]
    OBVIOUS
  <2>1. PICK name \in DOMAIN handlerRegistries : \E method \in handlerRegistries[name] :
          h = <<name, method>>
    BY <1>1 DEF ExactPairs
  <2>2. PICK method \in handlerRegistries[name] : h = <<name, method>>
    BY <2>1
  <2> QED
    BY <2>1, <2>2
<1>4. path \in DOMAIN handlerRegistries => methods = handlerRegistries[path]
  <2> SUFFICES ASSUME path \in DOMAIN handlerRegistries
               PROVE  methods = handlerRegistries[path]
    OBVIOUS
  <2>1. ASSUME NEW h \in Handlers, h[1] = path
        PROVE  h[2] \in handlerRegistries[path]
    BY <1>9, <2>1
  <2>2. ASSUME NEW m \in handlerRegistries[path]
        PROVE  m \in methods
    <3>1. <<path, m>> \in Handlers /\ <<path, m>>[1] = path /\ <<path, m>>[2] = m
      BY <1>1 DEF ExactPairs
    <3> QED
      BY <3>1
  <2> QED
    BY <2>1, <2>2
<1>5. path \notin DOMAIN handlerRegistries => methods = {}
  BY <1>9
<1>6. path \in DOMAIN handlerRegistries => methods # {}
  BY <1>4 DEF ExactPairs
<1> HIDE DEF path, methods
<1>7. Route(request[c]) =
        IF Misplaced(n, target) THEN "400 Bad Request"
        ELSE IF path \notin DOMAIN handlerRegistries THEN "404 Not Found"
        ELSE IF request[c].method \notin handlerRegistries[path] THEN "405 Method Not Allowed"
        ELSE IF path = StopPath THEN "stop" ELSE "handler"
  BY <1>3 DEF Route, path
<1>8. answer[c] =
        IF Misplaced(n, target) THEN WholeResponse("400 Bad Request")
        ELSE IF methods = {} THEN WholeResponse("404 Not Found")
        ELSE IF request[c].method \notin methods THEN WholeResponse("405 Method Not Allowed")
        ELSE <<>>
  BY <1>1, <1>4, <1>5, <1>6, <1>7 DEF AnswerOf, Statuses
<1> QED
  BY <1>3, <1>8 DEF methods, path

LEMMA NothingIsForgotten == ASSUME TypeOK, Kept PROVE NothingForgotten
<1>1. ASSUME NEW places, NEW c, \E w \in Workers : worker[w].at \in places /\ worker[w].client = c
      PROVE  SomeWorker(places, c)
  BY <1>1 DEF SomeWorker
<1>2. ASSUME NEW places, \E w \in Workers : worker[w].at \in places
      PROVE  SomeWorker(places, NoClient)
  BY <1>2 DEF SomeWorker
<1> QED
  BY <1>1, <1>2 DEF NothingForgotten, Kept, AcceptKept, ConnectionKept

LEMMA BuffersAreThere == ASSUME Core, Kept PROVE ReadsHaveTheirBuffer
<1> SUFFICES ASSUME NEW c \in Clients, op[c] = Operation("head", "pending"), ~AcceptCallbackAlive,
                    "accept" \notin unreported
             PROVE  FALSE
  BY DEF ReadsHaveTheirBuffer
<1>1. serving \in {"released", "destroyed"} /\ acceptOp = "none"
  BY DEF AcceptCallbackAlive
<1>2. serving # "destroyed"
  BY DEF Core, Phases, Operation, NoOp
<1>3. \A w \in Workers : worker[w].at = "ended"
  BY <1>1 DEF Core, Phases
<1> QED
  BY <1>1, <1>2, <1>3 DEF Kept, AcceptKept

-----------------------------------------------------------------------------
(* The theorems.                                                           *)

IInv == Core /\ ExactPairs /\ AllRegistered /\ Kept /\ Heads /\ Answers

LEMMA ServerInit == Init => IInv
BY CoreInit, RegistryInvInit, KeptInit, HeadsInit, AnswersInit DEF IInv

LEMMA ServerStep == IInv /\ [Next]_vars => IInv'
<1>1. ASSUME IInv, Next
      PROVE  IInv'
  BY <1>1, CoreStep, RegistryInvStep, KeptStep, HeadsStep, AnswersStep DEF IInv
<1>2. ASSUME IInv, UNCHANGED vars
      PROVE  IInv'
  <2>1. UNCHANGED <<handlerRegistries, registered, process, serving, isRunning, acceptOp, conn,
                    connections, destroyed, op, received, buffer, worker, request, answer,
                    answered, corrupt, shared, unreported>>
    BY <1>2 DEF vars, registryVars, connVars, answerVars, history
  <2>2. Core'
    BY <1>2, <2>1 DEF IInv, Core, TypeOK, BusyForClient, OneAccept, AtAccept, NewClient, Phases,
                      DestroyedByThrow
  <2>3. ExactPairs' /\ AllRegistered'
    BY <1>2, <2>1 DEF IInv, ExactPairs, AllRegistered
  <2>4. Kept'
    BY <1>2, <2>1 DEF IInv, Kept, AcceptKept, ConnectionKept, CallbacksSeeLiveConnections
  <2>5. Heads'
    <3>1. HeadReaders' = HeadReaders
      BY <2>1 DEF HeadReaders
    <3> QED
      BY <1>2, <2>1, <3>1 DEF IInv, Heads, OneHead, HeadInBuffer
  <2>6. Answers'
    BY <1>2, <2>1 DEF IInv, Answers, AnswerInv, AnswerOf, Route
  <2> QED
    BY <2>2, <2>3, <2>4, <2>5, <2>6 DEF IInv
<1> QED
  BY <1>1, <1>2

\* The inductive invariant holds in every state of the server.
THEOREM ServerInvariance == Spec => []IInv
BY ServerInit, ServerStep, PTL DEF Spec

\* Every variable of the server, its registry and its responses keeps its type,
\* for any number of clients and worker threads.
THEOREM ServerTypeCorrect == Spec => []TypeOK
<1>1. IInv => TypeOK
  BY DEF IInv, Core
<1> QED
  BY <1>1, ServerInvariance, PTL

\* registerHandler, failing or not, leaves exactly the handlers registered
\* whose registration it reported.
THEOREM RegistryCorrect == Spec => []RegistryExact
<1>1. IInv => RegistryExact
  BY ExactByPairs DEF IInv
<1> QED
  BY <1>1, ServerInvariance, PTL

\* As long as no two heads are received at one time into the buffer of the
\* accept callback, every request is parsed from its own client's bytes.
THEOREM OwnBytesSafety == Spec => []OwnBytesUnlessShared
<1>1. IInv => OwnBytesUnlessShared
  BY DEF IInv, Heads, OwnBytesUnlessShared
<1> QED
  BY <1>1, ServerInvariance, PTL

\* A client whose own bytes were parsed gets the answer its target and its
\* method deserve, whole, whatever the handlers and the requests.
THEOREM AnswersCorrect == Spec => []AnswerRight
<1>1. IInv => AnswerRight
  BY AnswersAreRight DEF IInv, Core
<1> QED
  BY <1>1, ServerInvariance, PTL

\* The accept, and every open connection without an answer, is in flight, or a
\* worker is at it or threw, or the error of a refused call was lost.
THEOREM NothingForgottenSafety == Spec => []NothingForgotten
<1>1. IInv => NothingForgotten
  BY NothingIsForgotten DEF IInv, Core
<1> QED
  BY <1>1, ServerInvariance, PTL

\* While main() takes the server down, the buffer that heads are received into
\* lives as long as they are, unless the accept was not armed and nobody knew.
THEOREM BufferLifetime == Spec => []ReadsHaveTheirBuffer
<1>1. IInv => ReadsHaveTheirBuffer
  BY BuffersAreThere DEF IInv
<1> QED
  BY <1>1, ServerInvariance, PTL

\* No callback of a connection runs, or will, once the connection is gone.
THEOREM LiveConnections == Spec => []CallbacksSeeLiveConnections
<1>1. IInv => CallbacksSeeLiveConnections
  BY DEF IInv, Kept
<1> QED
  BY <1>1, ServerInvariance, PTL

\* ~Connection runs once on a connection, but for those of a worker that threw,
\* and on none of them twice by the time the server is gone.
THEOREM DestroyedOnceSafety == Spec => []DestroyedOnce
<1>1. ASSUME IInv PROVE DestroyedOnce
  <2> SUFFICES ASSUME NEW c \in Clients
               PROVE  /\ c \in connections \/ serving = "destroyed" =>
                           destroyed[c] <= 1 \/ \E w \in Workers : worker[w] = Doing("threw", c)
                      /\ serving = "destroyed" => destroyed[c] <= 1
    BY DEF DestroyedOnce
  <2>1. destroyed[c] \in 0 .. 2
    BY <1>1 DEF IInv, Core, TypeOK
  <2> QED
    BY <1>1, <2>1 DEF IInv, Core, DestroyedByThrow
<1> QED
  BY <1>1, ServerInvariance, PTL
=============================================================================
