------------------------ MODULE SocketHandles_proofs ------------------------
(***************************************************************************)
(* The socket operations keep the invariant HandleInv, for every number of *)
(* sockets and handles: who opened a handle closes it, unless one that was *)
(* closed twice is reused.                                                 *)
(***************************************************************************)
EXTENDS SocketHandles, TLAPS

\* A slot that is not used was not closed, a live socket at most once.
SlotsOK ==
  \A s \in Sockets :
    /\ sockets[s].state = "none" => sockets[s].closes = 0
    /\ sockets[s].state = "live" => sockets[s].closes <= 1

\* An open handle has an owner that will close it, or was leaked.
OpenHasOwner ==
  \A h \in open :
    h \in leaked \/ \E s \in Sockets : Live(s) /\ ~Closed(s) /\ sockets[s].handle = h

\* What an object is, as SocketsTypeOK says.
SocketType ==
  [state : {"none", "live", "gone"}, origin : Origins,
   handle : Handles \cup {NoHandle}, closes : 0 .. 2]

HandleInv == SocketsTypeOK /\ SlotsOK /\ OpenUntilClosed /\ PortReports /\ OpenHasOwner

\* A live socket that was never closed, and never robbed, is alone on its handle.
Sound(s) == Live(s) /\ ~Closed(s) /\ ~ClosedTwice(sockets[s].handle)

-----------------------------------------------------------------------------
\* A handle that was closed twice stays so when a slot becomes a socket.
LEMMA NewSocketKeepsTwice ==
  ASSUME HandleInv, NEW s \in Sockets, NEW from \in Origins, NEW h \in Handles,
         Becomes(s, from, h), NEW g
  PROVE  ClosedTwice(g)' <=> ClosedTwice(g)
<1>1. \A t \in Sockets \ {s} : sockets'[t] = sockets[t]
  BY DEF Becomes, HandleInv, SocketsTypeOK
<1>2. sockets[s].closes = 0 /\ sockets'[s].closes = 0
  BY DEF Becomes, HandleInv, SocketsTypeOK, SlotsOK
<1> QED BY <1>1, <1>2 DEF ClosedTwice

\* A socket on a handle that was not open: createSocket, accept, acceptAsync.
LEMMA NewSocketKeeps ==
  ASSUME HandleInv, UNCHANGED <<backend, leaked>>,
         NEW s \in Sockets, NEW from \in Origins, NEW h \in Handles,
         Opens(h), Becomes(s, from, h),
         attached' = IF from = "accept" THEN attached ELSE Attached(h)
  PROVE  HandleInv'
<1> DEFINE new == [state |-> "live", origin |-> from, handle |-> h, closes |-> 0]
<1>1. /\ h \notin open
      /\ open' = open \cup {h}
      /\ sockets' = [sockets EXCEPT ![s] = new]
      /\ sockets[s].state = "none"
  BY DEF Opens, Becomes
<1>2. /\ sockets'[s] = new
      /\ \A t \in Sockets \ {s} : sockets'[t] = sockets[t]
  BY <1>1 DEF HandleInv, SocketsTypeOK
<1>3. SocketsTypeOK'
  BY <1>1 DEF HandleInv, SocketsTypeOK, Attached
<1>4. SlotsOK'
  BY <1>2 DEF HandleInv, SlotsOK
<1>5. \A g : ClosedTwice(g)' <=> ClosedTwice(g)
  BY NewSocketKeepsTwice
<1>6. ASSUME NEW t \in Sockets, Sound(t)'
      PROVE  /\ sockets'[t].handle \in open'
             /\ t # s => Sound(t) /\ sockets[t].handle # h
             /\ \A u \in Sockets \ {t} : (Live(u) /\ ~Closed(u))' => sockets'[u].handle # sockets'[t].handle
  <2>1. CASE t = s
    <3>1. ~ClosedTwice(h)
      BY <1>2, <1>5, <1>6, <2>1 DEF Sound
    <3>2. ASSUME NEW u \in Sockets \ {t}, (Live(u) /\ ~Closed(u))'
          PROVE  sockets'[u].handle # h
      BY <1>1, <1>2, <2>1, <3>1, <3>2 DEF HandleInv, OpenUntilClosed, Live, Closed
    <3> QED BY <1>1, <1>2, <2>1, <3>2
  <2>2. CASE t # s
    <3>1. Sound(t)
      BY <1>2, <1>5, <1>6, <2>2 DEF Sound, Live, Closed
    <3>2. sockets[t].handle \in open
      BY <3>1 DEF HandleInv, OpenUntilClosed, Sound
    <3>3. ASSUME NEW u \in Sockets \ {t}, (Live(u) /\ ~Closed(u))'
          PROVE  sockets'[u].handle # sockets'[t].handle
      <4>1. CASE u = s
        BY <1>1, <1>2, <2>2, <3>2, <4>1
      <4>2. CASE u # s
        BY <1>2, <2>2, <3>1, <3>3, <4>2 DEF HandleInv, OpenUntilClosed, Sound, Live, Closed
      <4> QED BY <4>1, <4>2
    <3> QED BY <1>1, <1>2, <2>2, <3>1, <3>2, <3>3
  <2> QED BY <2>1, <2>2
<1>7. OpenUntilClosed'
  BY <1>6 DEF OpenUntilClosed, Sound
<1>8. PortReports'
  <2> SUFFICES ASSUME OnWin32, NEW t \in Sockets, Sound(t)'
               PROVE  sockets'[t].handle \in attached' <=> sockets'[t].origin # "accept"
    BY DEF PortReports, Sound, OnWin32
  <2>1. CASE t = s
    BY <1>1, <1>2, <2>1 DEF HandleInv, SocketsTypeOK, Attached
  <2>2. CASE t # s
    BY <1>2, <1>6, <2>2 DEF HandleInv, PortReports, Sound, Attached
  <2> QED BY <2>1, <2>2
<1>9. OpenHasOwner'
  <2> SUFFICES ASSUME NEW g \in open'
               PROVE  g \in leaked' \/ \E t \in Sockets : (Live(t) /\ ~Closed(t))' /\ sockets'[t].handle = g
    BY DEF OpenHasOwner
  <2>1. CASE g = h
    BY <1>2, <2>1 DEF Live, Closed
  <2>2. CASE g # h
    BY <1>1, <1>2, <2>2 DEF HandleInv, OpenHasOwner, Live, Closed
  <2> QED BY <2>1, <2>2
<1> QED BY <1>3, <1>4, <1>7, <1>8, <1>9 DEF HandleInv

\* A handle that is opened for nobody.
LEMMA LeakKeeps ==
  ASSUME HandleInv, UNCHANGED <<backend, sockets>>, NEW h \in Handles, Opens(h),
         leaked' = leaked \cup {h},
         attached' = attached \/ attached' = Attached(h)
  PROVE  HandleInv'
<1>1. /\ h \notin open /\ open' = open \cup {h}
      /\ sockets' = sockets /\ backend' = backend
  BY DEF Opens
<1>2. SocketsTypeOK'
  BY <1>1 DEF HandleInv, SocketsTypeOK, Attached
<1>3. SlotsOK'
  BY DEF HandleInv, SlotsOK
<1>4. OpenUntilClosed'
  <2>1. \A t \in Sockets : Sound(t)' => Sound(t)
    BY <1>1 DEF Sound, Live, Closed, ClosedTwice
  <2> QED BY <1>1, <2>1 DEF HandleInv, OpenUntilClosed, Sound, Live, Closed
<1>5. PortReports'
  <2>2. \A t \in Sockets : Sound(t)' => Sound(t)
    BY <1>1 DEF Sound, Live, Closed, ClosedTwice
  <2> SUFFICES ASSUME OnWin32, NEW t \in Sockets, Sound(t)
               PROVE  sockets[t].handle \in attached' <=> sockets[t].origin # "accept"
    BY <1>1, <2>2 DEF PortReports, Sound, OnWin32
  <2>1. sockets[t].handle # h
    BY <1>1 DEF HandleInv, OpenUntilClosed, Sound
  <2> QED BY <2>1 DEF HandleInv, PortReports, Sound, Attached
<1>6. OpenHasOwner'
  BY <1>1 DEF HandleInv, OpenHasOwner, Live, Closed
<1> QED BY <1>2, <1>3, <1>4, <1>5, <1>6 DEF HandleInv

\* An object closes the handle it remembers, on close() or when it is destroyed.
LEMMA CloseKeeps ==
  ASSUME HandleInv, UNCHANGED <<backend, leaked>>, NEW s \in Sockets,
         Live(s), NEW state \in {"live", "gone"}, CloseHandle(s, state),
         state = "live" => ~Closed(s)
  PROVE  HandleInv'
<1> DEFINE h == sockets[s].handle
           new == [state |-> state, origin |-> sockets[s].origin, handle |-> h,
                   closes |-> sockets[s].closes + 1]
<1>1. /\ open' = open \ {h}
      /\ attached' = attached \ {h}
      /\ sockets' = [sockets EXCEPT ![s] = new]
  BY DEF CloseHandle
<1>0. sockets \in [Sockets -> SocketType]
  BY DEF HandleInv, SocketsTypeOK, SocketType
<1>3. sockets[s].closes \in {0, 1} /\ (state = "live" => sockets[s].closes = 0)
  BY DEF HandleInv, SocketsTypeOK, SlotsOK, Live, Closed
<1>2. /\ sockets'[s].handle = h
      /\ sockets'[s].state = state
      /\ sockets'[s].closes = sockets[s].closes + 1
      /\ sockets'[s].origin = sockets[s].origin
      /\ \A t \in Sockets \ {s} : sockets'[t] = sockets[t]
  BY <1>1, <1>0
<1>4. SocketsTypeOK'
  <2>1. sockets' \in [Sockets -> SocketType]
    BY <1>1, <1>3, <1>0 DEF SocketType
  <2> QED BY <1>1, <2>1 DEF HandleInv, SocketsTypeOK, SocketType
<1>5. SlotsOK'
  BY <1>2, <1>3 DEF HandleInv, SlotsOK
<1>6. ~(Live(s) /\ ~Closed(s))'
  BY <1>2, <1>3 DEF Live, Closed
<1>7. \A g : ClosedTwice(g) => ClosedTwice(g)'
  BY <1>2, <1>3 DEF ClosedTwice
<1>8. sockets[s].closes = 1 => ClosedTwice(h)'
  BY <1>2 DEF ClosedTwice
<1>9. ASSUME NEW t \in Sockets, Sound(t)'
      PROVE  /\ t # s /\ Sound(t)
             /\ sockets[t].handle # h
  <2>1. t # s
    BY <1>6, <1>9 DEF Sound
  <2>2. Sound(t)
    BY <1>2, <1>7, <1>9, <2>1 DEF Sound, Live, Closed
  <2>3. CASE sockets[s].closes = 1
    BY <1>2, <1>8, <1>9, <2>1, <2>2, <2>3 DEF Sound
  <2>4. CASE sockets[s].closes = 0
    BY <2>1, <2>2, <2>4 DEF HandleInv, OpenUntilClosed, Sound, Live, Closed
  <2> QED BY <1>3, <2>1, <2>2, <2>3, <2>4
<1>10. OpenUntilClosed'
  <2> SUFFICES ASSUME NEW t \in Sockets, Sound(t)'
               PROVE  /\ sockets'[t].handle \in open'
                      /\ \A u \in Sockets \ {t} : (Live(u) /\ ~Closed(u))' =>
                            sockets'[u].handle # sockets'[t].handle
    BY DEF OpenUntilClosed, Sound
  <2>1. t # s /\ Sound(t) /\ sockets[t].handle # h
    BY <1>9
  <2> QED BY <1>1, <1>2, <1>6, <2>1 DEF HandleInv, OpenUntilClosed, Sound, Live, Closed
<1>11. PortReports'
  <2> SUFFICES ASSUME OnWin32, NEW t \in Sockets, Sound(t)'
               PROVE  sockets'[t].handle \in attached' <=> sockets'[t].origin # "accept"
    BY DEF PortReports, Sound, OnWin32
  <2>1. t # s /\ Sound(t) /\ sockets[t].handle # h
    BY <1>9
  <2> QED BY <1>1, <1>2, <2>1 DEF HandleInv, PortReports, Sound
<1>12. OpenHasOwner'
  BY <1>1, <1>2 DEF HandleInv, OpenHasOwner, Live, Closed
<1> QED BY <1>4, <1>5, <1>10, <1>11, <1>12 DEF HandleInv

-----------------------------------------------------------------------------
\* Every call on a socket keeps the invariant.
THEOREM SocketCallKeeps ==
  ASSUME HandleInv, UNCHANGED backend, NEW s \in Sockets, SocketCall(s)
  PROVE  HandleInv'
<1>1. CASE CreateSocket(s)
  <2>1. PICK h \in Handles : Opens(h) /\ Becomes(s, "createSocket", h) /\ attached' = Attached(h)
    BY <1>1 DEF CreateSocket
  <2>2. UNCHANGED leaked
    BY <1>1 DEF CreateSocket
  <2> QED BY <2>1, <2>2, NewSocketKeeps DEF Origins
<1>2. CASE Close(s)
  <2>1. Live(s) /\ ~Closed(s) /\ CloseHandle(s, "live") /\ UNCHANGED leaked
    BY <1>2 DEF Close
  <2> QED BY <2>1, CloseKeeps
<1>3. CASE Destroy(s)
  <2>1. CASE OnWin32
    <3>1. Live(s) /\ CloseHandle(s, "gone") /\ UNCHANGED leaked
      BY <1>3, <2>1 DEF Destroy
    <3> QED BY <3>1, CloseKeeps
  <2>2. CASE ~OnWin32
    <3>1. UNCHANGED socketVars
      BY <1>3, <2>2 DEF Destroy
    <3> QED BY <3>1 DEF socketVars, HandleInv, SocketsTypeOK, SlotsOK, OpenUntilClosed, PortReports,
                        OpenHasOwner, Live, Closed, ClosedTwice, OnWin32
  <2> QED BY <2>1, <2>2
<1>4. CASE CallFails(s) \/ AcceptAsyncFails
  BY <1>4 DEF CallFails, AcceptAsyncFails, socketVars, HandleInv, SocketsTypeOK, SlotsOK,
              OpenUntilClosed, PortReports, OpenHasOwner, Live, Closed, ClosedTwice, OnWin32
<1>5. ASSUME NEW new \in Sockets, Accept(s, new)
      PROVE  HandleInv'
  <2>1. PICK h \in Handles :
          /\ Opens(h)
          /\ \/ Becomes(new, "accept", h) /\ UNCHANGED leaked
             \/ leaked' = leaked \cup {h} /\ UNCHANGED sockets
    BY <1>5 DEF Accept
  <2>2. UNCHANGED attached
    BY <1>5 DEF Accept
  <2>3. CASE Becomes(new, "accept", h) /\ UNCHANGED leaked
    BY <2>1, <2>2, <2>3, NewSocketKeeps DEF Origins
  <2>4. CASE leaked' = leaked \cup {h} /\ UNCHANGED sockets
    BY <2>1, <2>2, <2>4, LeakKeeps
  <2> QED BY <2>1, <2>3, <2>4
<1>6. ASSUME NEW new \in Sockets, AcceptAsyncStarts(new)
      PROVE  HandleInv'
  <2>1. PICK h \in Handles :
          /\ Opens(h)
          /\ attached' = Attached(h)
          /\ \/ Becomes(new, "acceptAsync", h) /\ UNCHANGED leaked
             \/ leaked' = leaked \cup {h} /\ UNCHANGED sockets
    BY <1>6 DEF AcceptAsyncStarts
  <2>2. CASE Becomes(new, "acceptAsync", h) /\ UNCHANGED leaked
    BY <2>1, <2>2, NewSocketKeeps DEF Origins
  <2>3. CASE leaked' = leaked \cup {h} /\ UNCHANGED sockets
    BY <2>1, <2>3, LeakKeeps
  <2> QED BY <2>1, <2>2, <2>3
<1> QED BY <1>1, <1>2, <1>3, <1>4, <1>5, <1>6 DEF SocketCall, AcceptAsync
=============================================================================
