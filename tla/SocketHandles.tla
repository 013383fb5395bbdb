--------------------------- MODULE SocketHandles ---------------------------
(***************************************************************************)
(* The handles behind the Socket objects of both backends: who opens and   *)
(* closes them.  The operating system gives a closed handle to the next    *)
(* socket.  A Win32Socket keeps the number of its handle after close() and *)
(* closes it again when it is destroyed; a UnixSocket does not survive its *)
(* destructor.                                                             *)
(***************************************************************************)
EXTENDS ServiceCreation

CONSTANTS
  Sockets,  \* Socket objects
  Handles,  \* handles of the operating system
  NoHandle  \* INVALID_SOCKET

ASSUME HandleAssumption == NoHandle \notin Handles

VARIABLES
  sockets,   \* sockets[s]: the object, its handle, how often it was closed
  open,      \* handles open in the operating system
  attached,  \* of these, the ones attached to the completion port
  leaked     \* history: handles opened for nobody, or whose owner was lost

socketVars == <<sockets, open, attached, leaked>>

Origins == {"createSocket", "accept", "acceptAsync"}

NoSocket == [state |-> "none", origin |-> "createSocket", handle |-> NoHandle, closes |-> 0]

SocketsInit ==
  /\ sockets = [s \in Sockets |-> NoSocket]
  /\ open = {}
  /\ attached = {}
  /\ leaked = {}

Live(s) == sockets[s].state = "live"
Closed(s) == sockets[s].closes > 0

\* A system call on s finds a socket, if only that of another object.
Usable(s) == Live(s) /\ ~Closed(s) /\ sockets[s].handle \in open

\* The system has a handle to give; h is any that is not open.
Opens(h) == h \in Handles \ open /\ open' = open \cup {h}

\* The slot of s becomes a socket on handle h.
Becomes(s, from, h) ==
  /\ sockets[s].state = "none"
  /\ sockets' = [sockets EXCEPT ![s] = [state |-> "live", origin |-> from, handle |-> h, closes |-> 0]]

\* CreateIoCompletionPort(p->socket, iocpCompletionPort, ...); there is none on Unix.
Attached(h) == IF OnWin32 THEN attached \cup {h} ELSE attached

\* Mutant: a new socket is not attached to the port.
CreateSocketUnattached(s) ==
  /\ \E h \in Handles : Opens(h) /\ Becomes(s, "createSocket", h)
  /\ UNCHANGED <<attached, leaked, process>>

\* createSocket: the object is allocated first, so no handle is lost.
CreateSocket(s) ==
  /\ \E h \in Handles :
       /\ Opens(h) /\ Becomes(s, "createSocket", h)
       /\ attached' = Attached(h)
  /\ UNCHANGED <<leaked, process>>

\* accept(): the handle comes first, and is lost if there is no memory for the
\* object.  It is not attached to the completion port.
Accept(s, new) ==
  /\ Usable(s)
  /\ \E h \in Handles :
       /\ Opens(h)
       /\ \/ Becomes(new, "accept", h) /\ UNCHANGED leaked
          \/ "oom" \in Faults /\ leaked' = leaked \cup {h} /\ UNCHANGED sockets
  /\ UNCHANGED <<attached, process>>

\* Mutant: newSocket is not released when the accept has been started.
AcceptAsyncStartsAndCloses(new) ==
  /\ \E h \in Handles :
       /\ h \notin open /\ open' = open
       /\ Becomes(new, "acceptAsync", h)
       /\ attached' = attached
  /\ UNCHANGED <<leaked, process>>

\* acceptAsync: the new socket becomes the task's, or after postAsyncTask has
\* failed, on Windows, nobody's.
AcceptAsyncStarts(new) ==
  /\ \E h \in Handles :
       /\ Opens(h)
       /\ attached' = Attached(h)
       /\ \/ Becomes(new, "acceptAsync", h) /\ UNCHANGED leaked
          \/ OnWin32 /\ "oom" \in Faults /\ leaked' = leaked \cup {h} /\ UNCHANGED sockets
  /\ UNCHANGED process

\* acceptAsync returns an exception after createSocket: newSocket is destroyed,
\* which closes it or, on Unix, ends the process.
AcceptAsyncFails ==
  /\ "oom" \in Faults
  /\ Handles \ open # {}
  /\ process' = IF OnWin32 THEN process ELSE "socketAssert"
  /\ UNCHANGED socketVars

AcceptAsync(s, new) ==
  /\ Usable(s)
  /\ AcceptAsyncStarts(new) \/ AcceptAsyncFails

\* closesocket and close on the number the object remembers, open or not;
\* the object remains after close().
CloseHandle(s, state) ==
  /\ open' = open \ {sockets[s].handle}
  /\ attached' = attached \ {sockets[s].handle}
  /\ sockets' = [sockets EXCEPT ![s] =
                   [state |-> state, origin |-> @.origin, handle |-> @.handle, closes |-> @.closes + 1]]

\* close(), which the program calls once.
Close(s) ==
  /\ Live(s) /\ ~Closed(s)
  /\ CloseHandle(s, "live")
  /\ UNCHANGED <<leaked, process>>

\* dealloc.
Destroy(s) ==
  /\ Live(s)
  /\ \/ /\ OnWin32
        /\ CloseHandle(s, "gone")
        /\ UNCHANGED <<leaked, process>>
     \/ ~OnWin32 /\ process' = "socketAssert" /\ UNCHANGED socketVars

\* bind, listen, connect, accept, read or write fails and ends the process: on
\* Unix always, on Windows for an error that has no case.  A handle that is not
\* open is such an error.
CallFails(s) ==
  /\ Live(s) /\ ~Closed(s)
  /\ "refused" \in Faults \/ sockets[s].handle \notin open
  /\ process' = "systemCall"
  /\ UNCHANGED socketVars

SocketCall(s) ==
  \/ CreateSocket(s) \/ Close(s) \/ Destroy(s) \/ CallFails(s)
  \/ \E new \in Sockets : Accept(s, new) \/ AcceptAsync(s, new)

SocketsTypeOK ==
  /\ sockets \in [Sockets -> [state : {"none", "live", "gone"}, origin : Origins,
                             handle : Handles \cup {NoHandle}, closes : 0 .. 2]]
  /\ leaked \subseteq Handles
  /\ open \subseteq Handles
  /\ attached \subseteq open

-----------------------------------------------------------------------------
\* h was closed by an object that had closed it before.
ClosedTwice(h) == \E s \in Sockets : sockets[s].closes = 2 /\ sockets[s].handle = h

\* A socket that nobody closed keeps its handle, and to itself, until some other
\* object that had the same handle before is closed and then destroyed.
OpenUntilClosed ==
  \A s \in Sockets :
    Live(s) /\ ~Closed(s) /\ ~ClosedTwice(sockets[s].handle) =>
      /\ sockets[s].handle \in open
      /\ \A t \in Sockets \ {s} : Live(t) /\ ~Closed(t) => sockets[t].handle # sockets[s].handle

\* Under the same condition, the completion port reports on a Win32Socket, unless
\* it came from accept(): readAsync on that one never calls back.
PortReports ==
  OnWin32 =>
    \A s \in Sockets :
      Live(s) /\ ~Closed(s) /\ ~ClosedTwice(sockets[s].handle) =>
        (sockets[s].handle \in attached <=> sockets[s].origin # "accept")
=============================================================================
