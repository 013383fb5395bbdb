--------------------------- MODULE AsyncOperation ---------------------------
(***************************************************************************)
(* What a client of an asynchronous operation may rely on, without threads,*)
(* counts or packets.  A task goes one way: its operation starts or is     *)
(* refused, finishes, and its callback runs, once, or never.  The task     *)
(* object goes away at most once, when the client does not hold it: after  *)
(* a refused call, or after the callback and never during it.              *)
(***************************************************************************)
CONSTANT Tasks

VARIABLES
  op,    \* op[k]: idle, refused, started, finished, inCallback or over
  held,  \* tasks the client has a reference to
  gone   \* tasks whose object is gone

vars == <<op, held, gone>>

Init ==
  /\ op   = [k \in Tasks |-> "idle"]
  /\ held = {}
  /\ gone = {}

Move(k, from, to) == op[k] = from /\ op' = [op EXCEPT ![k] = to]

\* The object of task k may go in this step, or stay.
MayGo(k) == gone' = gone \/ (gone' = gone \cup {k} /\ k \notin gone)

Start(k)  == Move(k, "idle", "started") /\ UNCHANGED <<held, gone>>
Refuse(k) == Move(k, "idle", "refused") /\ MayGo(k) /\ UNCHANGED held
Finish(k) == Move(k, "started", "finished") /\ UNCHANGED <<held, gone>>

\* The callback starts only when the operation has finished.
CallBack(k) == Move(k, "finished", "inCallback") /\ UNCHANGED <<held, gone>>

\* It has returned; the client may still hold the task.
Return(k) ==
  /\ Move(k, "inCallback", "over")
  /\ gone' = gone \/ (k \notin held \cup gone /\ gone' = gone \cup {k})
  /\ UNCHANGED held

\* The call gives the client its reference, perhaps after the callback; the
\* client lets go of it.
Give(k) ==
  /\ op[k] \notin {"idle", "refused"}
  /\ k \notin held \cup gone
  /\ held' = held \cup {k}
  /\ UNCHANGED <<op, gone>>

Drop(k) ==
  /\ k \in held
  /\ held' = held \ {k}
  /\ gone' = gone \/ (op[k] = "over" /\ gone' = gone \cup {k})
  /\ UNCHANGED op

Next ==
  \E k \in Tasks :
    Start(k) \/ Refuse(k) \/ Finish(k) \/ CallBack(k) \/ Return(k) \/ Give(k) \/ Drop(k)

Spec == Init /\ [][Next]_vars
=============================================================================
