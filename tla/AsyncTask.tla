----------------------------- MODULE AsyncTask -----------------------------
(***************************************************************************)
(* The objects behind one asynchronous operation of the Win32 backend: the *)
(* task (Win32ReadAsyncTask, Win32WriteAsyncTask, Win32AcceptAsyncTask)    *)
(* with its reference count, and the Win32IOCPOverlapped block it owns,    *)
(* which in turn counts a reference to the task.  A task is allocated at   *)
(* most once, so a task here is one allocation, never a recycled address.  *)
(***************************************************************************)
EXTENDS Integers

CONSTANTS ReadTasks, WriteTasks, AcceptTasks

ASSUME TaskKinds ==
  /\ ReadTasks \cap WriteTasks = {}
  /\ ReadTasks \cap AcceptTasks = {}
  /\ WriteTasks \cap AcceptTasks = {}

Tasks == ReadTasks \cup WriteTasks \cup AcceptTasks

VARIABLES
  refs,      \* refs[k]: _refCount of the task; meaningless once released
  released,  \* released[k]: how often the task's memory was given back
  ovlRef,    \* tasks whose overlapped block still counts its reference
  outRef     \* tasks whose asyncTaskOut reference the caller still has

taskVars == <<refs, released, ovlRef, outRef>>

TaskInit ==
  /\ refs     = [k \in Tasks |-> 0]
  /\ released = [k \in Tasks |-> 0]
  /\ ovlRef   = {}
  /\ outRef   = {}

TaskTypeOK ==
  /\ refs \in [Tasks -> Int]
  /\ released \in [Tasks -> Nat]
  /\ ovlRef \subseteq Tasks
  /\ outRef \subseteq Tasks

Live(k) == released[k] = 0

\* Mutant: readAsync keeps the task in a pointer that does not count.
LocalRefUncounted(k) == 0

(***************************************************************************)
(* readAsync keeps the new task in a peff::RcObjectPtr, which counts;      *)
(* writeAsync and acceptAsync keep it in a std::unique_ptr, which does not.*)
(***************************************************************************)
LocalRef(k) == IF k \in ReadTasks THEN 1 ELSE 0

(***************************************************************************)
(* ~Win32*AsyncTask() calls releaseOverlapped(), which gives up one more   *)
(* reference.  Entered with a count of 0 (through decRef) that wraps to    *)
(* SIZE_MAX and nothing follows; entered with a count of 1 (the deleter of *)
(* the unique_ptr calls onRefZero() itself) it brings the count to 0, so   *)
(* onRefZero() runs again inside the destructor and both blocks are        *)
(* released twice.                                                         *)
(***************************************************************************)
Passes(count, hasOverlapped) == IF hasOverlapped /\ count = 1 THEN 2 ELSE 1

Destroy(k, count, hasOverlapped) ==
  /\ refs'     = [refs EXCEPT ![k] = 0]
  /\ released' = [released EXCEPT ![k] = @ + Passes(count, hasOverlapped)]

\* Give up n references through decRef(): the last one runs onRefZero().
DecRef(k, n) ==
  \/ /\ refs[k] # n
     /\ refs' = [refs EXCEPT ![k] = @ - n]
     /\ UNCHANGED released
  \/ /\ refs[k] = n
     /\ Destroy(k, 0, TRUE)

IncRef(k) == refs' = [refs EXCEPT ![k] = @ + 1]
=============================================================================
