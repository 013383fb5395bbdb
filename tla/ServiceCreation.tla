-------------------------- MODULE ServiceCreation --------------------------
(***************************************************************************)
(* createDefaultIOService on both backends, and destruction of the service.*)
(* A creation can fail at every step; a thread that could not be created   *)
(* is not noticed on either backend: CreateThread reports it with NULL, and*)
(* the code compares with INVALID_HANDLE_VALUE; pthread_create returns a   *)
(* positive error, and the code looks for a negative one.  The scope guard *)
(* of createIOCPIOService therefore never runs.                            *)
(***************************************************************************)
EXTENDS Integers, FiniteSets

CONSTANTS
  MaxThreads,   \* largest IOServiceCreationParams::nWorkerThreads
  MaxAttempts,  \* how often the program tries to create a service
  Faults        \* which failures the environment may produce

ASSUME CreationAssumption ==
  /\ MaxThreads \in Nat
  /\ MaxAttempts \in Nat \ {0}

VARIABLES
  backend,       \* "win32" or "unix"
  process,       \* "up", or what ended it
  service,       \* how far the service is
  threads,       \* threads[i]: worker thread i
  attempts,      \* creations begun
  startups,      \* WSAStartup calls without their WSACleanup
  lostStartups   \* history: those of creations that got no memory for the service

creationVars == <<threads, attempts, startups, lostStartups>>

Services == {"none", "creating", "ready", "running", "returned", "destroying", "gone"}

\* A thread that is missing has a handle of 0 (NULL).  A Unix thread starts and
\* then waits to be told so.
ThreadStates == {"absent", "missing", "suspended", "starting", "waiting", "started", "ended"}

CreationInit ==
  /\ backend \in {"win32", "unix"}
  /\ process = "up"
  /\ service = "none"
  /\ threads \in UNION {[1 .. n -> {"absent"}] : n \in 0 .. MaxThreads}
  /\ attempts = 0
  /\ startups = 0
  /\ lostStartups = 0

OnWin32 == backend = "win32"

Startup(n) == startups' = IF OnWin32 THEN startups + n ELSE startups

\* WSAStartup, the service and the array of its threads.
BeginCreation ==
  /\ service = "none"
  /\ attempts < MaxAttempts
  /\ attempts' = attempts + 1
  /\ Startup(1)
  /\ service' = "creating"
  /\ UNCHANGED <<threads, lostStartups, process>>

\* No memory for the service: nobody calls WSACleanup.
NoService ==
  /\ "oom" \in Faults
  /\ service = "none"
  /\ attempts < MaxAttempts
  /\ attempts' = attempts + 1
  /\ Startup(1)
  /\ lostStartups' = IF OnWin32 THEN lostStartups + 1 ELSE lostStartups
  /\ UNCHANGED <<service, threads, process>>

\* Mutant: the service is released, but not destroyed.
NoThreadArrayQuiet ==
  /\ "oom" \in Faults
  /\ service = "creating"
  /\ \A i \in DOMAIN threads : threads[i] = "absent"
  /\ service' = "none"
  /\ UNCHANGED <<threads, attempts, startups, lostStartups, process>>

\* No memory for the threads: the service is destroyed, which cleans up.
NoThreadArray ==
  /\ "oom" \in Faults
  /\ service = "creating"
  /\ \A i \in DOMAIN threads : threads[i] = "absent"
  /\ Startup(-1)
  /\ service' = "none"
  /\ UNCHANGED <<threads, attempts, lostStartups, process>>

CreateThread ==
  /\ service = "creating"
  /\ \E i \in DOMAIN threads :
       /\ threads[i] = "absent"
       /\ \A j \in 1 .. i - 1 : threads[j] # "absent"
       /\ \E new \in (IF OnWin32 THEN {"suspended"} ELSE {"starting"})
                     \cup (Faults \cap {"missing"}) :
            threads' = [threads EXCEPT ![i] = new]
  /\ UNCHANGED <<service, attempts, startups, lostStartups, process>>

\* The completion port, on Windows.
FinishCreation ==
  /\ service = "creating"
  /\ \A i \in DOMAIN threads : threads[i] # "absent"
  /\ \/ service' = "ready" /\ UNCHANGED process
     \/ OnWin32 /\ "port" \in Faults /\ process' = "noPort" /\ UNCHANGED service
  /\ UNCHANGED creationVars

-----------------------------------------------------------------------------
\* dealloc: ~Win32IOService calls WSACleanup; UnixIOService::dealloc does nothing.
DestroyService ==
  /\ service \in {"ready", "returned"}
  /\ service' = IF OnWin32 THEN "destroying" ELSE "gone"
  /\ Startup(-1)
  /\ UNCHANGED <<threads, attempts, lostStartups, process>>

\* ~ThreadLocalData waits for every thread that has a handle.
ThreadsWaitedFor ==
  /\ service = "destroying"
  /\ \A i \in DOMAIN threads : threads[i] \in {"missing", "ended"}
  /\ service' = "gone"
  /\ UNCHANGED <<creationVars, process>>

Creation == BeginCreation \/ NoService \/ NoThreadArray \/ CreateThread \/ FinishCreation
=============================================================================
