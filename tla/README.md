# Verification of netknot

netknot is a C++ library for asynchronous socket I/O: sockets, asynchronous
read, write and accept tasks, and an I/O service that runs their callbacks on
worker threads. It has a Windows backend on an I/O completion port and an
unfinished Unix backend. `example/rdparse` is a small HTTP server on top of it.

This directory holds TLA+ modules translated from that source, TLC
configurations that check them on small instances, and TLAPS proofs of what
holds for every instance. Paths below are relative to `src/`.

    tlc -workers 2 -config TwoWorkers.cfg MCWin32IOService.tla
    tlc -workers 2 -config Server.cfg MCHttpServer.tla
    tlc -workers 2 -config Setup.cfg MCClientProgram.tla
    tlapm Win32Ownership_proofs.tla
    tlapm ClientProgram_proofs.tla
    tlapm HttpServer_proofs.tla

## Inventory

| Component | State | Operations | What makes it correct |
| --- | --- | --- | --- |
| Tasks and overlapped blocks (`netknot/socket.h`, `netknot/win/socket.cc`) | `_refCount`, the overlapped block and its `asyncTask` | `incRef`, `decRef`, `onRefZero`, `allocOverlapped`, `releaseOverlapped` | the count is the number of counted pointers; one release, after the last use |
| Win32Socket (`netknot/win/socket.cc`) | a task per call | `readAsync`, `writeAsync`, `acceptAsync` | an operation in flight keeps its task; a task is registered before its packet is handled; an error return leaves nothing behind |
| Socket objects (`netknot/win/socket.cc`, `netknot/unix/socket.cc`) | the handle, which `close()` does not reset | `createSocket`, `accept`, `acceptAsync`, `close`, destruction, the synchronous calls | whoever opened a handle closes it, and nobody else does; the port reports on every socket |
| Win32IOService (`netknot/win/io_service.cc`) | `currentTasks`, the completion port, `_isRunning`, per thread `exceptionStorage`, a condition variable | `_workerThreadProc`, `run`, `stop`, `postAsyncTask`, destruction | every completion reaches its callback; `stop()` or a failed callback ends `run()`; `run()` joins only threads that will end; exceptions reach the caller |
| Creation of a service (`createDefaultIOService`, both backends) | threads, port, `WSAStartup`, a scope guard | create, fail at any step, destroy before or after `run()` | a failed creation leaves nothing behind; destruction waits for no thread that runs |
| Addresses (`translateAddress`, `detranslateAddress`) | none | conversions | the network sees the bytes of the address |
| Buffers (`netknot/rc_buffer.h`) | offset and size of a slice | constructor checks, the length given to the kernel | I/O stays in the buffer |
| Exceptions (`netknot/except*.h`) | one owner per exception | move, `unwrap`, `reset` | none is dropped |
| Unix backend (`netknot/unix/`) | `_isRunning`, condition variables without a predicate; the worker loop is a TODO | `run`, `stop`, the worker threads | a thread that was told to start starts; not yet a working backend |
| Request reader (`HttpReadAsyncCallback`) | `parseStatus`, `requestLine`, `requestHeader`, `expectedBodySize`, the read in flight | `onStatusChanged` | what is parsed does not depend on how TCP cuts the bytes |
| Connections (`HttpAcceptAsyncCallback`, `Connection`) | the set of connections, one shared receive buffer | `onAccepted`, `addConnection` | one owner per connection, every accept re-armed, no byte of one connection read as another's |
| Handlers and responses (`HttpServer`, `HttpURLHandlerState`) | registries per URL; the stage of a response | `registerHandler`, `writeResponse` | the registry guard undoes only what was done; stages in order |

**Interaction.** Client code calls the asynchronous operations of a socket. Each
allocates a task, starts the system call, and registers the task with
`postAsyncTask`. The kernel puts a packet in the completion port; a worker takes
it, finds the task in `currentTasks`, and calls the client's callback, which may
call asynchronous operations, `stop()`, or return an exception. `run()` sleeps on
a condition variable until `stop()` or a failed callback wakes it, posts a packet
with a null key for each worker, joins them and returns the first exception.

**What is hard.** The kernel and a worker may overtake the call that started an
operation; three owners share a hand-written count; each call has several error
returns between the steps that change state; the condition variable is used
without its lock and without a predicate; workers end in four ways; TCP may cut
a request anywhere; all connections receive into one buffer; a callback that
fails takes its worker with it; the operating system gives a closed handle to the
next socket. `PROJECT.json` lists each hazard at its line with the
properties that guard it.

## Modules

| Module | Models |
| --- | --- |
| `AsyncTask` | one task: `refs`, `released`, the overlapped block's reference (`ovlRef`), the caller's (`outRef`); `incRef`, `decRef`, destruction |
| `Win32Socket` | the asynchronous calls in three steps (issue, post, hand over) with their error returns; `postAsyncTask`; kernel and completion port |
| `Win32IOService` | worker threads, `run()`, `stop()`, destruction; composes the above: `Spec`, `FairSpec` and the properties |
| `AsyncOperation` | what a client may rely on: an operation starts or is refused, finishes, calls back once or never; the task object goes once, not while the client or the callback has it |
| `Win32Refinement` | the mapping from `Win32IOService` to `AsyncOperation`, for its read tasks and for all its tasks |
| `MCWin32IOService` | TLC's instance (symmetry of tasks) |
| `Win32IOService_proofs` | type correctness |
| `Win32Ownership_proofs` | the ownership invariant and what follows |
| `Win32Run_proofs` | `run()` and its packets; a service with one worker thread |
| `Win32Refinement_proofs` | `Win32IOService` implements `AsyncOperation` for read tasks, and with one worker for all |
| `HttpRequestReader` | reading, parsing and answering one request |
| `MCHttpRequestReader` | TLC's requests |
| `HttpRequestReader_proofs` | all invariants of the reader |
| `HandlerRegistry` | `registerHandler`, its scope guard and `handlerRegistries` |
| `ResponseStage` | `HttpURLHandlerState`: the stages of a response, each of whose calls may run out of memory half-way |
| `HttpServer` | `main()`, the accept callback, the connections, their reads and writes, routing and answering; composes the two above: `Spec`, `FairSpec` |
| `MCHttpServer` | TLC's handlers and requests |
| `HttpServer_proofs` | all invariants of the server |
| `ServiceCreation` | creation and destruction of a service of either backend, with every failure |
| `ServiceThreads` | `run()`, `stop()` and the workers of the Unix backend; start and end of the Windows workers in one `run()` |
| `SocketHandles` | socket objects, the handles they open and close, the port they are attached to |
| `IPv4Addresses` | both translations and the bytes in memory |
| `IOBuffers` | `RcBufferRef` and the lengths given to the kernel, with integer widths |
| `ClientProgram` | a program that creates a service, runs it, uses sockets and destroys it; composes the five above |
| `MCClientProgram` | TLC's addresses, buffers and sizes; symmetry |
| `SocketHandles_proofs` | every socket call keeps the invariant about handles |
| `ClientProgram_proofs` | all invariants of `ClientProgram` |

### How the service model reads

A call of `readAsync` is `Issue` (allocation up to `WSARecv`), `Post`
(`currentTasks.insert`, one step because of `currentTasksMutex`) and `HandOver`
(`incRef`, and `asyncTaskOut`). Kernel and workers act between the steps.
`writeAsync` and `acceptAsync` are the same steps; they differ from `readAsync`
in the pointer that holds the task locally, and that is `LocalRef`: a
`peff::RcObjectPtr` counts, a `std::unique_ptr` does not, and its deleter calls
`onRefZero()` itself. `Passes` says what the destructor of a task does with the
reference its overlapped block holds.

A worker's step is `Dequeue*` (the packet), `HoldTask` (`rawTask`), `Dispatch` or
`Discard` (the critical section of `currentTasksMutex`), the callback
(`CallbackReturns`, `CallbackThrows`, and any calls in between), and
`ReleaseTask`. In `Dispatch` the registered task gives up two references, the
set's and the block's. `rawTask`, not the block, keeps the task from there on.
The second smart pointer of the worker (`task`) lives within `rawTask`'s life and
is left out.

`run()` is `RunEnters`, `RunResumes` per thread, `RunSleeps`, `RunPostsPill` per
thread, `RunStartsJoin`, `RunReturns`. A wake is `WakeRun`: it is lost unless
`run()` is asleep, as the condition variable has no predicate. `earlyWake` is a
history variable: a wake came between `_isRunning = true` and the sleep.

After a use of released memory, or a second release, C++ promises nothing: the
model stops there (`Up`), and the invariants say which tasks cannot be involved.
`std::terminate()` and a failed `assert` end the process, with the reason in
`process`.

`Faults` chooses what the environment may do: `oom` (allocation fails), `issue`
(a system call fails with a known error), `unmapped` (with one the code has no
case for), `io` (an operation fails later), `spurious` (spurious wake). A send
that does not complete at once is always `unmapped`: `writeAsync` does not
exempt `WSA_IO_PENDING`.

`AsyncOperation` says what all this is for, without threads and counts. The
mapping (`ClientView`) reads off a task's `io` and `ovlRef` how far its operation
is; a packet that reports a failure, or that a worker throws away, leaves it
finished for ever, which the promise (safety only) allows. Write and accept tasks
do not keep it in general: `double_release` shows one that goes twice. With one
worker and no call that fails, as in `one_worker`, they do (`EveryKeepsPromise`).

### How the request model reads

A request is a sequence of tokens (words of the request line, header fields,
`CR`, `LF`, body bytes); `pos` of them have been received. A read completes with
any number of the tokens that are left. `LineStage`, `HeaderStage` and
`FinishHeader` are the cases of `onStatusChanged` with their fall-through:
one read may finish the line, the header and the request. `cutsKept` is a history
variable: no read so far ended in a position of `BadCut`. Field names and values
are abstract, but for what the parser does with them: a name is recognised when it
starts the header or follows a complete field, and a value loses its first
character, so that a length loses its first digit, and a transfer encoding is
taken for `chunked` when it has one character more in front (`,chunked`). Chunks,
and a length that is not a number up to `SIZE_MAX`, end the process
(`server.cc:334-343`, `:365`): `FinishHeader` has a disjunct for each, and
`LengthRefused` has the loop's guards. The sum of the digits is kept in a `size_t`
(`% (SizeMax + 1)`), so that a guard that is missing would show.

### How the server model reads

The server rests on what `AsyncOperation` promises: an operation that was started
finishes at most once and then calls back once. `op[c]` is the operation of
connection `c` and `acceptOp` the accept: `pending`, `queued` (its packet waits
for a worker) or `failed`. A callback is one or two steps of a worker, split where
the code gives the kernel an operation before it has finished with its own state:
`OnAccepted` makes the connection, adds it and posts its first read; `Rearm` posts
the next accept; `OnHeadRead` and `OnBodyRead` are
`HttpReadAsyncCallback::onStatusChanged` for a part that did, or did not, end the
head. Each error return is a disjunct that does what the destructors on that path
do: `NotAdded` destroys a connection twice, `NotRead` leaves a destroyed one in
the set; in both the exception ends the worker, and `main()` then ends the process
before the set is destroyed, which is why `DestroyedOnce` holds.

`buffer` says whose bytes the shared receive buffer holds when a callback parses
it. With another client's bytes, the parser may find any request, none yet, or a
fault: `corrupt` marks the client. `shared` is a history variable: two heads were
being received at once. `unreported` is a history variable too: a refused call or
a failed operation whose `NetworkError` could not be allocated, so that the null
pointer was taken for success (`netknot/except.cc:41`).

A request is a target, a sequence of parts among which `?` and `#` are marked, a
method, and whether it has a body. `PathOf`, `BadTarget` and `Route` are the
branches of `onStatusChanged` from the parsed line to a handler or a status.
`WriteResponse` gives every outcome of the calls that build an error response.
A handler receives the state as a const reference and cannot write a response: the
models' handlers answer with nothing. Heads are cut where `HttpRequestReader` shows
them to be kept, and its requests are ones that the reader supports, so the two
modules' faults are not mixed. Nor are the service's: an `acceptAsync` or
`writeAsync` that is rejected is an exception and nothing more here, while in
`Win32IOService` it also destroys its task twice (`win/socket.cc:283`, run
`double_release`). The server's properties hold of a service without that fault.

`Faults`: `oom`, `refused` (a call fails with a known error), `unreported` (its
error is lost), `failed` (an operation fails later), `pending` (a send does not
complete at once, which `writeAsync` takes for an unknown error), `handler` (a
handler returns an exception).

### How the client program reads

`backend` is chosen once; an action that exists on one backend only says so
(`OnWin32`, `OnUnix`). `BeginCreation` is `WSAStartup`, the service and the array
of its threads, `NoService` and `NoThreadArray` its two failures, `CreateThread`
the loop, whose failure is not noticed on either backend, and `FinishCreation` the
port. `lostStartups`, `leaked` and `missed` are history variables: they name what
the code is known to lose, so that the properties can say that it loses nothing
else.

A socket object (`sockets[s]`) keeps the number of its handle for ever: `close()`
does not reset it. `open` are the handles the operating system has open; it may
give any other one to the next socket, so a second close may hit a socket of
somebody else. `Accept` and `AcceptAsyncStarts` have a disjunct each in which the
handle is opened and its owner lost.

The Unix `run()` broadcasts one start condition after the other (`Broadcast`); a
thread that does not wait yet misses it. It then waits for a condition that nobody
signals, so that only a spurious wake (`LeaveRun`) lets it return, and only then
sets `_isRunning`. `stop()` before that ends the process; after it, it joins
threads that never end.

The arguments of the last call are in `lastCall`, as the kernel gets them.

## Runs

| Run | Instance | Shows |
| --- | --- | --- |
| `two_workers` | 2 workers, 2 reads, 1 write; faults `oom`, `issue`, `io` (0.7 M states) | `TypeOK`, `RefCountExact`, `Ownership`, `ReadTasksSafe`, `JoinCovered`, `KeepsPromise`: references and releases are right in every interleaving, and the service implements `AsyncOperation` for read tasks |
| `one_worker` | 1 worker, 2 reads, 1 write, 1 accept; faults `io` (0.9 M) | `NoUndefinedBehaviour`, `PacketFindsItsTask`, `EveryKeepsPromise`: the example's configuration is safe when no call fails, and implements `AsyncOperation` for reads, writes and accepts |
| `lifecycle` | 3 workers, 1 read, 1 accept, 2 runs; all faults but `oom` (0.2 M) | `AsleepReason`, `JoinNeverStuck`, `KernelNeverWritesFreed` |
| `fair` | 2 workers, 1 read, 1 accept, 2 runs, fair; faults `io`, `spurious` | `WokenRunReturns`, `StopEndsRun`, `CompletionDispatched` |
| `requests` | 12 requests, every cut, `SizeMax` 12, fair | `HeadIntact`, `NoEarlyAnswer`, `BodyReadFits`, `LengthExact`, `AnsweredWhenWellCut` |
| `server` | 1 worker, 2 clients, 5 requests, heads in 2 pieces, every fault, fair (0.7 M) | `RegistryExact`, `OwnBytesUnlessShared`, `AnswerRight`, `NothingForgotten`, `ReadsHaveTheirBuffer`, `CallbacksSeeLiveConnections`, `DestroyedOnce`, `ClientServed` |
| `setup` | both backends, up to 2 threads, 2 creations, 3 sockets on 2 handles, every fault (0.8 M) | `NothingLeftBehind`, `OpenUntilClosed`, `PortReports`, `AsleepBecauseMissed`, `AddressesKeepTheirBytes`, `KernelStaysInBuffer`, `DestroyedAtRest` |

Runs that find a violation; `PROJECT.json` quotes the line of the repository
each contradicts:

| Run | Finds |
| --- | --- |
| `double_release` | a rejected write or accept is destroyed twice |
| `stop_twice` | a second `stop()` terminates although `run()` is in progress |
| `run_again` | after a failed callback, the next `run()` terminates although none is in progress |
| `two_exceptions` | the second of two exceptions is never returned and trips the assertion of its destructor |
| `split_head` | a well-formed request whose empty line is split over two reads terminates the server |

**Bounds.** Every safety property about tasks speaks of one task, its call, its
worker and its packet; two tasks of a kind and two workers give every pair of
parties a rival, and the third kind of task differs from the second only in what
a call does before the kernel is asked. `lifecycle` has a third thread, so that
threads end in different ways in one run. `MaxRuns = 2` is the smallest that has a run
after a run. A task is one allocation and is used once, so the number of tasks
bounds the number of calls. The proofs need none of these bounds. Requests have
up to two fields, which is enough for a cut between fields; the lengths 01, 3 and
12 are the three things that dropping a digit can do: nothing, to nothing, to
something shorter. With `SizeMax = 12`, 012 is the largest length that fits, 019
is stopped by the second guard and 020 by the first; further requests have a space
behind the length or an encoding that is read as `chunked`. `BufferSize = 12` is more than any head part and less than the
longest request, so whole requests and partial ones occur.

`server` has the one worker that the example asks for (`main.cc:67`). Two clients
are needed for a head to be received over another's, and two pieces for a client
to be overtaken between its own reads; a third client meets only what the second
does. The requests take every route: the handler that stops the server, another
one with a query and a body, 404, 405 by a path with a fragment, and 400.

`setup` needs three sockets on two handles for the worst that a second close can do:
one object closes and another gets its handle, while a third has a handle of its
own. Data calls are made on the first socket while it is alone (`Alone`), as what
they pass on does not depend on the other sockets; `size_t` has 3 bits and `ULONG`
2, so that a size can be beyond `ULONG_MAX` and an offset can wrap; and the last
byte of an address is below 128, as TLC's integers have 32 bits. `MaxAttempts = 2`
gives a creation after a failed one. The proofs need none of these bounds: they
hold for every width and every address.

**Deadlock** is not checked: a service that was stopped, a process that ended and
a request that was answered have no next step.

**Symmetry** is used in the safety runs of the service (the one or two tasks of a
kind are interchangeable, no expression chooses one; workers are numbered and are
not symmetric) and in `setup`, which has invariants only (sockets, and handles).

**Fairness.** `FairSpec` of the service assumes that the operating system
schedules every thread that can take a step (weak fairness of the asynchronous
call a thread is in, of each worker's next step, of `run()`'s next step) and that
a callback that was started returns. Nothing is assumed of the kernel's I/O, of
clients, of spurious wakes. `FairSpec` of the reader assumes that the peer sends
all of its request and that the kernel completes the reads; the peer need not
close. `FairSpec` of the server assumes that a worker that can take a step takes
one and that the peers of open connections send what they have to send; `main()`,
failures, connects and sends complete when they like. `ClientProgram` assumes no
fairness: nothing of it has to happen.

## Proofs

Every invariant that a run checks, and the refinement, is also proved for every
value of the constants. What the theorems say, and of what:

**The service** (`Win32IOService_proofs`, `Win32Ownership_proofs`,
`Win32Run_proofs`, `Win32Refinement_proofs`), for every number of workers, of tasks
of each kind, of runs, and every set of faults unless a hypothesis says otherwise:

| Theorem | States | Hypothesis |
| --- | --- | --- |
| `TypeCorrect` | `[]TypeOK` | |
| `RefCountCorrect` | `[]RefCountExact` | |
| `OwnershipCorrect` | `[]Ownership` | |
| `ReadTasksSafety` | `[]ReadTasksSafe`, even where a write or accept next to it is destroyed twice | |
| `JoinCorrect` | `[]JoinCovered` | |
| `JoinIsNeverStuck` | `[]JoinNeverStuck` | |
| `AsleepReasonCorrect` | `[]AsleepReason` | |
| `ReadsKeepThePromise` | `KeepsPromise`: the service implements `AsyncOperation` for read tasks | |
| `AllKeepThePromise` | `EveryKeepsPromise`: and for all tasks together | `OneThread` |
| `KernelCorrect` | `[]KernelNeverWritesFreed` | `"oom" \notin Faults` |
| `PacketsFindTheirTask` | `[]PacketFindsItsTask` | `OneThread` |
| `OneThreadIsSafe` | `[]NoUndefinedBehaviour` | `OneThread` |

The hypotheses are where the code needs them, and the runs meet them. When memory
runs out in `postAsyncTask`, `writeAsync` and `acceptAsync` destroy a task whose
operation the kernel has already started: `KernelNeverWritesFreed` is then false.
`OneThread` says that
there is at most one worker and that neither memory runs out nor a system call is
rejected: with two workers a packet overtakes `postAsyncTask`, and a rejected write
or accept is destroyed twice by its own call (`double_release`). Operations that
fail later, unknown errors and spurious wakes are allowed, which is more than
`one_worker` checks.

**The request reader** (`HttpRequestReader_proofs`), for every set of requests, with
any number of fields and lengths of any number of digits, every `SIZE_MAX` that holds
a digit, every size of the buffer and every way to cut the stream:
`ReaderTypeCorrect` (`[]TypeOK`), `HeadKeptWhole` (`[]HeadIntact`),
`NoEarlyAnswerSafety` (`[]NoEarlyAnswer`), `BodyReadsFit` (`[]BodyReadFits`),
`LengthsExact` (`[]LengthExact`: a length is refused or exact, whatever its digits).

**The server** (`HttpServer_proofs`), for every number of clients and workers, every
set of handlers and requests, every number of pieces of a head and every set of
faults: `ServerTypeCorrect` (`[]TypeOK`), `RegistryCorrect` (`[]RegistryExact`),
`OwnBytesSafety` (`[]OwnBytesUnlessShared`), `AnswersCorrect` (`[]AnswerRight`),
`NothingForgottenSafety` (`[]NothingForgotten`), `BufferLifetime`
(`[]ReadsHaveTheirBuffer`), `LiveConnections` (`[]CallbacksSeeLiveConnections`),
`DestroyedOnceSafety` (`[]DestroyedOnce`).

**The client program** (`SocketHandles_proofs`, `ClientProgram_proofs`), for every
number of threads, sockets, handles and attempts, every set of faults, all
addresses, buffers and sizes and every width of `size_t` and `ULONG`: `TypeCorrect`
(`[]TypeOK`), `HandlesStayOpen` (`[]OpenUntilClosed`), `PortReportsOnSockets`
(`[]PortReports`), `NothingIsLeftBehind` (`[]NothingLeftBehind`),
`SleepersWereMissed` (`[]AsleepBecauseMissed`), `AddressBytes`
(`[]AddressesKeepTheirBytes`), `KernelInBuffer` (`[]KernelStaysInBuffer`),
`NoThreadRunsOn` (`[]DestroyedAtRest`).

### Assumptions

The service's theorems rest on `TaskKinds`, `SocketAssumption` and
`ServiceAssumption` (the kinds of tasks are disjoint, `Main` and `NoTask` are no
worker and no task); those of the client program on `CreationAssumption`,
`BufferAssumption` and `ProgramAssumption` (bounds are numbers, a `ULONG` is no
wider than a `size_t`, the program's addresses and buffers are ones); those of the
reader on `RequestAssumption` (a request has a Content-Length if, and only if, it
has digits, and `SIZE_MAX` is at least 9); those of the server on `ServerAssumption` (among others, that no client
is one of the values that stand for none, or for the accept).

### Arguments

*Ownership.* One inductive invariant, `IInv`: `TypeOK`, `QueueExact`, and for
each task `OneParty`, `OwnersOf`, `ReadReleased` and `RefCount`. `RefCountExact`
is not inductive by itself: that `Dispatch` may give up two references needs the
block to hold one (`OwnersOf`), that no second worker holds the task needs
`OneParty`, that a taken packet is the only one needs `QueueExact`, and that a
release by `decRef` leaves no pointer needs the exact count back. Each step
touches one task, so `SameTaskKeeps` disposes of the others and each action has a
lemma for its own task.

*run() and its packets.* `RunInv` adds to the types that outside of `run()` no
worker does anything (`Resting`), that from the moment `_isRunning` is set no wake was
missed unless `earlyWake` says so (`Sleeping`), that calls are made by `main()` outside of `run()` and by a worker in
its callback (`Calling`), and how many packets there are for the threads that live
(`Covered`). `JoinCovered` speaks of the join only. `Covered` counts while the
packets are being posted: a worker that takes one ends, and one that ends otherwise
leaves one over; `PillsGrow` and `PillsShrink` count packets in the port.
`JoinNeverStuck` needs beside this that the threads below the index of the loop are
resumed (`Resumed`).

*One worker.* `OneThreadInv` says that an operation in flight is in `currentTasks` or
its call is about to put it there (`Awaited`), and that a task was released at most
once and nobody uses it then (`SafeTask`). A worker that is not in its callback is
alone (`Alone`), so the call that posts a task has ended when its packet is taken;
with the exact count of `IInv`, the reference that is given up last is the last
pointer (`LastPointer`).

*The promise.* A step of the service looks to the client of one task like one
step of `AsyncOperation`, or like none, and like none to every other task
(`OneSees`, `NobodySees`, `Promised`). There is a lemma for each kind of step:
issue, call, drop, kernel, take, dispatch, release, and the steps of others. That a
step maps to a legal one needs `IInv` before it: the client's own reference, for
example, counts, so the object cannot go while the client has it. The lemmas speak
of any set of tasks that are `Trusted`: not used after their release, and not
dropped by a call whose operation runs. `IInv` gives that for the read tasks,
`OneThreadInv` for all tasks, hence the two theorems.

*The reader.* A request's stream has its first line end after the request line and
one empty line, at the end of the head (`LineEnds`), so what `find` returns in a
segment of it is known (`LineEndInSegment`, `HeadEndInSegment`). `ReaderInv` adds to
the properties that the header received so far is a segment of the stream that
ends at the last byte received (`HeaderIsSegment`): it may begin anywhere after a
bad cut, yet an empty line in it is always the one that ends the head, hence
`NoEarlyAnswer`. After good cuts only (`CutsInStep`), the status also tells where in
the head the reader is, hence `HeadIntact`. That a length without its first digit is
no larger (`NumberIs`) gives `BodyReadFits`. The sums never fall (`SumsGrow`), so a
digit is refused exactly if the whole number is too large (`GuardsExact`); hence
`LengthExact`. The library's theorems about induction
and recursion take an operator and cannot be used; `Induction`, `SumsExist` and
`SumsAre` do the same for sets of numbers by a least element, which `WFMin` gives.

*The server.* Its `IInv` is a tower, each part of which uses those below: `Core`
(types, what each worker is at, at most one accept, phases of `main()`), `ExactPairs`
and `AllRegistered` for the registry, `Kept` (the accept, and every open connection that
has no answer, is in flight or in the hands of a worker, and a callback's connection
lives), `Heads` (at most one head is received at a time unless `shared` says
otherwise, and a head that was received is in the buffer until it is parsed) and `Answers` (an answer is what `Route` says of that
client's request). `WritesOutcomes` gives, once for the stages of a response, that
they end in the whole response or in an exception. `PathIs` proves `PathOf`'s cut at
the first mark.

*The client program.* The parts of its `IInv` are inductive side by side.
`HandleInv` adds to the properties that a slot that is not used was not closed
(`SlotsOK`) and that an open handle has an owner that will close it, or was leaked
(`OpenHasOwner`): without the first a new object on a handle could inherit a double
close, without the second the last `WSACleanup` could leave handles.
`SocketCallKeeps` has a lemma for each thing that can happen to a handle: it gets an
object, it gets none, its object closes it. `StartupsBalance` and
`SocketsNeedService` give `NothingLeftBehind`; `ToldTooEarly` says of every thread
that was told what `AsleepBecauseMissed` says when all were; `ThreadsOfStage` lists
the threads a Windows service can have at each stage. `CallInv` follows from lemmas
about the operators: `NetworkOrder` (quotients and remainders by 256, one byte at
a time), `Mirrored`, `KernelLengthFits`, `SyncLengthExact`.

### Only model-checked

Liveness, which is out of the prover's reach, as is `ENABLED`: `WokenRunReturns`,
`StopEndsRun` and `CompletionDispatched` of the service, `AnsweredWhenWellCut` of the
reader, `ClientServed` of the server. And the five violations, which are
counterexamples.

## Not modelled, and the plan

Every component of the code is modelled, three of them partly (`PROJECT.json`). What
is left out of them, and why:

- `UnixIOService::postAsyncTask` and the asynchronous calls of `UnixSocket`: they
  put a task into a set, and nothing of the unfinished backend reads it.
- The body of `releaseThreadsGuard`: it cannot be reached, as the creation of a
  thread is tested against the wrong value.
- The kinds and codes of exceptions, tables of error codes, UUIDs of address
  families, formatting, build files: lookups without state.
- The chunks of a chunked body: the reader ends the process when it recognises one,
  before it reads any.
- Responses of handlers, and the digits of a response's length (`lenStr`,
  `server.cc:94`): a handler cannot call `writeResponse` on its const state, and all
  bodies of the server are empty.

What remains to be done:

1. More of the safety that liveness rests on: that a step is possible wherever
   fairness is assumed (`StopEndsRun` and `WokenRunReturns` need `JoinNeverStuck`
   and that a worker in a callback can leave it).
2. What `AsyncOperation` promises, stated as invariants of that specification (a
   task that is gone is not held, and over or refused), so that clients can be
   proved against it rather than against the service.
