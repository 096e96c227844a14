# A verification of the C++ REST SDK (cpprestsdk)

TLA+ models of the concurrent core of the library, TLC configurations that check
them on small instances, and theorems proved with TLAPS for instances of any
size. Paths are relative to the repository; `Release/` is where the library is.

Contents: [the system](#the-system), [what is modelled](#what-is-modelled),
[the runs](#the-runs), [fairness](#fairness), [what is proved](#what-is-proved),
[where code and comments disagree](#where-code-and-comments-disagree),
[what is not modelled](#what-is-not-modelled), [plan](#plan).

To check a run: `tlc -config Token.cfg CancellationToken.tla` (PROJECT.json
names the module of every configuration). To check proofs: `tlapm Module.tla`.

## The system

The library is layered. At the bottom, `pplx` gives tasks, completion events and
cancellation tokens over a pool of threads. Stream buffers answer reads and
writes with tasks. The HTTP client and server and the websocket client drive
sockets through callbacks that run on pool threads, and answer with tasks. Nearly
every hard behaviour is a meeting of a callback with a client thread, a timer, a
cancellation or the end of an object's life. Nothing is persisted, so nothing
recovers from a crash; failures are failing operations of the network, the disk,
the scheduler or client code.

### Tasks (`include/pplx/pplxtasks.h`)

*State.* `_Task_impl_base` (1678-1704): the state `_M_TaskState`, the exception
holder, the list of continuation handles, the event waiters block on. A handle
(`_ContinuationTaskHandleBase`, 1424) is owned by one place at a time: its creator,
the ancestor's list, the scheduler, the thread that runs it.
*Operations.* `create_task`, `then`, scheduling, running a body that returns,
throws, cancels or returns another task (unwrapped by `_AsyncInit`), cancellation
through a token, completion, `wait`/`get`.
*Interactions.* Posts chores to a scheduler, registers callbacks with tokens, is
completed by events and by other tasks.
*Hard.* `then()` against completion; a cancellation against start, body and
completion; a scheduler that throws; who may finish a task.
*Correct if* each task is finished by exactly one thread, no continuation stays in
the list of a finished task, a waiter sees a final outcome, and outcomes propagate
along `then` and unwrapping.

### Completion events (`pplxtasks.h` 2560-2890)

*State.* The value flag, the canceled flag, the stored exception, the list of tasks
created from the event. *Operations.* `set`, `set_exception`, the internal `_Cancel`
of `when_all`, creation of a task, destruction. *Hard.* `set` and `set_exception`
decide in separate critical sections and read fields outside them; a task may be
registered while the event is being decided. *Correct if* one call wins, tasks agree
with it and with each other, and no task is forgotten.

### Cancellation tokens (`include/pplx/pplxcancellation_token.h`)

*State.* The flag of the token (0, 1, 2), its list of registrations, and of each
registration the reference count, the state word (a named value, or the id of the
thread that runs the callback) and the event a deregistering thread waits on.
*Operations.* `register_callback`, `cancel`, `deregister_callback`, dropping handles
and the token. *Hard.* Everything meets everything, lock-free: registration against
cancel, deregistration against a running callback, a callback that deregisters
itself. *Correct if* cancel reaches each registered callback once, deregistration is
a barrier, and the counts free each registration once and not early.

### Combinators, scheduler, locks

`when_all`/`when_any` (6200-7000) count completions into an event and delete a
parameter block when the count is full. The pool (`src/pplx/threadpool.cpp`) is forty
threads over one queue. Locks and events (`pplxlinux.h`, `pplxwin.h`) wrap the
platform's. Hard: bodies that wait inside the pool; the deletion of the block.

### Stream buffers (`include/cpprest/*stream*.h`, `src/streams/`)

*Producer-consumer buffer* (`producerconsumerstream.h`). State: a queue of blocks with
read and write heads, totals, the number of characters flushed, the queue of
outstanding reads. Operations: write, alloc/commit, sync, close; `getn`, `bumpc`,
`getc`, `nextc` and their synchronous forms, acquire/release. Hard: short reads after
a flush, reads outstanding at a close, blocks committed in part. Correct if reads
return what was written, in order, end only at the end, and are woken.
*File buffers* (`filestream.h`, `fileio_posix.cpp`). State: positions, the read-ahead
buffer with offset, size and fill level, the end-of-file flag, outstanding writes and
the callbacks waiting for them. Operations: asynchronous and synchronous reads, seeks,
size, buffer size; ordered writes, append, flush, close. Hard: a refill that keeps
unread characters, stale buffers after seeks; on the writing side, a close behind
writes. *Memory buffers* (`containerstream.h`, `rawptrstream.h`) do position
arithmetic; *front ends* (`streams.h`) forward and parse.

### HTTP client (`src/http/client/`)

*State.* `_http_client_communicator`: the count of scheduled requests and the queue for
`guarantee_order`. `asio_connection_pool`: idle connections by age. Per request an
`asio_context`: its connection, the operation under way, its timer, the registration
with its token. *Operations.* Sending; the chain of handlers from resolve to the end of
the body; fail-over between endpoints; resending after a dropped pooled connection;
timeout; cancellation; the destructor that returns the connection. *Interactions.*
Handlers, timer and token callback run on any pool thread and meet in the connection.
*Hard.* Timer or cancellation between the completion of an operation and its handler;
replaced connections; errors reported in the middle of a handler. *Correct if* a
connection serves one request at a time, only live connections are pooled, each request
is answered once and eventually, and ordered requests run one by one.

### HTTP server (`src/http/listener/`)

*State.* `http_linux_server`: listeners with their locks, acceptors per host, the set of
connections, each with a count of users. *Operations.* register/unregister, start/stop,
accept, parse, dispatch, reply. *Hard.* `unregister_listener` must wait for running
handlers; the count decides who deletes a connection; accept races stop; the application's
reply races the server's. *Correct if* no handler runs after unregister, each connection is
deleted once, stop returns, and each request is replied to once.

### Websocket client (`src/websockets/client/ws_client_wspp.cpp`)

*State.* Connection state, the send queue and the count of sends, the close event, the
websocketpp client. *Operations.* connect, send, receive, close, shutdown, destruction.
*Hard.* The count is changed outside the lock of the queue; close before connect. *Correct
if* messages go out in order, one at a time, and close always completes.

### Messages, JSON, URI, utilities, OAuth

Sequential: parsing, formatting, encoding, signing.

## What is modelled

| module | models | state | atomic step |
|---|---|---|---|
| `CancellationToken` | the token and its registrations | one variable per field; per thread, where it is in a method | one read-modify-write of an atomic, one section under `_M_listLock`, one count change |
| `Task` | `_Task_impl`, handles, propagation | one variable per field; `chore` is where the handle is | one section under `_M_ContinuationsCritSec`, one post, one chore taken, one signal |
| `Future` | the abstract specification of `Task` | outcome, error, source of each task | a task is created, adopts another, or resolves |
| `TaskCompletionEvent` | `task_completion_event` | one variable per field; each thread's local list | one section under `_M_taskListCritSec`, one unlocked access, one task completed |
| `Combinators` | `when_all`, `when_any` over an event | where the continuation of each antecedent is, `count` | one call of a method of the event begun, one step of it, one `atomic_increment`, the deletion |
| `ProducerConsumerBuffer` | `basic_producer_consumer_buffer` | `buf` (blocks, totals, synced), requests, flags | one section under `m_lock` |
| `FileReader` | a file buffer opened for reading | positions, flag, `buf` (allocated memory, offset, size, fill level) | one call with its completion |
| `FileWriter` | a file buffer that writes | write position, the file, the place of each write, outstanding count, waiters, heads, record | one section under `m_lock`, one system call of a task |
| `FileStream` | a file written through the one and read back through the other | both, and `phase` | a step of either, or opening the second stream |
| `HttpClient` | communicator, pool, context, timer, token | one variable per field of the context; `conns`, `pool` | one handler; one completion by the network |
| `HttpServer` | listeners, `http_linux_server`, `hostport_listener`, `connection` | registrations, maps, the accepts that wait and whether one failed; per connection `m_refs`, `m_close`, socket and the place of its chain; per request the place of its dispatch | one handler of asio, one section under a lock, one wait ended |
| `WebSocketClient` | `wspp_callback_client` and `websocket_client_task_impl` | `m_state`, thread, client, events; the place of each send, `m_num_sends`, both queues | one handler, one section under a lock, one continuation |

`MCTask` gives TLC the symmetry of tasks; the other modules are checked as they are, with
model values in their configurations. `CancellationTokenProofs`, `TaskProofs`, `EventProofs`
(about `TaskCompletionEvent` and `Combinators`), `ProducerConsumerBufferProofs`, `FileProofs` (about
`FileReader`, `FileWriter` and `FileStream`), `HttpClientProofs`, `HttpServerProofs` and
`WebSocketClientProofs` hold the theorems.

How the modules compose:

* `Task` takes from `CancellationToken` that a callback is made once (its `AsyncCancel`), and
  `TaskCompletionEvent` takes from `Task` how one task is completed or canceled. `Task` implements
  `Future` through `INSTANCE ... WITH` (property `ImplementsFuture`): a holder of tasks sees an
  outcome that depends on the source as `then` and unwrapping say, and never changes.
* `Combinators` runs the continuations of the antecedents as the threads of `TaskCompletionEvent`,
  step by step through the event's own actions. They are taken from an instance with `Mixed` true
  (`when_any` lets `set` overlap `_StoreException`); `AllUsesEventWell` then says that the steps of
  `when_all` are also steps of the event with `Mixed` false, the premise of the event's theorems.
* `FileStream` instantiates `FileWriter` and extends `FileReader`. Closing the file ends the first,
  opening it again starts the second on the file that was left. `FileReader` knows characters by
  their offset, `FileWriter` by the write they come from; `Text` translates.

### How actions correspond to code

The map in PROJECT.json names the lines of each definition. In outline:

* **CancellationToken.** `Register`, `RegisterListed`, `RegisterTooLate`, `RegisterReturn`
  are `_RegisterCallback`; `InvokeClaim`, `InvokeSkip`, `ExecReturn`, `InvokeSignal`,
  `InvokeRelease` are `_Invoke`, split at its atomic operations, with the callback running
  between claim and return (a callback may itself deregister or drop handles); `CancelBegin`,
  `CancelSwap`, `CancelNext`, `CancelReturn` are `_Cancel`; the `Deregister...` actions are
  `_DeregisterCallback`; `DestroyToken` is the destructor. The list is a set, since a callback
  takes arbitrarily long and order cannot be seen. `late` is a history variable: a registration
  has overlapped or followed cancel.
* **Task.** `Create` with `CreateTask` and `Then`; `ScheduleTask`, `ScheduleContinuation`,
  `RunContinuation` are the posts, each of which may fail if the scheduler throws; `Start`,
  `StartCanceled`, `BodyEnds`, `BodyReturnsTask` are the invoke of a handle; `AsyncInit`,
  `PostInner`, `RunInner` are the internal continuation of an unwrapped task; `Terminate`,
  `Complete`, `RunTaskContinuations` are completion; `AsyncCancel` is the token's callback.
* **TaskCompletionEvent.** `SetBegin`, `SetLocked`, `SetEach`, `SetReturn` are `set`;
  `StoreException` and `CancelTest` to `CancelReturn` are `set_exception` and
  `_CancelInternal`; `RegisterTask`, `AsyncCancel`, `Destroy`.
* **Combinators.** `ReportAll`, `ReportAny` are the continuation wrappers up to the call they make
  of the event; the steps of the event follow; `Count` is the increment, `Last` what the
  continuation that makes the count full does, `Delete` the deletion of the parameter block;
  `AskCancel` is the joined token. Which antecedent `when_any` names is left out.
* **ProducerConsumerBuffer.** One action per method; each that makes characters available ends
  with `fulfill_outstanding`, as in the code. `_close_write` is two steps, since it clears the
  flag before taking the lock. The n-th character written is the number n.
* **FileReader.** One action per call. `m_readOps` runs asynchronous reads one at a time, and
  every synchronous call and seek waits for them, so nothing interleaves within a call (size and
  buffer size do not wait; they are steps between calls). The n-th character of the file is the
  number n, memory not written is `Garbage`, and sizes are `size_t`: `Minus` wraps at `Word`.
* **FileWriter.** `Putn` is `_putn_fsb` up to the task it leaves; `Place` (the `lseek` of a write at
  the end), `Pwrite` or `PwriteFails`, and `Finish` are that task. `Sync` is `_sync_fsb`, `CloseIn`,
  `CloseRead`, `CloseWrite`, `CloseStream` and `CloseFsb` are `close`, `_close_read`, `_close_write`,
  its continuation and `_close_fsb_nolock`. A write is one character, identified by its call, and the
  file a sequence of them.
* **HttpClient.** One action per handler and outcome of a handler; `Network` completes the
  pending operation with any result it may have; `Timeout`, `Cancel`, `CancelCallback`,
  `Destroy`, `EpochTick` interleave freely. Connection identities are reused once freed.
* **HttpServer.** `OpenOrClose` is the program; `Begin` takes `s_lock` and with `Insert`, `Erased`,
  `Remove`, `Unlist`, `Barrier`, `Uncount`, `Stopped` is `http_server_api` with `register_listener`,
  `unregister_listener`, `start` and `stop`, split where a lock is taken or something is waited for;
  the lock being held by one operation is `api`. `AcceptFails` and `OnAccept` are `on_accept` with and
  without an error; `HandleLine` to `FinishRequestResponse` are the handlers of a connection, `Found` and `NotFound`, `Respond`, `EnterHandler`, `Unregistered`, `HandlerReturns`,
  `HandlerThrows`, `EndDispatch` are `dispatch_request_to_listener` around its two lookups. Connection
  identities are reused once deleted; number 0 of the requests stands for the bare `m_request` that a
  read that ended leaves.
* **WebSocketClient.** `Connect`, `AssignThread`, `OpenHandler`, `Shutdown`, `Join`, `CloseHandler`,
  `CloseSet` are `connect_impl`, the handlers and `shutdown_wspp_impl` with its task; `Close` and
  `CloseRefused` are `close` when websocketpp begins the closing handshake (or finds it begun) and when it
  refuses the code, an error that `close` does not look at; `PeerCloses` is the peer's close, which websocketpp
  answers;
  `Drop`, `DestroyFront`, `LastSend`, `Destroy` are the end of the two clients, through whichever
  reference goes last; `Send`, `Push`, `StreamFails`, `HandOver`, `CountDown`, `TakeNext` are `send` and
  `send_msg`; `MessageHandler`, `SetReceive`, `Receive`, `ClosePending` are the front. Once undefined
  behaviour is met (`broken`) the model stops, for nothing is known.

## The runs

| run | instance | distinct states | question |
|---|---|---|---|
| `Token` | 3 threads, 2 registrations | 15 654 | Do registration, cancel, deregistration and destruction fit together? |
| `TokenOverRelease` | 2 threads, 2 registrations | finding | Does a count ever go below zero? |
| `Task` | 3 tasks, 1 token, a scheduler that may throw | 983 400 (up to symmetry) | Is each task finished once, no continuation lost, and do tasks implement futures? |
| `TaskLive` | 2 tasks, 1 token, a scheduler that does not throw | 9 252 | Is every waiter released? |
| `Event` | 3 threads or antecedents, 2 tasks | 28 574 | Does one call decide, is no task forgotten, and do combined tasks end as their antecedents? |
| `Buffer` | counts 1 and 3, blocks of 2, 5 characters, 3 blocks, 2 reads outstanding | 226 173 | Do reads return what was written, and is every reader woken? |
| `Client` | 2 requests, one cancelable, 3 connections, 2 endpoints | 535 559 | Is each connection one request's, is each request answered once and in the end? |
| `ClientPool` | the same | finding | Are closed connections kept out of the pool? |
| `File` | pages of 4, files of 0, 1, 2, 3, 5 and 9, requests for 1, 2, 3 and 5 characters; 2 writes, 1 flush and that of the close | 351 454 | What can the read-ahead buffer be trusted for, and is what was written in the file? |
| `FileRefill` | files of 0, 1, 5 and 9 | finding | Does every read answer with the file? |
| `Server` | 2 listeners, with one path or two, 1 connection of 2 requests, replaced when deleted; accepts that fail | 427 912 | Does close wait for the handlers, does the count decide who deletes, does an open listener accept? |
| `WebSocket` | 3 sends, 2 receives, 2 incoming messages; closes by either side, or refused | 344 916 | Do sends go out in order, do messages meet receives, does close complete? |

### What each shows

**Token.** `RefBalance` and `NoUseAfterFree`: as long as no registration overlaps or follows
`cancel()`, every count equals the number of owners, and what a list, handle or running method
can reach has not been deleted. `CancelReachesAll`: once `cancel()` has returned, each complete
registration nobody deregistered has been called, once: the flag read twice and the list swapped
leave no gap. `DeregisterIsBarrier`: when `deregister_callback` returns, the callback is not
running on another thread, and it is never entered again. `CallsReturn`: every call returns,
including a deregistration that waits for a callback. Three threads allow one to cancel, one to
deregister and one to register or destroy, and two registrations are what the emptiness of the
list (on which `_DeregisterCallback` branches) needs to depend on another registration.

**Task.** `NoContinuationLost`: no handle stays chained to a task that has run its continuations.
`OneFinisher`: a task is final exactly when its handle is gone, so that two threads never finish it.
`ImplementsFuture`: refinement of `Future`. Three tasks are enough for a task with an ancestor and an
inner task at once, a chain of two, and two continuations of one task. **TaskLive.**
`EventuallySignaled` for two tasks in every relation.

**Event.** For clients of an event: `WinnerDecides`, `TasksAgree` and `NoneForgotten`, as the comments
in the code promise them, for calls of `set` and `set_exception` that do not overlap. For the
combinators: `OutcomeFollows` says how the task returned ends once the block is gone, whatever mixture
of values, exceptions and cancellations the antecedents ended with; `AllUsesEventWell` is described
above; `CombinedCompletes`: the task returned ends when all antecedents have. Three threads are two that
race and one between their sections, and three antecedents are one of each fate; two tasks are what
agreement needs.

**Buffer.** `Contents`: the blocks hold what was written and not read, in order, and the counters
say so. `AnswersInOrder`: reads return consecutive characters from the read head and consume what
they return; peeks consume nothing. `NoFalseEof`: an empty answer means the end of the stream
(`nextc` apart: it waits for one character and needs two). `NoReaderStuck`: the first outstanding
read cannot be satisfied, unless a close is about to answer it. Counts of 1 and 3 with blocks of 2
give reads and writes below, at and across the end of a block; five characters are two blocks and
a rest; two outstanding reads are what overtaking needs.

**Client.** `NoSharing`: no two contexts, and no context and the pool, have the same connection.
`PoolSorted`: what is in the pool lies in the order that pruning relies on. `Serialized`: under
`guarantee_order` one request is under way, and the count agrees with it. `FinishedOnce`: one `finish`,
with response and body answered and no handler left. `Completes`: whatever is sent ends, however the
network stalls. Two requests are enough for a connection that passes from one to the other, for the
queue, and for fail-over into the pool; three connections are two in use and one idle; two endpoints are
one fail-over. `Serialized` and `FinishedOnce` except responses in an unsupported encoding (see the
observations), and `Completes` also timeouts lost when a connection was replaced: a timer that fires
between a failed connect and its handler closes the connection that is then thrown away.

**File.** `BufferHoldsFile`: the characters below the fill level are the file's, whatever
refills, seeks and short reads came before. `WrongOnlyPast`: a read answers something that is not in
the file only from a position past the fill level, where the unsigned arithmetic of
`_fill_buffer_fsb` wraps. A page of 4 with requests of up to 5 has requests below and above a page, and
files of 0, 1, 5 and 9 are empty, below a page, and one and two pages and a rest; positions go past the
end of each. `Word` is larger than any sum of a position and a request, as 2^64 is. For the writer:
`FlushIsBarrier`: an answered flush has every write put before it in the file; `RecordOutlivesWrites`: the
close of the write head frees the file record when no task needs it; `WritesKept`: a write that was made is
in the file, whichever order the tasks ran in and whether the file was opened at its start or with
`O_APPEND`; `FlushAnswered`: flushes are answered and a close of both heads ends. `ReadBack` joins the two:
what was written from the start without a seek is read back in the order of the calls. Two writes can
overtake each other, and a flush between them must wait for the one and not the other; files of two and
three characters are what seeks past the end (`MaxSeek`) leave.

**Server.** `RefsCountUsers`: `m_refs` is the number of threads in a connection and of the references that
two error paths never give back (`leaked`, see the observations), and the connection is deleted exactly
when it is zero. `CloseIsBarrier`: a closed listener runs no handler. `OpenIsServed`: an open listener is
in both maps of a host that is started and waits for the next connection (or is about to take one), through
failed opens, stops, restarts and accepts that complete late; a host of which an accept has failed is excepted,
for `on_accept` then begins no other until the host is stopped and started again (observations). `CloseReturns`: a close returns, unless the process crashed or a
connection was accepted behind the back of `stop()`. The last three are about listeners with different
paths; with the same path, the failure of the second takes the first with it (observations). Two listeners
make one the last to close or not; one connection carries a request that is being handled while the next is
read, and is replaced by another after its deletion.

**WebSocket.** `SendsInOrder`: one send is under way, and senders are answered in the order in which
messages were taken, though the count and the queue are changed apart. `ClientThere`: a message is never
handed to a client that the shutdown has destroyed. `ReceivesMatch`: messages and receives meet one to one.
`SendsAnswered`: each send is answered unless the stream of an earlier one failed. `CloseReturns`: once a closing
handshake has begun, by either side, `close()` completes, and the destructor ends; a `close()` whose code
websocketpp refused is excepted, since nothing on this side ends the connection then (observations). Three sends are one under way, one queued and one between count and queue; two
receives and two messages are what a queue on either side needs.

Clients may stop calling, connections may be idle and a closed stream does nothing, so no run
checks for deadlock: what must go on is stated as liveness (`CallsReturn`, `EventuallySignaled`,
`CombinedCompletes`, `Completes`, `FlushAnswered`, `CloseReturns`, `SendsAnswered`) or as an invariant
(`NoReaderStuck`).

Each property of a passing run has a mutant, a plausible bug in the code written next to the
definition it replaces (`...Untested`, `...Lost`, ...), that breaks it.

## Fairness

* `CancellationToken!FairSpec`: weak fairness of each thread's `Step`, the steps it takes inside a
  method. The code takes no lock for long and waits only on the event of a deregistration; callbacks are
  assumed to return. Nothing is assumed of calls: a client may never cancel or deregister.
* `Combinators!CombSpec`: weak fairness of each thread's steps inside the event and of each continuation
  that has begun. Antecedents may never end.
* `Task!FairSpec`: weak fairness of `Work` per task: the pool takes what is posted, threads inside
  the library go on, bodies end. The pool is not bounded in the model (see below).
* `FileWriter!Fairness`: weak fairness of the task of each write and of the tasks of a close; a read that is
  under way ends. The pool again takes what is posted.
* `HttpClient!FairSpec`: weak fairness of the handlers, token callbacks, destructors, and operations
  that end whatever the peer does (resolution, connect attempts, and anything whose connection was
  closed), as one action: the io service runs what is ready. Weak fairness of timeouts: a timer that
  is not reset forever fires. The network is not fair: a read or write of an open connection may never
  complete.
* `HttpServer!FairSpec`: weak fairness of each connection's handlers (and of the reads on a socket that
  this side closed), of each dispatch, and of the operation that holds `s_lock`; handlers of the
  application return, though they may never reply. Strong fairness of `Begin`, that is of taking
  `s_lock`: other threads take and release it in between, and a mutex does not starve one forever.
* `WebSocketClient!FairSpec`: weak fairness of `m_thread`, of the tasks and chains, of the reading of a
  stream, and of the end of connecting and of the closing handshake, for which websocketpp has timeouts: that of
  the handshake is started when the handshake begins (`connection_impl.hpp:2025`), by our close or in answer to
  the peer's. A connection that nobody closes may stay open, and so may one whose close was refused.

## What is proved

Every theorem is checked by TLAPS down to the last leaf and holds for all values of the constants
that satisfy the named assumptions. Every invariant, action property and refinement that a passing run checks
is stated by one of them; what TLC alone checks is liveness. Of that the theorems called `...DoNotDeadlock`,
`...DoNotHang`, `...DoNotStall`, `NoFlushIsForgotten`, `CombinedIsCompleted` and `RequestsAreWatched` prove the part that is safety:
whoever waits, waits for somebody who can go on. Their invariants were checked by TLC on the instances of
the runs before they were proved.

**CancellationTokenProofs** (assumption: thread ids are not state names). `BarrierInvariant` is
`TypeOK` with five parts: `ThreadShape` (which combinations of places a thread can be in),
`CancelShape` (one canceller; the rundown list is empty unless it runs), `OwnerShape` (a registration
is in one of list, rundown list and the hands of one thread), `DeregShape` (one thread deregisters a
registration and its handle is there) and `StateShape`, the heart: while a callback runs, its state
word is its thread, or SYNCHRONIZE with a thread waiting that has not been signaled. From it follow
`TypeCorrect` and `DeregistrationIsBarrier`. For the counts the invariant is extended by `Listed`
(no late registration: what is not deregistered is listed as long as the list is not taken), which
decides the branch of `_DeregisterCallback` on an empty list; `RefsBalanced` and `NoneUsedAfterFree`
follow. Their premise `~late` is part of the properties. For `CancelReachesEveryCallback` it is extended by
`CallShape`: a registration whose state word is still clear is in one of the two lists or in the hands of a
thread that is about to claim it. That needs no premise. `DeregistersDoNotDeadlock` adds `WaitShape`: a
thread that waits in `deregister_callback` waits for one that runs the callback, which is the canceller, and the
canceller waits for nobody, since a callback of its own that it deregisters does not wait. So waits have length
one, however callbacks deregister each other.

**TaskProofs** (assumption: "none" is no task or token). `TaskInvariant`: for every place of a handle,
the states its task may be in (`PlaceShape`), what is known of the task it depends on (`SourceShape`),
how far completion is (`FinishShape`), and what a task with a canceled token has not done
(`LateShape`). From it: `TypeCorrect`, `WaitersSeeOutcome`, `ContinuationsRun`, `LateTasksFail`,
`FinishedOnce`. `TasksAreFutures`: initial states map to initial states and each step under the
invariant to a step of `Future` or a stutter; the invariant is what says that a posted value-based
continuation has a completed ancestor, and an internal continuation a finished inner task. `TasksDoNotDeadlock` adds
`SourcesEnd`: in every set of tasks some task depends on none of the set. Therefore, of the tasks whose handles
are in lists, one is in the list of a task that is not itself in a list, and that list is still to be run. It
rests on the precondition `Independent` of `BodyReturnsTask`, the client's part: a body returns a task that does
not depend on its own.

**EventProofs, the event.** `TypeCorrect` without a premise; the others for calls of `set` and
`set_exception` that do not overlap (`~Mixed`). `EventInvariant`: one thread owns the decision
(`OwnerShape`); an exception is stored once and never beside a value (`HolderShape`); tasks end with
it (`OutcomeShape`); a task that is not done is in the event's list or in a thread's (`ListShape`).
From it: `FirstCallWins`, `AllTasksAgree`, `OutcomeIsWinners`, `SetIsNotCanceled`, `NoTaskForgotten`.

**EventProofs, the combinators** (assumption `CombAssumption`: finitely many antecedents, and a task). `BInv`: the
count is the number of continuations that have left the event, so that the one which makes it full finds
nobody else in the block (`BlockShape`), and under `when_all` nobody sets the event before (`AllShape`).
From it: `BlockSafelyDeleted` and `WhenAllUsesEventWell`. `OInv` adds the event's own invariant `IInv`,
which is inductive here because of the latter, with what each continuation has told the event
(`ReportShape`) and what became of the task returned (`ValueShape`). From it, for `when_all`:
`WhenAllOutcome` and, by the event's theorems, `WhenAllKeepsPromises`. For `when_any`, whose
calls of the event do overlap, `AnyInv` replaces the event's own invariant. What makes it hold is that nobody
cancels the event before all are counted, so that until then being triggered is having a value (`ToldShape`);
its parts say besides where the task is while it is not done (`TakenShape`) and what it can end with
(`EndShape`: a value if one was set, else an exception of an antecedent that failed). From it, without a
premise: `WhenAnyOutcome`; with the one for `when_all`, `CombinedOutcome` and `EventKeepsPromises`. `CombinedIsCompleted`
adds `LastShape`, that when all are counted one is in the block until it is deleted.

**ProducerConsumerBufferProofs** (assumption `BufferAssumption`: sizes are positive, bounds are natural numbers).
The model computes with sequences of blocks, and the proof goes the same way in layers. First what the
operators compute for every sequence: `FlattenSeq` of blocks that are appended, cut or emptied; `Taken` and
`Purged`, which take characters from the front blocks and drop those that are read. Then what a read, a write
and `fulfill_outstanding` do to a buffer: `Fulfill` is a recursive function over the requests, and `RunShape` is
preserved by each of its steps. These inductions use `NaturalInduction`, induction over a set of numbers, which the
module proves from cardinalities, because the library's theorem takes an operator. Last the invariant `IInv`:
the blocks hold the characters from the read head on and the totals agree (`BufferShape`); who holds an acquired
block reads nothing else, and what it was offered is there (`HeldShape`); the answers of the last step
(`AnswerShape`); and `NoReaderStuck`, which is inductive only with the counters. From it: `BufferInvariant`,
`TypeCorrect`, `ContentsKept`, `AnswersKeepOrder`, `EofIsTrue`, `ReadersAreServed`. Two theorems are about steps:
`ReadsLeaveNoGap` (from one answer to the next nothing is skipped but what `release` lets go) and
`RequestsTakeTurns` (requests leave the queue from the front, answered, and join at the back).

**FileProofs, the reader** (assumption `ReaderAssumption`: sizes and counts are natural numbers within the
bounds, and a position plus a request is below `Word`). `ReaderInvariant`: a buffer starts at or
before the position and holds the file below its fill level (`Good`). It says nothing of the position
being below the level, because it is not always. Lemmas give what a copy, a refill, a seek and a read
do to it; `Remaining` is the unsigned arithmetic: within the level it computes what is left, past it,
more than any request. From the step lemma: `ReaderTypeCorrect`, `AvailableIsFile`,
`WrongAnswerOnlyPast`, `EarlyEndOnlyByFlag`.

**FileProofs, the stream** (assumption `StreamAssumption`: finitely many writes). `StreamInv`: the outstanding
count is the number of writes not done, and a flush that is answered has its writes done (`FlushShape`); once
the write head is closed and its flush answered nothing is outstanding (`CloseShape`); without a seek, from the
start of the file, the i-th call of putn has position i - 1 and its character is there once written
(`InOrder` in `PlaceShape`); the reader sees the size that was left (`ReaderShape`). From it:
`FlushesAreBarriers`, `NoFlushIsForgotten`, `RecordIsKept`, `NoWriteIsLost` and `WhatIsWrittenReadsBack`.

**HttpClientProofs** (assumption `ClientAssumption`: `NoConn` is no connection, a name resolves to at least one
address). Two invariants, each inductive alone. `OwnInv`, of connections: one that a context or the pool has exists
and is nobody else's (`OwnShape`), and the pool is sorted. Its proof has three kinds of step: those that give no
connection away and end none (`Touches`), those that take what `obtain_connection` answers (`Takes`), and the two
that give back or drop one. `ServeInv`, of requests: what has been answered in each phase (`StageShape`), that the
queue holds what waits, once (`QueueShape`), and that `m_scheduled` is one more than the queue while a request is
under way (`OrderShape`). From them: `TypeCorrect`, `ConnectionsNotShared`, `PoolStaysSorted`, `RequestsFinishOnce`,
`RequestsSerialized`. The premise about unsupported encodings is part of the last two properties: `read_headers`
finishes such a request twice (see the observations below). `RequestsAreWatched` adds `WatchShape` to both: a
request that is under way has a context and an operation, and until its timer has fired the timer runs; once it
has, the connection whose operation the request waits for is closed and stays so, which is why
`handle_resolve` must look at the timer again. The theorem then says that nothing under way waits for a read or write
that nobody would end. Its premise, `lost`, is a timeout whose closed connection was replaced by the next address.

**HttpServerProofs** (assumption `ServerAssumption`: finitely many listeners, at least one request).
`IInv`: which operation holds `s_lock` on which listener (`ApiShape`); the registration count counts the
listeners that are open or being opened or closed (`CountShape`), so that the server is stopped by the last;
with different paths, the maps hold the open listeners and those whose close has not reached them
(`PathShape`); a handler runs only for a listener that is registered or whose close waits for it
(`HandlerShape`); of each connection, `m_refs` is chain, dispatches and leaks, and a request is dispatched once
(`ConnShape`). From it: `RefsAreCounted`, `CloseWaitsForHandlers`. `OpenListenersAreServed` adds `AcceptShape`: a
host that listens has an accept that waits, or a connection that `on_accept` is to take and that no other step
touches (`ReadyStays`), unless an accept has failed since the host was started. `StopsDoNotHang` adds `StopShape`:
while a host is being stopped it has no listener and every connection in `m_connections` is live; each was closed by
the server, and its current request is answered, so that its chain of handlers runs out without the client or
a handler. Excepted are accepts that come in late (see below) and listeners with the same path.

**WebSocketClientProofs** (assumption `WebSocketAssumption`: finitely many sends). `IInv` is `TypeOK` with
`LinkShape` (the client is gone only when the state says that the connection has ended), `CountShape`
(`m_num_sends` counts the messages that are counted, queued, under way or stalled, and one chain runs at most),
`OrderShape` (what was taken is what was answered, what is under way and what is queued, in this order) and
`ReceiveShape` (a message that came in is in exactly one place). From it: `TypeCorrect`, `ClientIsThere`,
`SendsStayInOrder`, `MessagesMatchReceives`. `SendsDoNotStall` adds `ChainShape` (while anything is counted a
chain runs, or one ended early), `ClosesDoNotHang` adds `EndShape` (each state of the connection has somebody who
does the next step: `m_thread`, which runs as long as it is connecting or up, then the task of
`shutdown_wspp_impl`; a client in the state `CLOSING` is in a closing handshake, or its close was refused).

*Only model-checked:* the liveness properties `CallsReturn`, `EventuallySignaled`, `CombinedCompletes`,
`Completes`, `FlushAnswered`, `CloseReturns` (of the server and of the websocket client) and `SendsAnswered`.
Fairness and ENABLED are out of the prover's reach. What is missing between the theorems above and these properties is that
each step brings the end nearer: that a chain of handlers, a rundown list or a list of continuations is finite and
that somebody who can go on does.

## Where code and comments disagree

* **An over-released registration** (`TokenOverRelease`, `pplxcancellation_token.h:512`). A
  registration made after `cancel()` has given its list's reference back; deregistering it while other
  registrations are still listed releases that reference again, and the assertion in `_Release` that
  the count is not negative fails.
* **A closed connection in the pool** (`ClientPool`, `http_client_asio.cpp:1195`). `read_headers`
  recomputes `keep_alive` even if the connection was closed meanwhile.
* **A fill level that is too low** (`FileRefill`, `fileio_posix.cpp:406`). A refill counts what it read
  and not what it kept; reads can then return memory that was never filled instead of the end of file.

Observations that no run of the project states. Those that name a definition were found with TLC: checked as an
invariant (or property) in the configuration of the module's run, the definition is violated.

* `pplxtasks.h:2284`: if the scheduler throws when the internal continuation of an unwrapped task is posted, only
  that continuation's task is canceled, and the outer task is never signaled (`EventuallySignaled` with
  `SchedulerFails = TRUE`).
* `pplxtasks.h:2728`: `set()` overlapping `set_exception()` leaves tasks of one event with different
  outcomes (`TasksAgree` with `Mixed = TRUE`).
* `pplxtasks.h:2498`: the continuations of a task canceled asynchronously are posted to the ambient
  scheduler; if that throws, `cancel()` throws and they never run.
* `pplxtasks.h:2781`: in `when_all`, an antecedent that failed stores its exception and then cancels the event;
  if one that was canceled does so in between, the assertion that the first's `_CancelInternal` answers true fails.
* `http_client_asio.cpp:1217`: `read_headers` reports an unsupported encoding and goes on; the request is finished
  twice, `m_scheduled` is off from then on, and a queued request can be stranded (`QueueServed`).
* `http_client_asio.cpp:849`: a timeout while connecting is reported as "Request canceled by user".
* `http_client_asio.cpp:1153`: a request sent again starts its body where the first attempt left it;
  `1584`: the timer reads `m_connection` without a lock; `1446`: a piece of compressed body that
  decompresses to nothing is decompressed again.
* `producerconsumerstream.h:171`: `commit(0)` leaves an empty block, on which `acquire` answers true
  with no characters; `319`: `nextc` waits for one character and needs two; `astreambuf.h:701`: closing the
  reading side leaves its outstanding reads to the writer's close.
* `fileio_posix.cpp:268`: a failed write calls `on_error`, which deletes the callback, and then
  `on_completed` on it (`PwriteFails`; the model stops there).
* `fileio_posix.cpp:255`: a file opened at its end without `O_APPEND`: two writes find the same end, and one
  overwrites the other (`WritesAlwaysKept`).
* `fileio_posix.cpp`, `_close_read`: when the read head is closed last it frees the record without a flush, although
  writes may be outstanding (`RecordAlwaysOutlives`).
* `filestream.h:609`: a short synchronous read sets `m_atend` at the end of the read-ahead buffer and no seek
  undoes it; later reads report the end of the file early.
* `http_server_asio.cpp`, `connection`: a malformed request, and a listener that unregisters between the two
  lookups of `dispatch_request_to_listener` (585), leave a reference that nobody gives back, and the connection is
  never deleted (`UnusedIsDeleted`).
* `http_server_asio.cpp:930`: registering a second listener with a path that is taken destroys the host and the
  first listener with it, which stays "open" (`OpenAlwaysServed`); it is destroyed with the server's lock held, so
  that a dispatch which wants the lock and a stop which waits for that dispatch's connection wait for each other.
* `http_server_asio.cpp`: `reply()` throws in a handler of asio if `stop()` has answered the request before, and
  nothing catches it (`crashed`); an accept that completes as `stop()` closes the connections is inserted after
  (`LateAccept`), or runs on a host that was destroyed (`OrphanAccept`); a handler that throws late answers
  whatever request its connection has reached (`HandlerThrows`); `pListener->uri()` is used after the lookup let go
  of the lock. `http_server_api.cpp:145`: an exception of a failed stop is kept only if there was one before.
* `http_server_asio.cpp:219`: `on_accept` with an error, be it that the peer gave up or that there are no
  descriptors left, begins no other `async_accept`; the listener stays "open" and takes no further connection
  (`OpenAlwaysAccepts`).
* `ws_client_wspp.cpp:589`: `close()` sets `CLOSING` and ignores the error of websocketpp's `close`, which refuses
  codes that may not be sent (`hybi13.hpp:606`), `abnormal_close` of `ws_client.h:56` among them: no handshake and
  no timer begins, a second `close()` does nothing, and `close()` and the destructor wait until the peer or the
  network ends the connection (`CloseAlwaysReturns`). Reasons of any length are safe: websocketpp cuts them
  to what fits (`connection_impl.hpp:311`).
* `ws_client_wspp.cpp:427`: the count is raised before the message is queued; a send that completes in between
  finds a count above one and an empty queue, and pops it (`QueueHasNext`; the model stops there). `450`: an early
  exit of `send_msg` leaves the count raised, and every later message stays queued (`SendsAnswered` without its
  premise).
* `pplxlinux.h:203`, `pplx.cpp:89`: an owner compared, and a scheduler read, without the lock.

## What is not modelled

* *Within the modelled components.* `Task`: task options, inlining depth, the check for unobserved exceptions,
  WinRT. `Combinators`: vectors of results, which antecedent `when_any` names, empty ranges. `HttpClient`: TLS,
  proxies, chunks and compression (a body is one operation), the handler pipeline, races on fields within a
  handler. `HttpServer`: TLS, formats, more than one address, the choice of a method's handler, reads and
  writes in pieces. `WebSocketClient`: TLS, the handshake's headers, ping and pong, a callback client used without
  the front. `FileReader` and `FileWriter`: calls to `size` and `set_buffer_size` while a read is outstanding,
  reads of a file opened for both (which are unbuffered), opening that fails, acquire/release (which always
  refuse). `ProducerConsumerBuffer`: the exception-checking wrappers of the base class. `WebSocketClient`: the
  peer's close frame is handled without websocketpp's lock and may overlap `close()`; either order starts a timer.
* *Steps that are joined.* `FinishRequestResponse` of the server is one step where the code erases the connection
  and signals under the lock, then closes and drops its reference; a response whose body stream never ends is a
  write that never ends. `CloseWrite` of the file clears its flag and tests `can_read` in one step, so that a close of the
  read head in between is left out. A peek of `ProducerConsumerBuffer` drops empty blocks at the front, which the
  code's `read(false)` leaves to the next read; no property can tell.
* *Components.* The thread pool is assumed to take what is posted; that its forty threads can all be waiting for
  tasks still in its queue is a hazard no property covers. Locks are the atomic steps of the models. Platform
  variants (Windows, WinRT, Apple) repeat the modelled components over other primitives. JSON, URI, messages,
  base64, dates and OAuth are sequential text processing; memory buffers and stream front ends are position
  arithmetic: what could go wrong in them a unit test reaches. Third-party code is not the library's.

The repository counts some 85 500 lines of implementation. Most of them are SafeInt, websocketpp, the Windows and WinRT
variants, the JSON and URI classes, headers of declarations and documentation, and the overloads that `pplxtasks.h`
repeats for every combination of result types; the map covers the part that decides what happens when, and is small
against the whole.

PROJECT.json lists every component with its status, and every hazard with the properties that cover it or
the reason why none does.

## Plan

The project keeps to a dozen runs that end within minutes.

1. Done: the modules above, and proofs of all their safety properties.
2. Proofs about what the premises exclude: `HttpClient` after an unsupported encoding (a request finished twice
   frees its connection once), and the listeners that share a path in `HttpServer`.
3. `TaskPool`: a bounded pool, with bodies that wait for queued tasks: what must hold of a program for the pool
   not to be exhausted.
4. A composition of `HttpClient` and `HttpServer` with a lossy network between them, abstracting the server to what
   `HttpServer` shows: one answer per request, or a closed connection.
5. Memory buffers and the pure algorithms (delimiter search, base64, percent-encoding, JSON escapes) as operators
   against reference definitions.
