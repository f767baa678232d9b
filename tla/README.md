# A TLA+ development of project_structure

The repository is the skeleton of an access-control server in C++17: event
loops built on libuv, TCP and MQTT classes on top of them, a configuration
store, and an application runner that starts packaged tasks on TBB workers.
Paths below are relative to the repository root; `loop` is short for
`src/src/common/eventloop`, `tcp` for `src/src/common/network/impl/tcp`.

1. [Inventory](#1-inventory)
2. [Modules](#2-modules)
3. [Event loop](#3-the-event-loop-uvoneloop-and-taskexecutor)
4. [TCP client](#4-the-tcp-client-looptasks-and-tcpclient)
5. [TCP server](#5-the-tcp-server-tcpserver)
6. [Pool of event loops](#6-the-pool-of-event-loops-uvmultiloop)
7. [MQTT client and event dispatcher](#7-mqttclient-eventdispatcher-and-businessdata)
8. [Configuration and process](#8-configstore-and-application)
9. [Runs, bounds, fairness](#9-runs-bounds-and-fairness)
10. [Proofs](#10-proofs)
11. [What the code does against its own words](#11-disagreements-found)
12. [Not modelled](#12-what-is-not-modelled)
13. [Plan](#13-plan)

To check a run, in this directory:

    tlc -workers 2 -config oneloop_safety.cfg MCUVOneloop.tla
    tlapm UVOneloop_proofs.tla
    tlapm UVMultiloop_proofs.tla
    tlapm LoopTasks_proofs.tla
    tlapm TcpClient_proofs.tla
    tlapm TcpServer_proofs.tla
    tlapm BusinessData_proofs.tla
    tlapm EventDispatcher_proofs.tla
    tlapm Application_proofs.tla

PROJECT.json lists every run, the lines each definition translates, the
mutants of the code that violate each property, the hazards and the theorems.

## 1. Inventory

| component | state | operations | hard part |
|---|---|---|---|
| **single event loop** `loop/CUVOneloop.cpp` | `m_taskQueue` (moodycamel), two `uv_async_t`, `m_loop`, `m_loopInitialized`, `m_isStopping`, the worker thread | constructor, `postTask`, destructor, worker thread, two async callbacks | lock-free queue against merging signals; shutdown against posting; initialisation that fails |
| **event loop pool** `loop/CUVMultiloop.cpp` | a vector of workers, each with the above; `m_nextWorkerIndex` | constructor, `postTask` (round robin), destructor | start of N threads through one condition variable; workers deleted one after the other; no order between tasks |
| **TCP client** `tcp/CUVTcpClient.cpp` | `m_state`, `m_tcpHandle`, two timers, reconnect interval and its limits, receive timeout | `connect`, `disconnect`, `send`, `setReceiveTimeout`, `setReconnectInterval`, destructor; closures; `onConnect`, `onDisconnect`, `onReceive`, `onSend`, timer callbacks | closures posted in one state and run in another; handles that are closed asynchronously; back-off and retry |
| **TCP server** `tcp/CUVTcpServer.cpp` | `m_state`, `m_serverHandle`, `m_clients` (address → handle), a timer and a `ClientContext` per client | `listen`, `stop`, `send`, `setReceiveTimeoutInterval`; closures; `onNewConnection`, `onClientRead`, `onSend`, `onReceiveTimeout`, `onClientDisconnect` | life of contexts, handles and timers; `stop` on another thread against the loop |
| **MQTT client** `src/src/common/network/impl/mqttClient` | `m_connected`, `m_client`, the callback members | `init`, `connect`, `disconnect`, `subscribe`, `unsubscribe`, `publish`, destructor; Paho callbacks | Paho's thread against the application's; waits whose answer is ignored; a flag that outlives its connection |
| **configuration store** `src/src/common/config`, `src/src/server/business/config` | one JSON document and a mutex; the files | load a file or a directory (merge), read and write a key path, save | order of the files; saves that are cut short; paths below leaves |
| **application runner** `src/src/server/common/util/CAppRunUtil.h`, `main.cpp` | the termination flag, the task group | `addTask`, `packageAppTask`, `waitForTermination`, signal handler | every task keeps a TBB thread; the handler is registered late |
| **business data** `CBusinessDataUtil.h`, `CTimeUtil.h` in `src/src/server/common/util` | none | header of a message: time, identifier, check code | arithmetic modulo 10^9 cut to 8 digits; a clock that goes on |
| **event dispatcher** `src/src/server/core/event/impl/CEventDispatcher.cpp` | static network objects | `init` adds tasks that bring up a server or a client and wire callbacks | callbacks on Paho's thread that call back into the client. Unfinished: `init` holds an incomplete statement (line 224) and the file does not compile |

How they interact. The TCP classes do no work on the calling thread: every
operation is a closure given to `CUVOneloop::postTask` and runs on the loop
thread, where libuv's callbacks run as well and post further closures. The
exceptions are what makes the classes hard: `CUVTcpClient::disconnect`,
`setReceiveTimeout` and `setReconnectInterval` and `CUVTcpServer::stop` touch
members directly on the calling thread, `connect` and `listen` only post. In
the server the calls come from TBB workers (`CEventDispatcher` stops its TCP
server from a packaged task) and from callbacks on the loop thread.

What makes each component correct, in one line each:

- loop: every accepted task runs once, in the order of its poster, unless the
  loop is stopped first; the wake-up is never lost; no handle or member is used
  after the shutdown; constructor and destructor return.
- pool: the same for each worker, a constructor that returns, a destruction
  that no running task can meet half way.
- client: each handle is closed once and none leaks; as long as a connection
  is wanted it is tried again, with the back-off in its limits; after
  `disconnect` it is not; a connection is watched if a timeout is set.
- server: no callback meets a deleted context or handle; the table and the live
  connections agree; state and listening handle agree; a port is released.
- MQTT: the flag tells the connection's state; a success that is reported is one.
- store: what a path sets is read back and nothing else changes; every file's
  settings are in force whatever the order; a save that is cut short is noticed.
- runner: every task starts, a signal ends the process.
- check code: equal to exact arithmetic, for the time that the message carries.

## 2. Modules

| module | models | state of the model |
|---|---|---|
| `TaskExecutor` | the promise of an event loop to its callers | one FIFO per caller, each task's status, a phase |
| `UVOneloop` | `CUVOneloop`, thread by thread | queue, signals, worker's program counter, flags, callers inside `postTask` |
| `UVOneloop_proofs` | theorems about `UVOneloop`: type, wake-up, shutdown, the tasks it spares, and that it implements `TaskExecutor` | |
| `LoopTasks` | `TaskExecutor`'s promise with the closures' bodies filled in; shared by the TCP modules | `backlog`, `draining` |
| `LoopTasks_proofs` | lemmas about the queues that both TCP modules' proofs rest on | |
| `TcpClient` | `CUVTcpClient` on top of `LoopTasks` | the members, the life of each libuv handle and timer |
| `TcpClient_proofs` | theorems about `TcpClient`: type, back-off, life of the handles, watchdog | |
| `TcpServer` | `CUVTcpServer` on top of `LoopTasks` | the members, the life of listeners, connections, timers, contexts |
| `TcpServer_proofs` | theorems about `TcpServer`: type, contexts, watchdogs, table, listening handle | |
| `UVMultiloop` | `CUVMultiloop`, thread by thread; one `TaskExecutor` per worker | the constructor's scan, each worker's queue, signals and program counter, the counter of the round robin, callers inside `postTask` |
| `UVMultiloop_proofs` | theorems about `UVMultiloop`: type, round robin, destruction | |
| `MqttClient` | `CPahoMqttClient` and the Paho client, network and broker it meets | flag, generation of the client, the connection, due callbacks, requests under way, calls of two threads |
| `BusinessData` | the header of a message | none (operators) |
| `EventDispatcher` | what `CEventDispatcher.cpp` makes of the two modules above | clock, the message being drafted, the application's phase |
| `BusinessData_proofs` | lemma: the check code is what exact arithmetic gives, for any width and any time | |
| `EventDispatcher_proofs` | theorems about the MQTT client: type, flag, check codes | |
| `ConfigStore` | `CConfigManager` and `CConfigLoader` | the document, the files, calls under way |
| `Application` | `main.cpp`, `CAppRunUtil.h` and the dispatcher's `init` on top of `ConfigStore` | where `main`, each task and the handler's registration are; the process's deaths and restarts |
| `Application_proofs` | theorems about the store and the process: type, settings, files, refused starts | |
| `MCUVOneloop`, `MCUVMultiloop`, `MCTcpClient`, `MCTcpServer`, `MCEventDispatcher`, `MCApplication` | instances for TLC | |

`UVOneloop` is shown to implement `TaskExecutor` (property `ExecutorSpec`,
model-checked and proved), and
`LoopTasks` gives the TCP modules exactly that promise: closures of one thread
run in the order posted, one at a time, closures of different threads in any
order. So the TCP modules need not repeat the queue and the signals.

`EventDispatcher` extends `MqttClient` and `BusinessData`, since the connect
callback is where they meet, and `Application` extends `ConfigStore`, since the
files decide which tasks run and the death of the process decides what is left
of the files.

Operators whose name ends in `_Something` after the name of another definition
(`TaskReturns_OneTask`, `NextTurn_NoModulo`) are the mutated forms of the code by which each
property is shown to be able to fail; no specification uses them.

## 3. The event loop: UVOneloop and TaskExecutor

Every thread's steps are interleaved at the granularity of its accesses to
shared memory.

| code | model |
|---|---|
| constructor, waits for `m_loopInitialized` (20-34) | `CtorReturn` |
| destructor: flag, exit signal, join, members destroyed (37-54) | `DtorBegin`, `DtorSendExit`, `DtorReturn` |
| `postTask`: test of the flags, `enqueue`, `uv_async_send` (166-183) | `PostCheck`, `PostEnqueue`, `PostSend` |
| worker: initialisation (57-126) | `InitSucceeds`, `InitFails` |
| `m_asyncWork` callback: `while (try_dequeue) task()` (92-103) | `DispatchWork`, `ScanEmpty`, `CallTask`, `TaskReturns`, `WorkDone` |
| `m_asyncExit` callback: drain, `uv_stop` (77-90) | `DispatchExit`, `ScanEmpty`, `DropTask`, `ExitDone` |
| `uv_run` returns, handles closed, second `uv_run`, delete (128-144) | `RunReturns`, `LoopDeleted` |

Three facts about the libraries are built in. `uv_async_send` sets a flag, so
sends merge until libuv clears it, which it does before it calls the callback
(`pending` is a set). moodycamel's queue is a FIFO per producer, and
`try_dequeue` visits the producers one after the other: the scan is a loop of
its own (`scanned`) in which other threads may add a task behind its back. The
order in which two signals are dispatched differs between the ports of libuv:
with I/O completion ports (the Windows build, which `Server.pro` describes) it
is the order in which they were sent (`InOrder = TRUE`), with epoll and kqueue
it is the order of the handle list (`InOrder = FALSE`).

Abstractions. A task is a model value posted by one thread (`Poster`), at most
once; tasks return. `postTask` reads its two flags in one step. Another
component's open handle is one flag, `foreign`, set by the tasks `Openers` and
cleared by `Closers`; a handle that ends by its own event is not modelled, which
is why the liveness of the destructor is stated "unless foreign". `Quiesced`
says that no other thread is inside `postTask` when the destructor starts. The
code does not enforce it, the program must: `CUVOneloop` is a static local
object, destroyed after `main`. With `Quiesced = FALSE`, TLC finds
`SendOnOpenHandle` violated in a few steps: a thread tests the flags, the
destructor signals, the worker closes the handle, and the thread sends on it.

Properties.

- `NoLostWakeup`: a non-empty sub-queue always has a signal pending, a sender
  about to signal, or a scan that has yet to visit it.
- `SendOnOpenHandle`: what the comment at `CUVOneloop.cpp:41` calls a safe stop.
- `ExecutorSpec`: refinement of `TaskExecutor`: order per caller, one task at a
  time, each at most once, no loss before the stop, none after it.
- `PostedBeforeExitRuns` (with `InOrder`): the exit callback throws the queue
  away, but never a task that was posted before the exit signal was sent. With
  `InOrder = FALSE` this does not hold; the two orders are the reason the
  constant exists.
- `QueuedTaskRuns`, `DtorReturnsOnceHandlesClose`, `CloseThenDestroyReturns`:
  liveness. The last is what the destructors of the TCP classes rely on: a
  closing task posted before the destruction of the loop is enough for the
  worker to come out of the second `uv_run`.

## 4. The TCP client: LoopTasks and TcpClient

Two threads call the client at the same time: the loop's, in callbacks, and one
other. A closure, a libuv callback and an API call are one action each; a call
in a callback (the normal place) is placed right after it. The exception is
`disconnect` from the other thread, the one call there that writes what the loop
writes: it is one action per access of lines 191-220, and everything the loop
does may come between two of them, calls included. `Api` names the pairs of
thread and function that a run allows. `draining` says that the loop is inside
its work callback, where no libuv event can come between two closures.

libuv is modelled by the life of its objects. A `uv_tcp_t` goes `free` → `open`
→ `connecting` → `connected` → `reading` → `ended`, and from anywhere, by
`uv_close`, to `closing` (first to `cancelled` if a connect request is
unanswered, which then is answered with `UV_ECANCELED`) and back to `free` when
the close callback deletes it. A timer goes `free` → `armed` ⇄ `stopped` →
`closing` → `free`. `uv_tcp_connect` on a handle that is in use fails at once,
as in libuv. `uv_tcp_init` and `uv_timer_init` cannot fail in libuv, so those
error paths are not actions here. New objects are taken from a finite pool; the runs
keep the pools large enough for the calls allowed.

| code | model |
|---|---|
| `connect` closure (103-176) | `ConnectRefused`, `ConnectBadAddress`, `ConnectStarts`, `ConnectFailsAtOnce` |
| `disconnect` (181-221) on the loop thread | `AppDisconnect`, `Disconnect`, `ForgetPointers` |
| `disconnect` on another thread | `DisconnectLoad`, `DisconnectStore`, `DisconnectCopy…`, `DisconnectClear…`, `DisconnectPost` |
| its closure | `RunClose` |
| `send` (244-330) | `AppSend`, `RunSend`, `RunSendOverflow`: only the 1 MiB limit of the write queue matters |
| timers (349-511) | `AppSetReceiveTimeout`, `AppSetReconnectInterval`, `RunStartReconnect`, `RunStartTimeout`, `RunStopTimeout`, `ReconnectFires`, `TimeoutFires` |
| `onConnect` (530-570) | `ConnectSucceeds`, `ConnectFails`, `ConnectCancelled`, `BackOff` |
| `onReceive`, `onDisconnect` | `DataArrives`, `ConnectionEnds`, `HandleClosed`, `TimerClosed` |
| destructor (49-90) | `AppDestroy`, which needs `Quiet` |

The destructor is an action only when nothing refers to the client any more
(`Quiet`): no closure, no unanswered request, no handle on its way to be closed.
The class leaves that to its user. Destroyed earlier, closures and callbacks that
hold `this` use freed memory; the model stops short of that and shows that a
destruction in peace closes each handle once.

Properties. `ClosedOnce`, `NoHandleLost` and `Watched` hold on any threads, with
two exemptions that the model computes from what happened and that are as narrow
as the code allows:

- `torn` is the set of objects that a `disconnect` on the other thread copied
  from a member (201, for instance) which the loop thread changed before the
  reset (202). The loop's own `disconnect`, made by the watchdog or the reader,
  may have copied the same object, and then both close it; or the loop may have
  made a new object, which the reset then forgets. Both happen in the code; the
  properties say that they happen to no other object.
- `crossed` says that the two threads have undone each other's work on the
  watchdog: `setReceiveTimeout` was called on one while a closure that stops the
  timer was still queued by the other, with no start behind it, or a `disconnect`
  of the other thread cleared the watchdog of a later connection.

`BackoffInRange` has no exemption. `GetsConnection` says that `connect` works
again after `disconnect`: a client that is `DISCONNECTED`, whose last
`disconnect` has returned and has torn nothing, and with no connect request still unanswered,
ends with a connection that it reads from. The hypothesis on requests is needed:
finding 3 of section 11 is a connection that completes after `disconnect` and
leaves the client `CONNECTED` without a handle, from where no `connect` gets it
out. `ConnectsAgain` says the same of the losses that are not asked for (end of
stream, overflow, watchdog). In their run `disconnect` is called on the loop
thread only: on the other one it may forget the reconnect timer that was about
to try again, and the retries end.

`setReceiveTimeout(0)` while a closure that starts the watchdog is queued makes
that closure arm the timer with 0 (442), and the watchdog disconnects at once.
The model has this behaviour (an armed timer may fire at any time), and no
property excludes it.

## 5. The TCP server: TcpServer

The same granularity: closures and callbacks are actions, except that the
closure of `listen` calls the start callback before it stores `RUNNING`
(169-173), so it is two actions with `starting` between them, during which the
application may call into the server. `stop` on the loop thread is `Stop`; on
another thread it is `StopLoad`, `StopStore`, `StopCopyHandle`,
`StopClearHandle`, `StopCopyClients`, `StopClearClients`, `StopPost`,
`StopEnd`. Copying and clearing `m_clients` are each taken to be atomic: the
map is not protected by a lock, and what a torn map does has no useful model.

`m_clients` maps addresses to handles; `ctx[c]` is the `ClientContext`. `Addrs`
are the answers of `getAddress`, `{"", 0}` for a peer that is gone already among
them (20-21, 353-363), and any two handles may have the same one: of two that
fail, or of a broken connection and the peer's next one. `uv_close` on a handle that is
closing or deleted is left without effect, as a release build of libuv does
while the handle is closing. A connection object is reused only when no closure
names it (`Named`).

`listen` may fail in two ways: without a handle, when `uv_tcp_init` fails
(`ListenHasNoHandle`, 119-128), which leaves `STARTING`, so that the server
refuses every later `listen` until it is stopped; or with one (`ListenFails`), which
keeps it for the next attempt. Accepting a client (317-432) has error paths that end in
`deleteClientHandle` before anything is stored; the model has the one for a
duplicate address, `DuplicateConnection`, with the same effect on the state.

Properties. `ContextAlive`, `NoDanglingEntry` and `Watched` have no exemption.
`NoClientLost`, `RunningListens` and `PortReleased` hold for `stop` on
either thread, which is how the repository calls it (`CEventDispatcher.cpp` 33
and 68 from a TBB worker). Two history variables name what the code does lose:

- `exposed` holds the listening handles that `listen` made while `stop` on
  the other thread was between copying and clearing the pointer (191-192), the
  clients accepted while it was between copying and clearing the table
  (194-195), and the clients that came while another handle had their address
  (`onClientDisconnect` erases by address, 453, so the end of the other takes
  their entry away).
- `overrun` says that the store of `RUNNING` (173) found something else than
  the `STARTING` that `listen` had stored: a `stop` was made in the start
  callback or on the other thread meanwhile, and is overwritten. The server
  then says that it runs with a null handle.

## 6. The pool of event loops: UVMultiloop

| code (`loop/CUVMultiloop.cpp`) | model |
|---|---|
| constructor: threads, then the wait on `m_condition` (18-55) | `CreateWorker`, `LockMutex`, `ScanFlag`, `Sleep`, `SpuriousWakeup` |
| destructor (58-83) | `DtorBegin`, `SignalWorker`, `DeleteWorker` |
| worker (85-171) | `InitWorker`, `Notify`, `Dispatch`, `TryDequeue`, `TaskReturns`, `CallbackReturns`, `RunReturns`, `LoopDeleted` |
| `selectLoopWorker`, `postTask` (192-234) | `PostCheck`, `PostSelect`, `PostEnqueue`, `PostSend` |

The predicate of the constructor's wait reads one flag per step, with the mutex
held, while the workers store their flags without it and then notify with it:
`CtorReturns` is the question whether a notification can fall between the last
look and the sleep. A worker in `MayFail` may come up without a loop; like the
others it counts as initialized, and every task that the round robin gives to it
is lost. That is what the code does, and no property denies it.

A look at an empty queue is one step here; `UVOneloop` studies what happens when
it is not. Properties: `NoUseAfterClose`, `Balanced`, the three liveness
properties, and `WorkersExecute`, which says of each worker what `ExecutorSpec`
says of the single loop.

`NoUseAfterClose` assumes nothing of when the destructor is called. It says which
workers outlast a call of `postTask` (`Outlasting`): all of them, for a thread
that finds the pool in use; for a task, its own worker and those behind it,
since line 77 deletes them in order and joins each first. Outside the claim are
the two uses of deleted memory that the code does make possible: a task that
still runs on a worker may be inside `postTask` with an earlier one selected, which is
deleted meanwhile (the flag is tested at 207 and 223, before the selection and without a lock),
and so may a thread that was inside `postTask` when the destructor began
(`overtaken`). A program must keep the second kind away, and cannot keep the
first away without knowing what its tasks do.

## 7. MqttClient, EventDispatcher and BusinessData

Two threads call the client. `app` runs the task of `initializeMQTTClient`;
`paho` is the thread on which the library makes its callbacks, one at a time,
and on which it completes tokens: a token waited for inside a callback can only
time out. Each caller works through a sequence of calls (`todo`), and a call is
as many steps as it has accesses: the test of `m_client` and `m_connected`, the
request, the wait. The connect callback's calls are `Script`: subscribe to every
topic that is not empty, publish every message.

| code | model |
|---|---|
| `init`, destructor (67-113) | `DeleteStarts`, `WaitEnds`, `WaitThrows`, `Delete`, `Assign`, `InitFails` |
| `connect`, `disconnect` (115-175) | `Connect`, `ConnectThrows`, `Disconnect`, `DisconnectRefused`, `WaitEnds`, `WaitThrows` |
| `subscribe`, `unsubscribe`, `publish` (182-273) | `Check`, `RequestThrows`, `Request`, `Publish`, `WaitEnds`, `WaitThrows` |
| `connected`, `connection_lost` (8-26), `CEventDispatcher.cpp` 97-152 | `Callback`, `Connected`, `ConnectionLost` |
| `generateBusinessData` (129-155) | `Stamp`, `Draft`, `Send` |
| task and cleanup (`CEventDispatcher.cpp` 87-203) | `AppStarts`, `Cleanup`, `ProcessEnds` |

Of Paho the model has: sessions are clean, a connection that was up is tried
again by the library and a first attempt is not, `disconnect` and requests throw
unless connected, a `connect` may throw at any time and has no effect on a
connection that is up, a wait throws when its token was completed with an error
(so that `disconnect` skips the store at 165), a message may be refused whatever its
topic, deleting a client drops what it had under way. `message_arrived` and
`delivery_complete` run on Paho's thread too; they change no state and are left
out. Only the entries to subscribe to are checked for an empty topic (109), so
messages may have one.

Nothing in the class keeps a callback off a client that is being deleted: `init`
and the destructor delete the `async_client` whatever Paho's thread does, and
`m_client` dangles until it is assigned to. The model makes the callback go on
across `Delete` and `Assign`; what it asks of the freed client is undefined and
taken to throw, the outcome that leaves the rest of the program running. No
property claims that it does not happen.

`FlagSettles` is one-sided: a connection that is up is known to be up. It has one
exemption, `clobbered`: a `connect` that throws on a connection that is up
stores FALSE (147), and the flag stays so until the next callback. The other half,
that the flag is FALSE without a connection, is false of the code: a `connected()`
callback that runs after `disconnect()` stores TRUE for a closed connection, and
`init()` replaces a connected client without resetting the flag. Three more facts
that the model shows and no property denies: a subscription is reported as
successful though its wait timed out or the broker refused it (200-203; for
`Resubscribes` both count as asked for); a first connection that fails is
reported to nobody (144); a failure of `init` cannot be reported the first time,
because the callbacks are set after it.

`BusinessData` computes the check code digit by digit as the code does: xor
with the confusion bytes, a fold in base 256 modulo 10^9, padding or cutting,
and `stoi`. `CodeMatchesTime` compares it with modular powers, for every message
sent, while the clock ticks between the steps that make the message; that the two
agree for every time and width is also proved (`CodeIsExact`). In the run
the code has 5 digits (`CodeWidth`) and the fold is modulo 10^6, as TLC's
integers have 32 bits and the code's `long long` 64.

## 8. ConfigStore and Application

A document is a function from paths (sequences of keys) to `"object"`, `"null"`
or a leaf, closed under prefixes. `WithValue` is `findJsonByPathImpl` with
`createIfNotExists` and the assignment; `MergePatch` is `merge_patch`. Loading
and saving are split where the lock is taken and where the stream is opened
and flushed: `LoadParses`, `LoadMerges`; `SaveOpens` (which empties the file),
`SaveDumps`, `SaveThrows`, `SaveCloses`, `SaveNotFlushed`. Two streams on one
file may leave neither's text.

In `Application`, `main` loads the directory in any order, considers the tasks
in the order of `init()`, and waits for the group, lending its thread to it.
`initializeMainServer` is modelled as a task although line 217 comments its call
out: it is the second of the two tasks that the file defines, and with one
alone no task could wait for another. A task keeps its thread from its start to its end. The
signal handler is registered by the first task that waits for termination, one
signal at a time. The process may die at any step and is started again with
the files as they are.

`main` refuses to start when it cannot open a configuration (`unopened`,
`CConfigManager.cpp` 114-116, whatever the file contains) or cannot parse it
(`unparsed`). `ParsesUnlessCut` says what the second means: a save was cut short, in this or
an earlier process. The code does not prevent
the cause: `saveToFile` truncates before it writes, and answers true before the
stream is flushed. A call of the program's own that cannot open its file answers
false and changes nothing (`CallFails`). A directory that is missing makes
`directory_iterator` throw, which nothing catches: one of the deaths.
`EveryFileCounts` is about settings that one file alone
mentions; `saveToFile` writes the whole merged document to whatever file it is
given (the header's comments at `CConfigManager.h` 36 and 46 speak of the
configuration of that file), so that after a save two files usually mention the
same setting, and which one wins at the next start is up to the directory.

A run ends when `main` returns (`returned`). `SignalEnds` is about that: the
destructors of the static objects, which come after it and may wait for ever
(sections 3 and 6), and an init block that never returns are outside it.

Signals are as POSIX has them: the handler stays. On Windows `signal` resets it
when it is called, and a second Ctrl+C ends the process without cleanup.

## 9. Runs, bounds and fairness

| run | question | instance |
|---|---|---|
| `oneloop_safety` | are signals, queue and shutdown safe, whatever the order of signals? | 2 posting threads and the worker, 4 tasks (one thread posts two; one task is posted by a running task), init may fail |
| `oneloop_live` | do tasks run and does the destructor return? posts race with the destructor | the same, `InOrder`, a task that opens a handle and one that closes it |
| `oneloop_init_fails` | does the constructor return when the initialisation fails? **no** | |
| `client_safety` | handles, watchdog, back-off, with calls on two threads | `connect`, `disconnect` and `setReceiveTimeout` on both threads, `send` and the destructor on the other, `setReconnectInterval` on the loop's; 3 calls in any combination, a good and a bad address, 2 handles, 2 + 2 timers |
| `client_live` | does the client get its connection, and get it back? | `connect`, `send`, `setReceiveTimeout` on the other thread, `connect` and `disconnect` on the loop's; 4 calls in any combination, 3 handles, 3 + 2 timers |
| `client_reconnect_after_disconnect` | is `disconnect` final? **no** | `connect` and `disconnect` on the loop thread, 3 calls |
| `client_connected_without_handle` | is a CONNECTED client's handle there? **no** | the same |
| `server` | contexts, table, state and port, with calls on two threads | 3 calls in any combination, 2 client objects, 2 listeners, 2 addresses that any peer may have |
| `server_stop_lost` | is `stop` final? **no** | the same |
| `multiloop` | does the pool start, balance, execute and end? | 2 workers, the first of which may have no loop, 2 posting threads, 4 tasks (one thread posts two, one is posted by a running task) |
| `mqtt` | do flag, subscriptions and check codes survive reconnections and replaced clients? | 2 topics and an empty entry, 1 message, 2 clients, 2 connections that come up, 2 calls of the application besides cleanup and end, 2 instants |
| `application` | do the settings, the tasks and the signals survive deaths and half-written files? | 2 configuration files that share an object and one file that is none, 2 users, 3 settings (one below a leaf, one that cannot be dumped, one that deletes), 2 calls, 2 tasks on 2 threads, 2 starts |

Why the bounds are enough. The loop's hazards need two producers (so that a
scan passes one while the other adds), a second task of one producer (order),
and a post from inside a task (the worker as producer): that is the instance. A
client's or server's hazard is a clash of two operations with events of the
loop, of which the number is not bounded: `MaxCalls` bounds calls only, while
connections, failures, time-outs and data may come any number of times. Three
calls cover connect–disconnect–connect and listen–stop–listen with every event
between them; `client_live` has a fourth, so that a timeout may be set or the
queue overflow on the connection that the third has asked for. Histories that need more calls
are not covered by the runs; all safety properties of client and server are
proved for any number (section 10), except `PortReleased`, which is a liveness property. The pools (`Handles`, `Conns`, `Listeners`, timers)
bound how many objects exist at a time (two handles are a connection and the one
that closes meanwhile); `MaxBacklog` bounds how many closures
may wait when a new loop event comes, since two threads could otherwise fill
the queue for ever. `IntMax` stands for the largest `int`, and the intervals
(`DefaultInitial`, `DefaultMax`, `Settings`) are scaled down to 1-3, which keeps
the doubling at line 540 within the type; the overflow that a huge interval
would cause is listed as a hazard. `client_live` gives the interval one value
only: how long a timer waits makes no difference to whether it fires.

The other three runs. `multiloop`: a pool needs two workers for a task to post from one
to the other and for the destructor to be between two; with one of them unable
to start, both kinds of partner occur. `mqtt`: `MaxUps` allows one
reconnection and `MaxClients` one replacement, which is what the flag and the
session must survive; drops, refusals and time-outs are not bounded.
`application`: two saves of the same file, a save with a load or a setting in
between, and a restart after either; a third process would find nothing that the
second cannot.

Deadlock is not checked: each of these systems may stop for good, the loop
after its destruction and the TCP classes when nobody calls or connects.

Fairness, and why the code has it. *Loop*: the operating system runs every
thread that can run; nobody is obliged to post or to destroy. *Client*: queued
closures are run (this is `QueuedTaskRuns`), and each turn of `uv_run` looks at
due timers, answered requests and closing handles, so none waits for ever even
though closures may come again and again (strong fairness). The operating
system answers every connect request. `NetworkFairness`, used by `client_live`,
adds what the environment must give: attempts are accepted and succeed now and
then. The addresses of that run parse; a bad one is never tried again, by
design of the code. *Server*: closures and close callbacks as above; a thread
inside `stop` goes on; peers do as they like. *Pool*: each thread goes on
with what it has begun: the owner, each caller inside `postTask`, each worker
with its loop and its task.
*MQTT*: the two threads go on and the broker answers what it is asked; nothing
is assumed of the network or of what the application wants. *Process*: `main` and the
tasks go on, and a task that waits for a free thread gets one when there is
one; nothing is assumed of signals, users or deaths.

## 10. Proofs

Five theorems are about `UVOneloop`, for any set of threads and tasks and any
assignment of posters to tasks, either order of dispatch, with or without
initialisation failures (assumption `LoopAssumption`). `ShutdownIsSafe` and
`LoopImplementsExecutor` also assume `Quiesced`, and `EarlierTasksAreSpared`
assumes `InOrder` but not `Quiesced`.

- `TypeCorrect`: `Spec => []TypeOK`. `TypeOK` is inductive; one step per action.
- `WakeupNeverLost`: `Spec => []NoLostWakeup`. The invariant is inductive
  relative to `TypeOK`: the only step that makes a sub-queue non-empty leaves
  its caller at `send`; the only step that removes that caller from `send` sets
  the signal; the only step that clears the signal starts a scan with nothing
  scanned; a sub-queue enters `scanned` only when empty, and the callback ends
  only when all are in it.
- `ShutdownIsSafe`: `Quiesced` implies `Spec => []SendOnOpenHandle`. This one is
  not inductive: nothing in it says why `RunReturns`, which closes the handles,
  finds nobody inside `postTask`. The strengthening is `Shutdown`, of three
  parts: `Started` (the initialised flag, the loop pointer and the returned
  constructor agree with where the worker is), `NoEndBeforeExit` (no exit signal
  and no `uv_stop` before the destructor's second step; from its first step on
  `postTask` refuses) and `CallersInside` (who may be between the test of the
  flags and the signal: the worker only in a task, others only before the
  destructor begins). The last two give the invariant directly.
- `EarlierTasksAreSpared`: `InOrder` implies `Spec => PostedBeforeExitRuns`, which
  has a box inside a box. `Spared` is what holds of the task from the moment the
  inner box begins and is kept by every step: the task runs or has run, or it is
  queued and either the work callback has yet to come to its sub-queue, or the
  work signal is pending and, once the exit signal is too, ahead of it. So the
  exit callback, which throws the queue away, cannot come first. It rests on
  `ExitInv`: `NoLostWakeup` says that the signal or the scan exists,
  `QueuesOfPosters` that a task is queued exactly if it stands in the sub-queue
  of its caller, once, and `Started`, `NoEndBeforeExit` and `LoopOfWorker` that
  the loop is still there for both signals.
- `LoopImplementsExecutor`: `Quiesced` implies `Spec => ExecutorSpec`. Initial
  states map to initial states, and each action is simulated: `PostEnqueue` by
  `Accept`, `PostCheck` by `Ignore` or a stutter, `CallTask` by `Start`,
  `TaskReturns` by `Finish`, `DropTask` by `Discard`, `DtorBegin` by `Stop`,
  `DtorReturn` by `Close`, the rest by stutters. The abstract guards follow from
  `Shutdown` and a second invariant, `Aligned`: one task runs at a time, only
  inside the work callback (so that `Start` and `Close` find none running); the
  flags are open until the destructor begins (so that a task is ignored only
  when stopping); the destructor is done only after the worker has returned (so
  that nothing is taken or accepted when closed).

Three are about `UVMultiloop`, for any number of workers, any threads and tasks
(finitely many or not) and any set of workers that cannot start
(`PoolAssumption`):

- `TypeCorrect`: `Spec => []TypeOK`. `TypeOK` bounds the constructor's index by
  `NumWorkers + 1`, while the actions that use it as a worker need it to be one;
  the inductive invariant adds `IndexInside`, which says when it is.
- `RoundRobinIsFair`: `Spec => []Balanced`. `Balanced` compares two loops and
  says nothing of the counter, so it is not inductive. The strengthening
  `RoundRobin` says that for some `q` the loops up to the counter have been given
  `q + 1` tasks and those after it `q`: a selection moves the counter by one and
  adds one task to the loop it moves to, or, at the end of a turn, makes `q`
  one more.
- `DestructionIsSafe`: `Spec => []NoUseAfterClose`. Two strengthenings.
  `Destruction` is about threads: the stop flag agrees with the destructor's
  progress; a worker has no loop before its initialisation; before the
  destructor begins, nothing ends a loop; a thread inside `postTask` that is not
  overtaken meets a pool that is running, and the worker it holds has a loop.
  `Shelter` is about tasks: what is in a worker's queue was posted to that
  worker, a task runs inside the work callback of its home, a call that no thread
  makes is made by a task that runs, and a deleted worker's thread has returned.
  So a worker with a task that is inside `postTask` is not deleted, and neither is
  any behind it.

**TCP client** (`ClientAssumption`). `LoopTasks_proofs` says, once for client and
server, what posting and running closures does to the queues: which elements
they have afterwards, and when a set of closures still occurs at most once
(`AtMostOne`, `Joined`).

- `TypeCorrect`: `Spec => []TypeOK`, whatever threads call. `TypeInv` adds that
  what is queued is a closure of the client (`Queues(Task)`) and that no closure
  tries to connect before a `connect` closure has stored the address (`HostSet`).
- `BackoffStaysInRange`: `NoOverflow` implies `Spec => []BackoffInRange`.
  `NoOverflow` says that twice any accepted limit is an `int`. The code does not
  see to that (hazard at 540): `Doubled` wraps around as the Windows and the GCC
  build usually do, and the property is then false. The strengthening
  `Intervals` keeps the limits themselves positive and free of overflow.
- `HandlesAreClosedOnce`, `HandlesAreKept`: `Spec => []ClosedOnce` and
  `Spec => []NoHandleLost`, whatever threads call. They need each other, and
  both follow from `Ownership`, which says of every object that is not torn: it is
  alive exactly if the client points to it, or a `disconnect` on the other thread
  has taken it, or a queued closure is about to close it; never two of these,
  and no two closures close it.
- `ConnectionIsWatched`: `Spec => []Watched`, whatever threads call. A stop of the
  watchdog may be queued in front of the start that `Watched` counts on. The
  strengthening `StopsAnswered` says that while a timeout is set, and the threads
  have not crossed, every queued stop has a start behind it in the same queue; with
  `Ownership` the timer it arms is the client's.

**TCP server** (`ServerAssumption`). All six hold for any number of listeners,
connections, addresses and calls, with `stop` on either thread.

- `TypeCorrect`, `ContextsStayAlive`, `ConnectionsAreWatched`: from `Lives`, which
  says of each connection how the lives of its handle, watchdog, context and
  unanswered writes fit together. It is about one connection at a time, so each
  callback is compared with its own connection only.
- `TableNamesLiveHandles`: from `Entries`: what a queued closure of `stop()`
  deletes is not in the table any more, and neither is what a `stop()` under way
  on another thread has copied, once it is about to post. That is why the copy
  comes before the clearing and both before the post.
- `ClientsAreKept`: from `Kept`: where a `stop` under way holds copies and where it
  does not (`TakenInTurn`); when it is about to clear the table, it has copied
  every entry, or the entry is exposed (`CopiedInTime`); no other handle has the
  address of a client's entry, or the client is exposed (`OwnAddress`, which is what erasing
  by address needs); and `NotLost`, the property with a call's copies in the place
  of names.
- `RunningServerListens`: from `Listening`: the listening handle exists, no queued
  or coming closure closes it (`OwnListener`), and from `uv_listen` to the store of
  `RUNNING` it listens if nothing has changed the state.

**MQTT client and dispatcher** (`MqttAssumption`, `DispatcherAssumption`), for any
topics, subscriptions, publications, clients, connections and clock.

- `TypeCorrect`: `Spec => []TypeOK`. That the connect callback makes only requests
  for real topics is an induction over the subscriptions (`TopicsOfType`).
- `FlagIsRight`: `Spec => []FlagSettles`. The strengthening `LastWord` says that
  for a connection that is up the last event due is `connected`, or, if none is
  due, that the flag is set or clobbered. Two other steps clear the flag: a
  `connect` that throws, which is what `clobbered` records, and the end of
  `disconnect`; `AskedFor` says that the connection it has waited for is closing
  or closed.
- `CodesMatchTimes`: `Spec => []CodeMatchesTime`, for any width of the code and any
  instants. That the text and the code of a message belong to the same instant,
  whatever the clock does between the three steps, is `Drafted`. That the
  computed code is the exact one is lemma `CodeIsExact` of `BusinessData_proofs`:
  the fold, cut to its remainder at every byte, and the sum of powers leave the
  same remainder, by induction over the bytes; and padding or cutting the digits
  and reading them again is the remainder by a power of ten, by induction over
  the digits.

**Configuration store and process** (`StoreAssumption`, `ApplicationAssumption`).
`StoreAssumption` says among other things that the configuration that is
delivered with the program parses; a damaged delivery is refused by `main`, as
it should be, and no save explains it.

- `TypeCorrect`: `Spec => []TypeOK`: every document is a tree whose inner nodes are
  objects, after any merge (`MergedTree`) and any setting (`WithValueIs`).
- `SettingIsLocal`: `Spec => SetIsLocal`, an action property. `WalkFindsPath` is the
  induction over the keys of the path: after `n` keys the walk stands at the
  node that they name and has changed nothing but nodes on its way. `ReadBack`
  says that `ValueAt` then finds what was set.
- `UnparsedFilesWereCut`, `NoFileIsLost`: `Spec => []ParsesUnlessCut` and
  `Spec => []EveryFileCounts`, from `StartInv`: while `main` loads the directory
  no user has a call under way; a file that does not parse was cut, or its save
  is under way; every file merged so far counts, and the next one leaves in
  force what it does not mention (`MergeCounts`).

Induction over data. The library's induction theorems take an operator as a
parameter, which the installed provers cannot instantiate. Where an induction is
needed (`TopicsOf`, `KeysOf`, `Walk`, the digits and the fold of the check code: recursive functions, since the folds of the
community modules are beyond the provers for the same reason), it is made with
sets: lemma `NatSet` shows from the well-foundedness of `<` that a set that has
0, and `n + 1` with every `n`, includes `Nat`.

What the provers do not do. All liveness is only model-checked, since the
installed backends have no proof rule for fairness. Not proved either, though
not liveness: `WorkersExecute`, whose mapping filters a sequence with an operator
that the provers cannot instantiate. Every invariant that a passing run checks, and
`ExecutorSpec`, `PostedBeforeExitRuns` and `SetIsLocal`, is a theorem; the run
shows it on an instance, the theorem for all. Three theorems keep an assumption
that the code does not ensure: `ShutdownIsSafe` and `LoopImplementsExecutor`
(`Quiesced`, about the single loop only) and `BackoffStaysInRange` (`NoOverflow`);
`EarlierTasksAreSpared` assumes the dispatch order of the Windows build.

## 11. Disagreements found

1. `CUVOneloop.cpp:22`: the constructor waits for `m_loopInitialized`, which
   both failure paths leave false before they "tell the main thread that the
   initialisation failed" (68, 112). `getInstance()` hangs. Run
   `oneloop_init_fails`.
2. `CUVTcpClient.cpp:192`: `disconnect()` returns at once in `DISCONNECTED`,
   the state in which the client waits for its reconnect timer; the timer stays
   armed and posts another attempt. (A `connect` closure that was queued before
   is not counted.) The comment at 212: stop the timer, avoid connecting again. Run `client_reconnect_after_disconnect`.
3. `CUVTcpClient.cpp:545`: a connect that completes between `disconnect()` and
   its closure stores `CONNECTED` for a client with a null handle. Run
   `client_connected_without_handle`.
4. `CUVTcpServer.cpp:186`: `stop()` before the closure of `listen()` has run is
   lost and the server starts. Run `server_stop_lost`.

## 12. What is not modelled

- The destructor of the TCP server (`stop()` on a static object when the
  process ends, after which callbacks of its handles still point to it), the
  callback setters of the TCP classes, `broadcast` (empty body), `stopReconnectTimer` (never
  called), payloads and the life of write buffers. (`CUVTcpServer::send` gives
  `uv_write` a buffer that dies with the closure; every write that does not
  complete at once is affected.)
- Data races as such: plain pointers and the unlocked map are read and written
  atomically.
- Closures of the closed server: a client accepted after `stop` and before its
  closure stays in `m_clients` and is served; this is in the model, no property
  is about it.
- Paho's `message_arrived` and `delivery_complete` and the result callbacks of
  the MQTT client, which pass on what they are given to functions that print.
- `getJson` (nothing calls it), `registerEventCallback` (empty) and
  `triggerEvent` (posts a print); the random feedback code of a message.
- `CEventDispatcher_copy`, `main_copy.cpp` and
  `src/test/EventDispatcherTest.cpp` (commented out or superseded).
- The headers of access control, devices, monitoring, security and sessions,
  some 3000 lines: they declare classes whose member functions have no body
  anywhere in the repository, so there is no behaviour to translate.
- libuv, moodycamel, Paho, nlohmann/json and TBB, beyond the facts named above.

## 13. Plan

What is left to model is listed in section 12, and none of it has behaviour that
can be told from the code. What is left to prove: for `UVMultiloop`,
`WorkersExecute`, by simulation as for `UVOneloop`, after the filter of its
mapping is written as a recursive function.
