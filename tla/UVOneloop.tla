------------------------------ MODULE UVOneloop ------------------------------
(***************************************************************************)
(* CUVOneloop (src/src/common/eventloop/CUVOneloop.cpp): one libuv loop,    *)
(* run by one worker thread, fed by any thread through a moodycamel queue  *)
(* and two uv_async_t handles, m_asyncWork and m_asyncExit.                *)
(*                                                                         *)
(* The queue keeps one FIFO per posting thread.  try_dequeue walks over    *)
(* these sub-queues one after the other and answers "empty" when each of   *)
(* them looked empty at the moment it was visited, so the worker's scan is *)
(* not atomic.  A uv_async_send made before the handle's last signal has   *)
(* been dispatched merges with it.  While the worker runs a task it is     *)
(* itself a caller of postTask.                                            *)
(***************************************************************************)
EXTENDS Sequences, FiniteSets

CONSTANTS
    Threads,      \* the threads that call postTask, other than the worker
    Worker,       \* the loop's own thread (m_workerThread)
    Tasks,        \* task objects, each posted at most once
    Poster,       \* Poster[t]: the thread whose code posts t
    Openers,      \* tasks that leave a foreign uv handle open on the loop
    Closers,      \* tasks that close it
    InOrder,      \* TRUE: signals are dispatched in the order they were
                  \* sent (an IOCP loop); FALSE: in any order (epoll, kqueue)
    Quiesced,     \* TRUE: no other thread is inside postTask when the
                  \* destructor starts
    MayFailInit   \* TRUE: uv_loop_init or uv_async_init may fail

Callers == Threads \cup {Worker}

ASSUME LoopAssumption ==
    /\ Worker \notin Threads
    /\ Poster \in [Tasks -> Callers]
    /\ Openers \subseteq Tasks
    /\ Closers \subseteq Tasks
    /\ {InOrder, Quiesced, MayFailInit} \subseteq BOOLEAN

VARIABLES
    status,            \* what has become of each task
    callPc,            \* callPc[c]: where thread c is inside postTask
    m_taskQueue,       \* m_taskQueue[c]: the sub-queue of thread c
    pending,           \* the async handles with an undispatched signal
    workAhead,         \* the pending "work" signal was sent before "exit"
    workerPc,          \* where the worker thread is
    scanned,           \* sub-queues the running try_dequeue has seen empty
    stopFlag,          \* uv_stop was called
    foreign,           \* another component's handle keeps the loop alive
    m_isStopping,
    m_loop,            \* TRUE when the pointer is not null
    m_loopInitialized,
    ctorPc,            \* the thread inside the constructor
    dtorPc             \* the thread inside the destructor

postVars  == <<status, callPc, m_taskQueue>>
loopVars  == <<pending, workAhead, workerPc, scanned, stopFlag, foreign>>
flagVars  == <<m_isStopping, m_loop, m_loopInitialized>>
lifeVars  == <<ctorPc, dtorPc>>
vars      == <<postVars, loopVars, flagVars, lifeVars>>

(***************************************************************************)
(* A task is "ignored" when postTask returns without queueing it and       *)
(* "dropped" when it leaves the queue without being called.                *)
(***************************************************************************)
TaskStatus == {"new", "posting", "queued", "running", "ran", "dropped", "ignored"}

TypeOK ==
    /\ status \in [Tasks -> TaskStatus]
    /\ callPc \in [Callers -> {"idle", "enqueue", "send"}]
    /\ m_taskQueue \in [Callers -> Seq(Tasks)]
    /\ pending \subseteq {"work", "exit"}
    /\ workerPc \in {"init", "poll", "work", "task", "exit", "closing", "returned"}
    /\ scanned \subseteq Callers
    /\ workAhead \in BOOLEAN /\ stopFlag \in BOOLEAN /\ foreign \in BOOLEAN
    /\ m_isStopping \in BOOLEAN /\ m_loop \in BOOLEAN /\ m_loopInitialized \in BOOLEAN
    /\ ctorPc \in {"wait", "done"}
    /\ dtorPc \in {"none", "send", "join", "done"}

Init ==
    /\ status = [t \in Tasks |-> "new"]
    /\ callPc = [c \in Callers |-> "idle"]
    /\ m_taskQueue = [c \in Callers |-> <<>>]
    /\ pending = {}
    /\ workAhead = FALSE
    /\ workerPc = "init"
    /\ scanned = {}
    /\ stopFlag = FALSE
    /\ foreign = FALSE
    /\ m_isStopping = FALSE
    /\ m_loop = FALSE
    /\ m_loopInitialized = FALSE
    /\ ctorPc = "wait"
    /\ dtorPc = "none"

-----------------------------------------------------------------------------
(***************************************************************************)
(* Constructor and destructor, on the threads that own the singleton.      *)
(***************************************************************************)

\* The constructor sleeps until m_loopInitialized holds.
CtorReturn ==
    /\ ctorPc = "wait"
    /\ m_loopInitialized
    /\ ctorPc' = "done"
    /\ UNCHANGED <<postVars, loopVars, flagVars, dtorPc>>

\* Mutant: the stop flag is forgotten.
DtorBegin_NoFlag ==
    /\ ctorPc = "done"
    /\ dtorPc = "none"
    /\ Quiesced => \A c \in Threads : callPc[c] = "idle"
    /\ dtorPc' = "send"
    /\ UNCHANGED <<postVars, loopVars, flagVars, ctorPc>>

DtorBegin ==
    /\ ctorPc = "done"
    /\ dtorPc = "none"
    /\ Quiesced => \A c \in Threads : callPc[c] = "idle"
    /\ m_isStopping' = TRUE
    /\ dtorPc' = "send"
    /\ UNCHANGED <<postVars, loopVars, m_loop, m_loopInitialized, ctorPc>>

\* Mutant: the destructor calls uv_stop itself.
DtorSendExit_Stops ==
    /\ dtorPc = "send"
    /\ dtorPc' = "join"
    /\ stopFlag' = TRUE
    /\ UNCHANGED <<postVars, pending, workAhead, workerPc, scanned, foreign, flagVars, ctorPc>>

\* uv_async_send(&m_asyncExit), if there is a loop to send it to.
DtorSendExit ==
    /\ dtorPc = "send"
    /\ dtorPc' = "join"
    /\ pending' = pending \cup {s \in {"exit"} : m_loop}
    /\ workAhead' = (m_loop /\ "work" \in pending)
    /\ UNCHANGED <<postVars, workerPc, scanned, stopFlag, foreign, flagVars, ctorPc>>

\* Mutant: the worker is detached, not joined.
DtorReturn_Detaches ==
    /\ dtorPc = "join"
    /\ dtorPc' = "done"
    /\ status' = [t \in Tasks |->
                    IF status[t] = "queued" THEN "dropped" ELSE status[t]]
    /\ m_taskQueue' = [c \in Callers |-> <<>>]
    /\ UNCHANGED <<callPc, loopVars, flagVars, ctorPc>>

\* join returns; then the queue is destroyed with all it still holds.
DtorReturn ==
    /\ dtorPc = "join"
    /\ workerPc = "returned"
    /\ dtorPc' = "done"
    /\ status' = [t \in Tasks |->
                    IF status[t] = "queued" THEN "dropped" ELSE status[t]]
    /\ m_taskQueue' = [c \in Callers |-> <<>>]
    /\ UNCHANGED <<callPc, loopVars, flagVars, ctorPc>>

-----------------------------------------------------------------------------
(***************************************************************************)
(* postTask: the test of the two flags, the enqueue and the wake-up are    *)
(* three steps, and other threads may act between them.                    *)
(***************************************************************************)
MayCall(c) ==
    /\ callPc[c] = "idle"
    /\ IF c = Worker THEN workerPc = "task" ELSE ctorPc = "done" /\ dtorPc # "done"

PostCheck(t) ==
    LET c == Poster[t]
        open == ~m_isStopping /\ m_loop
    IN  /\ MayCall(c)
        /\ status[t] = "new"
        /\ status' = [status EXCEPT ![t] = IF open THEN "posting" ELSE "ignored"]
        /\ callPc' = [callPc EXCEPT ![c] = IF open THEN "enqueue" ELSE "idle"]
        /\ UNCHANGED <<m_taskQueue, loopVars, flagVars, lifeVars>>

\* Mutant: the task is moved from before it is enqueued.
PostEnqueue_MovedFrom(t) ==
    LET c == Poster[t]
    IN  /\ callPc[c] = "enqueue"
        /\ status[t] = "posting"
        /\ m_taskQueue' = [m_taskQueue EXCEPT ![c] = Append(@, "empty")]
        /\ status' = [status EXCEPT ![t] = "queued"]
        /\ callPc' = [callPc EXCEPT ![c] = "send"]
        /\ UNCHANGED <<loopVars, flagVars, lifeVars>>

PostEnqueue(t) ==
    LET c == Poster[t]
    IN  /\ callPc[c] = "enqueue"
        /\ status[t] = "posting"
        /\ m_taskQueue' = [m_taskQueue EXCEPT ![c] = Append(@, t)]
        /\ status' = [status EXCEPT ![t] = "queued"]
        /\ callPc' = [callPc EXCEPT ![c] = "send"]
        /\ UNCHANGED <<loopVars, flagVars, lifeVars>>

\* Mutant: no signal while the worker is draining the queue anyway.
PostSend_SkipsWhenBusy(c) ==
    /\ callPc[c] = "send"
    /\ pending' = IF workerPc = "work" THEN pending ELSE pending \cup {"work"}
    /\ callPc' = [callPc EXCEPT ![c] = "idle"]
    /\ UNCHANGED <<status, m_taskQueue, workAhead, workerPc, scanned, stopFlag,
                   foreign, flagVars, lifeVars>>

PostSend(c) ==
    /\ callPc[c] = "send"
    /\ pending' = pending \cup {"work"}
    /\ callPc' = [callPc EXCEPT ![c] = "idle"]
    /\ UNCHANGED <<status, m_taskQueue, workAhead, workerPc, scanned, stopFlag,
                   foreign, flagVars, lifeVars>>

-----------------------------------------------------------------------------
(***************************************************************************)
(* The worker thread.                                                      *)
(***************************************************************************)
InitSucceeds ==
    /\ workerPc = "init"
    /\ m_loop' = TRUE
    /\ m_loopInitialized' = TRUE
    /\ workerPc' = "poll"
    /\ UNCHANGED <<postVars, pending, workAhead, scanned, stopFlag, foreign,
                   m_isStopping, lifeVars>>

\* Both failure paths leave the flags this way and notify the constructor.
InitFails ==
    /\ MayFailInit
    /\ workerPc = "init"
    /\ m_loop' = FALSE
    /\ m_isStopping' = TRUE
    /\ m_loopInitialized' = FALSE
    /\ workerPc' = "returned"
    /\ UNCHANGED <<postVars, pending, workAhead, scanned, stopFlag, foreign, lifeVars>>

\* libuv clears the signal and calls the m_asyncWork callback.
DispatchWork ==
    /\ workerPc = "poll"
    /\ "work" \in pending
    /\ InOrder /\ "exit" \in pending => workAhead
    /\ pending' = pending \ {"work"}
    /\ workAhead' = FALSE
    /\ workerPc' = "work"
    /\ scanned' = {}
    /\ UNCHANGED <<postVars, stopFlag, foreign, flagVars, lifeVars>>

\* The same for m_asyncExit.
DispatchExit ==
    /\ workerPc = "poll"
    /\ "exit" \in pending
    /\ InOrder => ~workAhead
    /\ pending' = pending \ {"exit"}
    /\ workerPc' = "exit"
    /\ scanned' = {}
    /\ UNCHANGED <<postVars, workAhead, stopFlag, foreign, flagVars, lifeVars>>

\* try_dequeue finds nothing in the sub-queue of c and goes on to the next.
ScanEmpty(c) ==
    /\ workerPc \in {"work", "exit"}
    /\ c \notin scanned
    /\ m_taskQueue[c] = <<>>
    /\ scanned' = scanned \cup {c}
    /\ UNCHANGED <<postVars, pending, workAhead, workerPc, stopFlag, foreign,
                   flagVars, lifeVars>>

\* try_dequeue takes the oldest task of c, which becomes s.
TryDequeue(c, s) ==
    /\ c \notin scanned
    /\ m_taskQueue[c] # <<>>
    /\ status' = [status EXCEPT ![Head(m_taskQueue[c])] = s]
    /\ m_taskQueue' = [m_taskQueue EXCEPT ![c] = Tail(@)]
    /\ scanned' = {}

CallTask(c) ==
    /\ workerPc = "work"
    /\ TryDequeue(c, "running")
    /\ workerPc' = "task"
    /\ UNCHANGED <<callPc, pending, workAhead, stopFlag, foreign, flagVars, lifeVars>>

\* Mutant: "if" for "while", one task per signal.
TaskReturns_OneTask(t) ==
    /\ workerPc = "task"
    /\ callPc[Worker] = "idle"
    /\ status[t] = "running"
    /\ status' = [status EXCEPT ![t] = "ran"]
    /\ foreign' = (t \in Openers \/ (foreign /\ t \notin Closers))
    /\ workerPc' = "poll"
    /\ UNCHANGED <<callPc, m_taskQueue, pending, workAhead, scanned, stopFlag,
                   flagVars, lifeVars>>

TaskReturns(t) ==
    /\ workerPc = "task"
    /\ callPc[Worker] = "idle"
    /\ status[t] = "running"
    /\ status' = [status EXCEPT ![t] = "ran"]
    /\ foreign' = (t \in Openers \/ (foreign /\ t \notin Closers))
    /\ workerPc' = "work"
    /\ UNCHANGED <<callPc, m_taskQueue, pending, workAhead, scanned, stopFlag,
                   flagVars, lifeVars>>

\* Every sub-queue looked empty: the m_asyncWork callback returns.
WorkDone ==
    /\ workerPc = "work"
    /\ scanned = Callers
    /\ scanned' = {}
    /\ workerPc' = "poll"
    /\ UNCHANGED <<postVars, pending, workAhead, stopFlag, foreign, flagVars, lifeVars>>

\* The m_asyncExit callback destroys a task without calling it.
DropTask(c) ==
    /\ workerPc = "exit"
    /\ TryDequeue(c, "dropped")
    /\ UNCHANGED <<callPc, pending, workAhead, workerPc, stopFlag, foreign,
                   flagVars, lifeVars>>

\* Mutant: uv_stop is missing.
ExitDone_NoStop ==
    /\ workerPc = "exit"
    /\ scanned = Callers
    /\ scanned' = {}
    /\ workerPc' = "poll"
    /\ UNCHANGED <<postVars, pending, workAhead, stopFlag, foreign, flagVars, lifeVars>>

\* ... and stops the loop once the queue looked empty.
ExitDone ==
    /\ workerPc = "exit"
    /\ scanned = Callers
    /\ scanned' = {}
    /\ stopFlag' = TRUE
    /\ workerPc' = "poll"
    /\ UNCHANGED <<postVars, pending, workAhead, foreign, flagVars, lifeVars>>

\* The iteration that called uv_stop is over: uv_run returns and both async
\* handles are closed.  Until then a signal that this iteration had already
\* collected is still dispatched.
RunReturns ==
    /\ workerPc = "poll"
    /\ stopFlag
    /\ stopFlag' = FALSE
    /\ workerPc' = "closing"
    /\ UNCHANGED <<postVars, pending, workAhead, scanned, foreign, flagVars, lifeVars>>

\* The loop is run again until no handle is alive, then closed and deleted.
LoopDeleted ==
    /\ workerPc = "closing"
    /\ ~foreign
    /\ m_loop' = FALSE
    /\ workerPc' = "returned"
    /\ UNCHANGED <<postVars, pending, workAhead, scanned, stopFlag, foreign,
                   m_isStopping, m_loopInitialized, lifeVars>>

-----------------------------------------------------------------------------
Post(t) == PostCheck(t) \/ PostEnqueue(t)

WorkerNext ==
    \/ InitSucceeds \/ InitFails
    \/ DispatchWork \/ DispatchExit
    \/ WorkDone \/ ExitDone
    \/ RunReturns \/ LoopDeleted
    \/ \E c \in Callers : ScanEmpty(c) \/ CallTask(c) \/ DropTask(c)
    \/ \E t \in Tasks : TaskReturns(t)

Next ==
    \/ CtorReturn \/ DtorBegin \/ DtorSendExit \/ DtorReturn
    \/ \E t \in Tasks : Post(t)
    \/ \E c \in Callers : PostSend(c)
    \/ WorkerNext

(***************************************************************************)
(* The operating system runs every thread that can run.  Nothing obliges a *)
(* thread to post a task or anyone to destroy the loop.                    *)
(***************************************************************************)
Fairness ==
    /\ WF_vars(WorkerNext)
    /\ WF_vars(CtorReturn)
    /\ WF_vars(DtorSendExit)
    /\ WF_vars(DtorReturn)
    /\ \A t \in Tasks : WF_vars(PostEnqueue(t))
    /\ \A c \in Callers : WF_vars(PostSend(c))

Spec == Init /\ [][Next]_vars
FairSpec == Spec /\ Fairness

-----------------------------------------------------------------------------
(***************************************************************************)
(* Properties.                                                             *)
(***************************************************************************)

\* A queued task of c will be noticed: a wake-up is on its way, or the
\* worker is inside the work callback and has yet to visit the sub-queue.
Noticed(c) ==
    \/ "work" \in pending
    \/ callPc[c] = "send"
    \/ workerPc \in {"work", "task"} /\ c \notin scanned

\* No wake-up is lost, although uv_async_send merges signals and try_dequeue
\* may answer "empty" while a task is being added behind its back
\* (CUVOneloop.cpp:97-102 against 168-171).
NoLostWakeup ==
    \A c \in Callers : m_taskQueue[c] # <<>> => Noticed(c)

HandlesOpen == workerPc \notin {"init", "closing", "returned"}

\* uv_async_send is never called on a handle that has been closed, nor on a
\* member of a destroyed object (CUVOneloop.cpp:43, 171 and 181 against
\* 132-143): the "safe stop" of the comment at CUVOneloop.cpp:41.
SendOnOpenHandle ==
    /\ \A c \in Callers : callPc[c] # "idle" => HandlesOpen
    /\ dtorPc = "send" => HandlesOpen

\* With signals delivered in the order sent, a task whose postTask returned
\* before the exit signal was sent is not thrown away by the exit callback
\* (CUVOneloop.cpp:82-86): the work callback gets to it first.
PostedBeforeExitRuns ==
    \A t \in Tasks :
        [](/\ dtorPc = "send"
           /\ status[t] = "queued"
           /\ callPc[Poster[t]] = "idle"
           => [](status[t] # "dropped"))

\* The constructor returns: the worker tells it how the initialisation went
\* (CUVOneloop.cpp:20-22, 68-73 and 112-117).
CtorReturns == <>(ctorPc = "done")

\* Unless the loop is being stopped, a queued task runs.
QueuedTaskRuns ==
    \A t \in Tasks : status[t] = "queued" ~> (status[t] = "ran" \/ m_isStopping)

\* The destructor returns, with the worker's cleanup done, unless a handle of
\* another component stays open on the loop (CUVOneloop.cpp:46-51, 135-138).
DtorReturnsOnceHandlesClose == dtorPc = "send" ~> (dtorPc = "done" \/ foreign)

\* With signals delivered in the order sent it is enough to have posted the
\* task that closes the handle before the destructor sends the exit signal,
\* as ~CUVTcpServer does by calling stop (CUVOneloop.cpp:42-51): the worker
\* does not wait for ever in the loop that follows uv_run.
CloseThenDestroyReturns ==
    /\ dtorPc = "send"
    /\ \A t \in Openers : status[t] = "ran"
    /\ \E t \in Closers : status[t] = "queued" /\ callPc[Poster[t]] = "idle"
    ~> dtorPc = "done"

(***************************************************************************)
(* The loop implements the abstract executor: a task is accepted when it   *)
(* is enqueued.                                                            *)
(***************************************************************************)
Executor == INSTANCE TaskExecutor WITH
    status  <- [t \in Tasks |-> IF status[t] = "posting" THEN "new" ELSE status[t]],
    backlog <- m_taskQueue,
    phase   <- CASE dtorPc = "none" -> "open"
                 [] dtorPc = "done" -> "closed"
                 [] OTHER           -> "stopping"

\* postTask, the worker and the destructor together keep the promise of
\* TaskExecutor: order per caller, one task at a time, each at most once, no
\* loss before the stop and no task after it.
ExecutorSpec == Executor!Spec
=============================================================================
