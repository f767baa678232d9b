----------------------------- MODULE UVMultiloop -----------------------------
(***************************************************************************)
(* CUVMultiloop (src/src/common/eventloop/CUVMultiloop.cpp): a fixed pool  *)
(* of libuv loops, each with a thread, a queue and two async handles of    *)
(* its own; postTask gives each task to the next loop in turn.             *)
(*                                                                         *)
(* One loop works as the loop of UVOneloop does, which studies the walk of *)
(* try_dequeue over the sub-queues of the posting threads; here a look at  *)
(* an empty queue is one step.  What is particular to the pool is modelled *)
(* in full: the constructor that waits for every worker on a condition     *)
(* variable, workers that cannot start, the round robin, tasks that post   *)
(* from one loop to another, and the destruction of the workers one by one.*)
(***************************************************************************)
EXTENDS Naturals, Sequences, FiniteSets, SequencesExt

CONSTANTS
    NumWorkers,   \* twice the number of cores in the code
    Threads,      \* threads of the application that call postTask
    Tasks,        \* task objects, each posted at most once
    Poster,       \* Poster[t]: the thread, or the task whose body, posts t
    MayFail,      \* workers whose loop or handles may fail to initialise
    NoWorker

Workers == 1..NumWorkers
Callers == Threads \cup Tasks

ASSUME PoolAssumption ==
    /\ NumWorkers \in Nat \ {0}
    /\ Poster \in [Tasks -> Callers]
    /\ MayFail \subseteq Workers
    /\ NoWorker \notin Workers

VARIABLES
    ownerPc,           \* the thread inside the constructor or destructor; it
                       \* holds m_mutex while it scans the flags
    index,             \* its position in m_loopWorkers
    m_isStopping,
    m_nextWorkerIndex, \* fetch_add's counter, modulo the number of workers
    workerPc,          \* workerPc[w]: where the thread of worker w is
    loop,              \* loop[w]: the pointer is not null
    stopping,          \* stopping[w]
    stopFlag,          \* uv_stop was called on w's loop
    pending,           \* pending[w]: async handles with an undispatched signal
    taskQueue,         \* taskQueue[w]
    postPc,            \* postPc[t]: how far the call that posts t is
    home,              \* home[t]: the worker selected for t
    status,            \* what has become of t
    overtaken          \* history: the tasks that a thread was posting when the
                       \* destructor started

ownerVars  == <<ownerPc, index, m_isStopping, stopping, overtaken>>
threadVars == <<workerPc, loop, stopFlag>>
queueVars  == <<taskQueue, status>>
postVars   == <<m_nextWorkerIndex, postPc, home>>
vars == <<ownerVars, threadVars, pending, queueVars, postVars>>

TypeOK ==
    /\ ownerPc \in {"create", "lock", "scan", "wait", "sleep", "running", "signal", "join",
                   "done"}
    /\ index \in 1..(NumWorkers + 1)
    /\ m_isStopping \in BOOLEAN
    /\ m_nextWorkerIndex \in 0..(NumWorkers - 1)
    /\ workerPc \in [Workers -> {"none", "init", "notify", "poll", "work", "exit",
                                 "closing", "returned"}]
    /\ {loop, stopping, stopFlag} \subseteq [Workers -> BOOLEAN]
    /\ pending \in [Workers -> SUBSET {"work", "exit"}]
    /\ taskQueue \in [Workers -> Seq(Tasks)]
    /\ postPc \in [Tasks -> {"new", "select", "enqueue", "send", "returned"}]
    /\ home \in [Tasks -> Workers \cup {NoWorker}]
    /\ status \in [Tasks -> {"none", "queued", "running", "ran", "dropped"}]
    /\ overtaken \subseteq Tasks

Init ==
    /\ ownerPc = "create" /\ index = 1 /\ m_isStopping = FALSE /\ m_nextWorkerIndex = 0
    /\ workerPc = [w \in Workers |-> "none"]
    /\ loop = [w \in Workers |-> FALSE]
    /\ stopping = loop /\ stopFlag = loop
    /\ pending = [w \in Workers |-> {}]
    /\ taskQueue = [w \in Workers |-> <<>>]
    /\ postPc = [t \in Tasks |-> "new"]
    /\ home = [t \in Tasks |-> NoWorker]
    /\ status = [t \in Tasks |-> "none"]
    /\ overtaken = {}

m_initialized  == ownerPc \in {"running", "signal", "join", "done"}
initialized(w) == workerPc[w] \notin {"none", "init"}
Deleted        == {w \in Workers : ownerPc = "done" \/ (ownerPc = "join" /\ w < index)}
Running(w)     == \E t \in Tasks : status[t] = "running" /\ home[t] = w
Inside(t)      == postPc[t] \in {"select", "enqueue", "send"}
Calling(c)     == \E t \in Tasks : Poster[t] = c /\ Inside(t)

-----------------------------------------------------------------------------
(***************************************************************************)
(* The constructor starts the threads, then waits on m_condition.  The     *)
(* predicate reads one worker's flag at a time with m_mutex held, but the  *)
(* workers set their flags without it.                                     *)
(***************************************************************************)
CreateWorker ==
    /\ ownerPc = "create"
    /\ workerPc' = [workerPc EXCEPT ![index] = "init"]
    /\ index' = index + 1
    /\ ownerPc' = IF index = NumWorkers THEN "lock" ELSE "create"
    /\ UNCHANGED <<m_isStopping, stopping, overtaken, loop, stopFlag, pending, queueVars, postVars>>

LockMutex ==
    /\ ownerPc = "lock"
    /\ ownerPc' = "scan"
    /\ index' = 1
    /\ UNCHANGED <<m_isStopping, stopping, overtaken, threadVars, pending, queueVars, postVars>>

ScanFlag ==
    /\ ownerPc = "scan"
    /\ ownerPc' = IF ~initialized(index) THEN "wait"
                  ELSE IF index = NumWorkers THEN "running" ELSE "scan"
    /\ index' = IF ownerPc' = "scan" THEN index + 1 ELSE index
    /\ UNCHANGED <<m_isStopping, stopping, overtaken, threadVars, pending, queueVars, postVars>>

\* wait() gives the mutex back and goes to sleep in one step.
Sleep ==
    /\ ownerPc = "wait"
    /\ ownerPc' = "sleep"
    /\ UNCHANGED <<index, m_isStopping, stopping, overtaken, threadVars, pending, queueVars, postVars>>

SpuriousWakeup ==
    /\ ownerPc = "sleep"
    /\ ownerPc' = "lock"
    /\ UNCHANGED <<index, m_isStopping, stopping, overtaken, threadVars, pending, queueVars, postVars>>

-----------------------------------------------------------------------------
(***************************************************************************)
(* postTask, called by the threads and by running tasks.                   *)
(***************************************************************************)
PostStep(t, from, to) ==
    /\ postPc[t] = from
    /\ postPc' = [postPc EXCEPT ![t] = to]
    /\ UNCHANGED <<ownerVars, threadVars>>

MayCall(c) ==
    /\ ~Calling(c)
    /\ IF c \in Tasks THEN status[c] = "running" ELSE ownerPc \in {"running", "signal", "join"}

PostCheck(t) ==
    /\ MayCall(Poster[t])
    /\ PostStep(t, "new", IF ~m_initialized \/ m_isStopping THEN "returned" ELSE "select")
    /\ UNCHANGED <<pending, queueVars, m_nextWorkerIndex, home>>

Selected == m_nextWorkerIndex + 1
\* Mutants: the counter is used without reducing it; the turn passes only
\* when the selected loop takes the task.
NextTurn_NoModulo == Selected
NextTurn_IfTaken  == IF loop[Selected] THEN Selected % NumWorkers ELSE m_nextWorkerIndex
NextTurn == Selected % NumWorkers

\* selectLoopWorker() and the test of what it selected: a worker without a
\* loop loses the task.  A deleted worker is read after its end, and the test
\* may come out either way.
PostSelect(t) ==
    /\ \E takes \in IF Selected \in Deleted THEN BOOLEAN
                    ELSE {loop[Selected] /\ ~stopping[Selected]} :
          PostStep(t, "select", IF takes THEN "enqueue" ELSE "returned")
    /\ home' = [home EXCEPT ![t] = Selected]
    /\ m_nextWorkerIndex' = NextTurn
    /\ UNCHANGED <<pending, queueVars>>

\* What goes into the queue of a deleted worker is lost.
PostEnqueue(t) ==
    /\ PostStep(t, "enqueue", "send")
    /\ IF home[t] \in Deleted
       THEN UNCHANGED queueVars
       ELSE /\ taskQueue' = [taskQueue EXCEPT ![home[t]] = Append(@, t)]
            /\ status' = [status EXCEPT ![t] = "queued"]
    /\ UNCHANGED <<pending, m_nextWorkerIndex, home>>

\* Mutant: only the first task in the queue needs a signal.
WorkSignal_FirstOnly(w) == {s \in {"work"} : Len(taskQueue[w]) = 1}
WorkSignal(w) == {"work"}

PostSend(t) ==
    /\ PostStep(t, "send", "returned")
    /\ pending' = [pending EXCEPT ![home[t]] = @ \cup WorkSignal(home[t])]
    /\ UNCHANGED <<queueVars, m_nextWorkerIndex, home>>

-----------------------------------------------------------------------------
(***************************************************************************)
(* The thread of worker w.                                                 *)
(***************************************************************************)
WorkerStep(w, from, to) ==
    /\ workerPc[w] \in from
    /\ workerPc' = [workerPc EXCEPT ![w] = to]
    /\ UNCHANGED <<m_isStopping, stopping, overtaken, index, postVars>>

\* Both ways out of the initialisation mark the worker as initialised.
InitWorker(w) ==
    /\ WorkerStep(w, {"init"}, "notify")
    /\ \E ok \in {TRUE} \cup {no \in {FALSE} : w \in MayFail} : loop' = [loop EXCEPT ![w] = ok]
    /\ UNCHANGED <<ownerPc, stopFlag, pending, queueVars>>

\* Mutant: notify_one is called without the mutex.
MutexFree_NotAsked == TRUE
MutexFree == ownerPc \notin {"scan", "wait"}

Notify(w) ==
    /\ MutexFree
    /\ WorkerStep(w, {"notify"}, IF loop[w] THEN "poll" ELSE "returned")
    /\ ownerPc' = IF ownerPc = "sleep" THEN "lock" ELSE ownerPc
    /\ UNCHANGED <<loop, stopFlag, pending, queueVars>>

\* libuv clears signal s and calls the handle's callback.
Dispatch(w, s) ==
    /\ s \in pending[w]
    /\ WorkerStep(w, {"poll"}, s)
    /\ pending' = [pending EXCEPT ![w] = @ \ {s}]
    /\ UNCHANGED <<ownerPc, loop, stopFlag, queueVars>>

\* try_dequeue: the oldest task of one of the posters; the work callback
\* calls it, the exit callback drops it.
TryDequeue(w) ==
    LET q == taskQueue[w]
    IN  /\ workerPc[w] \in {"work", "exit"}
        /\ ~Running(w)
        /\ \E i \in DOMAIN q :
             /\ \A j \in 1..(i - 1) : Poster[q[j]] # Poster[q[i]]
             /\ status' = [status EXCEPT ![q[i]] = IF workerPc[w] = "work" THEN "running"
                                                   ELSE "dropped"]
             /\ taskQueue' = [taskQueue EXCEPT ![w] = RemoveAt(q, i)]
        /\ UNCHANGED <<ownerVars, threadVars, pending, postVars>>

TaskReturns(t) ==
    /\ status[t] = "running"
    /\ ~Calling(t)
    /\ status' = [status EXCEPT ![t] = "ran"]
    /\ UNCHANGED <<ownerVars, threadVars, pending, taskQueue, postVars>>

\* Mutant: the exit callback drains the queue and forgets uv_stop.
CallsStop_Never(w) == FALSE
CallsStop(w) == workerPc[w] = "exit"

CallbackReturns(w) ==
    /\ ~Running(w)
    /\ taskQueue[w] = <<>>
    /\ WorkerStep(w, {"work", "exit"}, "poll")
    /\ stopFlag' = [stopFlag EXCEPT ![w] = @ \/ CallsStop(w)]
    /\ UNCHANGED <<ownerPc, loop, pending, queueVars>>

\* uv_run returns, and both handles are closed.
RunReturns(w) ==
    /\ stopFlag[w]
    /\ WorkerStep(w, {"poll"}, "closing")
    /\ UNCHANGED <<ownerPc, loop, stopFlag, pending, queueVars>>

LoopDeleted(w) ==
    /\ WorkerStep(w, {"closing"}, "returned")
    /\ loop' = [loop EXCEPT ![w] = FALSE]
    /\ UNCHANGED <<ownerPc, stopFlag, pending, queueVars>>

-----------------------------------------------------------------------------
(***************************************************************************)
(* The destructor signals every worker, then joins and deletes one after   *)
(* the other, while those behind may still run a task.                     *)
(***************************************************************************)
\* Mutant: the flag is not set.
DtorFlag_Forgotten == m_isStopping
DtorFlag == TRUE

DtorBegin ==
    /\ ownerPc = "running"
    /\ m_isStopping' = DtorFlag
    /\ overtaken' = {t \in Tasks : Poster[t] \in Threads /\ Inside(t)}
    /\ ownerPc' = "signal" /\ index' = 1
    /\ UNCHANGED <<stopping, threadVars, pending, queueVars, postVars>>

SignalWorker ==
    LET live == loop[index] /\ ~stopping[index]
        last == index = NumWorkers
    IN  /\ ownerPc = "signal"
        /\ stopping' = [stopping EXCEPT ![index] = @ \/ live]
        /\ pending' = [pending EXCEPT ![index] = @ \cup {s \in {"exit"} : live}]
        /\ ownerPc' = IF last THEN "join" ELSE "signal"
        /\ index' = IF last THEN 1 ELSE index + 1
        /\ UNCHANGED <<m_isStopping, overtaken, threadVars, queueVars, postVars>>

\* Mutant: the thread is not joined.
Joined_NotAsked(w) == TRUE
Joined(w) == workerPc[w] = "returned"

\* The queue goes with the worker.
DeleteWorker ==
    /\ ownerPc = "join"
    /\ Joined(index)
    /\ status' = [t \in Tasks |-> IF status[t] = "queued" /\ home[t] = index THEN "dropped"
                                  ELSE status[t]]
    /\ taskQueue' = [taskQueue EXCEPT ![index] = <<>>]
    /\ ownerPc' = IF index = NumWorkers THEN "done" ELSE "join"
    /\ index' = index + 1
    /\ UNCHANGED <<m_isStopping, stopping, overtaken, threadVars, pending, postVars>>

-----------------------------------------------------------------------------
Owner == CreateWorker \/ LockMutex \/ ScanFlag \/ Sleep \/ SignalWorker \/ DeleteWorker

Post(t) == PostSelect(t) \/ PostEnqueue(t) \/ PostSend(t)

Worker(w) ==
    \/ InitWorker(w) \/ Notify(w) \/ RunReturns(w) \/ LoopDeleted(w)
    \/ \E s \in {"work", "exit"} : Dispatch(w, s)
    \/ TryDequeue(w) \/ CallbackReturns(w)

Next ==
    \/ Owner \/ SpuriousWakeup \/ DtorBegin
    \/ \E t \in Tasks : PostCheck(t) \/ Post(t) \/ TaskReturns(t)
    \/ \E w \in Workers : Worker(w)

\* What caller c does inside postTask, and what the thread of worker w does:
\* the loop's own steps and those of the task it runs.
Call(c) == \E t \in Tasks : Poster[t] = c /\ Post(t)
Thread(w) == Worker(w) \/ \E t \in Tasks : home[t] = w /\ (TaskReturns(t) \/ Call(t))

\* Every thread goes on with what it has begun; nothing says when the pool
\* is destroyed or that a thread makes its next call.
Fairness ==
    /\ WF_vars(Owner)
    /\ \A c \in Threads : WF_vars(Call(c))
    /\ \A w \in Workers : WF_vars(Thread(w))

Spec == Init /\ [][Next]_vars /\ Fairness

-----------------------------------------------------------------------------
\* The workers that outlast the call that posts t: every worker, for a thread
\* that the destructor does not overtake; for a task, the worker it runs on
\* and those behind it.
Outlasting(t) ==
    {w \in Workers : IF Poster[t] \in Threads THEN t \notin overtaken
                     ELSE w >= home[Poster[t]]}

\* CUVMultiloop.cpp:77 deletes one worker while those behind it may still run
\* a task that calls postTask.  A thread that finds the pool in use never
\* selects, fills or signals a worker that is deleted or whose handles are
\* closed, and neither does a task on its own worker; what a task selects
\* behind its own worker is not deleted.
NoUseAfterClose ==
    \A t \in Tasks :
        /\ postPc[t] = "select" => Selected \notin Deleted \cap Outlasting(t)
        /\ postPc[t] \in {"enqueue", "send"} => home[t] \notin Deleted \cap Outlasting(t)
        /\ /\ postPc[t] = "send"
           /\ home[t] \in Outlasting(t)
           /\ Poster[t] \in Threads \/ home[t] = home[Poster[t]]
           => workerPc[home[t]] \notin {"closing", "returned"}

\* The round robin stays fair when calls overlap and when a worker has no
\* loop and loses what it is given (CUVMultiloop.cpp:200): no worker is
\* ever two tasks ahead of another.
Balanced ==
    \A v, w \in Workers :
        Cardinality({t \in Tasks : home[t] = v}) <= Cardinality({t \in Tasks : home[t] = w}) + 1

\* The constructor's wait (CUVMultiloop.cpp:45) ends, whatever workers fail
\* and wherever their notifications fall.
CtorReturns == <>m_initialized

\* The tasks in the queues of the workers are run, unless the pool is being
\* destroyed: no wake-up is lost between the loops (CUVMultiloop.cpp:217).
\* Each task is posted at most once, so that the pool comes to rest.
QueuedTasksRun ==
    (\E t \in Tasks : status[t] = "queued")
        ~> (m_isStopping \/ \A t \in Tasks : status[t] \in {"none", "ran"})

\* The destructor (CUVMultiloop.cpp:58) returns, with workers that never
\* had a loop and tasks that are still running among its troubles.
DtorReturns == ownerPc = "signal" ~> ownerPc = "done"

\* What worker w does with the tasks it was given is what a single executor
\* promises: order per poster, one at a time, each at most once, none
\* dropped before the pool stops or the loop failed, none after its end.
Executor(w) == INSTANCE TaskExecutor WITH
    status  <- [t \in Tasks |->
                  IF postPc[t] = "returned" /\ home[t] = NoWorker THEN "ignored"
                  ELSE IF home[t] # w \/ postPc[t] = "enqueue" THEN "new"
                  ELSE IF status[t] = "none" THEN "ignored" ELSE status[t]],
    backlog <- [c \in Callers |-> SelectSeq(taskQueue[w], LAMBDA t : Poster[t] = c)],
    phase   <- IF w \in Deleted THEN "closed"
               ELSE IF m_isStopping \/ (initialized(w) /\ ~loop[w]) THEN "stopping"
               ELSE "open"

\* The pool (CUVMultiloop.cpp:18 to 234) implements one TaskExecutor per worker.
WorkersExecute ==
    /\ \A w \in Workers : Executor(w)!Init
    /\ [][\A w \in Workers : UNCHANGED Executor(w)!vars \/ Executor(w)!Next]_vars
=============================================================================
