------------------------- MODULE UVMultiloop_proofs -------------------------
(***************************************************************************)
(* Theorems about UVMultiloop, for any number of workers, threads and      *)
(* tasks, and whatever workers fail to start: its type invariant, that the *)
(* round robin is fair, and that the destruction of the pool is safe.      *)
(***************************************************************************)
EXTENDS UVMultiloop, FiniteSetTheorems, TLAPS

\* The thread that posts a task is one of the callers.
LEMMA PosterIsCaller == \A t \in Tasks : Poster[t] \in Callers
BY PoolAssumption

\* What is left of a queue when a task is taken out of it holds the same
\* kind of tasks, and so does a queue when the kind is widened.
LEMMA RemovedTask ==
    ASSUME NEW S, NEW q \in Seq(S), NEW i \in DOMAIN q
    PROVE  SubSeq(q, 1, i - 1) \o SubSeq(q, i + 1, Len(q)) \in Seq(S)
<1>1. SubSeq(q, 1, i - 1) \in Seq(S) /\ SubSeq(q, i + 1, Len(q)) \in Seq(S)
    OBVIOUS
<1>2. QED BY <1>1

LEMMA WidenedQueue ==
    ASSUME NEW S, NEW T, S \subseteq T, NEW q \in Seq(S)
    PROVE  q \in Seq(T)
OBVIOUS

\* The turn passes to the next worker, and from the last to the first.
LEMMA Turns ==
    ASSUME m_nextWorkerIndex \in 0..(NumWorkers - 1)
    PROVE  /\ Selected \in Workers
           /\ NextTurn = IF Selected = NumWorkers THEN 0 ELSE Selected
BY PoolAssumption DEF Selected, NextTurn, Workers

(***************************************************************************)
(* Type correctness.  TypeOK is not inductive: a scan of the vector must   *)
(* be known to stop at its end.                                            *)
(***************************************************************************)
IndexInside == ownerPc \notin {"lock", "done"} => index \in Workers

TypeInv == TypeOK /\ IndexInside

\* The type invariant, one function or number per conjunct.
LEMMA Types ==
    ASSUME TypeOK
    PROVE  /\ index \in 1..(NumWorkers + 1) /\ NumWorkers \in Nat \ {0}
           /\ loop \in [Workers -> BOOLEAN] /\ stopping \in [Workers -> BOOLEAN]
           /\ stopFlag \in [Workers -> BOOLEAN]
           /\ m_nextWorkerIndex \in 0..(NumWorkers - 1)
BY PoolAssumption DEF TypeOK

LEMMA TypeInit == Init => TypeInv
<1> SUFFICES ASSUME Init PROVE TypeInv
    OBVIOUS
<1>1. /\ loop \in [Workers -> BOOLEAN] /\ stopping \in [Workers -> BOOLEAN]
      /\ stopFlag \in [Workers -> BOOLEAN]
    BY DEF Init
<1>2. /\ workerPc \in [Workers -> {"none", "init", "notify", "poll", "work", "exit",
                                   "closing", "returned"}]
      /\ pending \in [Workers -> SUBSET {"work", "exit"}]
      /\ taskQueue \in [Workers -> Seq(Tasks)]
    BY DEF Init
<1>3. /\ postPc \in [Tasks -> {"new", "select", "enqueue", "send", "returned"}]
      /\ home \in [Tasks -> Workers \cup {NoWorker}]
      /\ status \in [Tasks -> {"none", "queued", "running", "ran", "dropped"}]
    BY DEF Init
<1>4. index \in 1..(NumWorkers + 1) /\ index \in Workers /\ m_nextWorkerIndex \in 0..(NumWorkers - 1)
    BY PoolAssumption DEF Init, Workers
<1>5. QED BY <1>1, <1>2, <1>3, <1>4 DEF Init, TypeInv, TypeOK, IndexInside

LEMMA TypeStep == TypeInv /\ [Next]_vars => TypeInv'
<1> SUFFICES ASSUME TypeInv, [Next]_vars PROVE TypeInv'
    OBVIOUS
<1> USE DEF TypeInv, TypeOK, IndexInside, ownerVars, threadVars, queueVars, postVars
<1>a. /\ index \in 1..(NumWorkers + 1) /\ NumWorkers \in Nat \ {0}
      /\ loop \in [Workers -> BOOLEAN] /\ stopping \in [Workers -> BOOLEAN]
      /\ stopFlag \in [Workers -> BOOLEAN]
      /\ m_nextWorkerIndex \in 0..(NumWorkers - 1)
      /\ Workers = 1..NumWorkers
    BY Types DEF Workers
<1>1. CASE CreateWorker
    BY <1>1, <1>a DEF CreateWorker
<1>2. CASE LockMutex \/ Sleep \/ SpuriousWakeup
    BY <1>2, <1>a DEF LockMutex, Sleep, SpuriousWakeup
<1>3. CASE ScanFlag
    BY <1>3, <1>a DEF ScanFlag
<1>4. CASE DtorBegin
    BY <1>4, <1>a DEF DtorBegin, DtorFlag
<1>5. CASE SignalWorker
  <2>1. stopping' \in [Workers -> BOOLEAN]
    BY <1>5, <1>a DEF SignalWorker
  <2>2. pending' \in [Workers -> SUBSET {"work", "exit"}]
    BY <1>5 DEF SignalWorker
  <2>3. /\ ownerPc' \in {"signal", "join"}
        /\ index' \in Workers /\ index' \in 1..(NumWorkers + 1)
    BY <1>5, <1>a DEF SignalWorker
  <2>4. QED BY <1>5, <1>a, <2>1, <2>2, <2>3 DEF SignalWorker
<1>6. CASE DeleteWorker
    BY <1>6, <1>a DEF DeleteWorker
<1>7. ASSUME NEW t \in Tasks, PostCheck(t) PROVE TypeInv'
    BY <1>7 DEF PostCheck, PostStep
<1>8. ASSUME NEW t \in Tasks, PostSelect(t) PROVE TypeInv'
  <2>1. PICK to \in {"enqueue", "returned"} : PostStep(t, "select", to)
    BY <1>8 DEF PostSelect
  <2>2. m_nextWorkerIndex' \in 0..(NumWorkers - 1) /\ Selected \in Workers
    BY <1>8, <1>a, Turns DEF PostSelect
  <2>3. QED BY <1>8, <2>1, <2>2 DEF PostSelect, PostStep
<1>9. ASSUME NEW t \in Tasks, PostEnqueue(t) PROVE TypeInv'
  <2>1. taskQueue' \in [Workers -> Seq(Tasks)]
    <3>1. CASE home[t] \in Workers /\ home[t] \notin Deleted
      <4>1. Append(taskQueue[home[t]], t) \in Seq(Tasks)
        BY <3>1
      <4>2. QED BY <1>9, <3>1, <4>1 DEF PostEnqueue
    <3>2. CASE home[t] \in Deleted
      BY <1>9, <3>2 DEF PostEnqueue
    <3>3. CASE home[t] \notin Workers
      <4>1. home[t] \notin Deleted
        BY <3>3 DEF Deleted
      <4>2. QED BY <1>9, <3>3, <4>1 DEF PostEnqueue
    <3>4. QED BY <3>1, <3>2, <3>3
  <2>2. status' \in [Tasks -> {"none", "queued", "running", "ran", "dropped"}]
    BY <1>9 DEF PostEnqueue
  <2>3. QED BY <1>9, <2>1, <2>2 DEF PostEnqueue, PostStep
<1>10. ASSUME NEW t \in Tasks, PostSend(t) PROVE TypeInv'
    BY <1>10 DEF PostSend, PostStep, WorkSignal
<1>11. ASSUME NEW w \in Workers, InitWorker(w) PROVE TypeInv'
  <2>1. loop' \in [Workers -> BOOLEAN]
    BY <1>11, <1>a DEF InitWorker
  <2>2. QED BY <1>11, <1>a, <2>1 DEF InitWorker, WorkerStep
<1>12. ASSUME NEW w \in Workers, Notify(w) PROVE TypeInv'
    BY <1>12, <1>a DEF Notify, WorkerStep
<1>13. ASSUME NEW w \in Workers, NEW s \in {"work", "exit"}, Dispatch(w, s) PROVE TypeInv'
    BY <1>13, <1>a DEF Dispatch, WorkerStep
<1>14. ASSUME NEW w \in Workers, TryDequeue(w) PROVE TypeInv'
  <2>1. PICK i \in DOMAIN taskQueue[w] :
          /\ status' = [status EXCEPT ![taskQueue[w][i]] = IF workerPc[w] = "work" THEN "running"
                                                           ELSE "dropped"]
          /\ taskQueue' = [taskQueue EXCEPT ![w] = RemoveAt(taskQueue[w], i)]
    BY <1>14 DEF TryDequeue
  <2>2. RemoveAt(taskQueue[w], i) \in Seq(Tasks)
    BY RemovedTask DEF RemoveAt
  <2>3. QED BY <1>14, <1>a, <2>1, <2>2 DEF TryDequeue
<1>15. ASSUME NEW t \in Tasks, TaskReturns(t) PROVE TypeInv'
    BY <1>15, <1>a DEF TaskReturns
<1>16. ASSUME NEW w \in Workers, CallbackReturns(w) PROVE TypeInv'
    BY <1>16, <1>a DEF CallbackReturns, CallsStop, WorkerStep
<1>17. ASSUME NEW w \in Workers, RunReturns(w) PROVE TypeInv'
    BY <1>17, <1>a DEF RunReturns, WorkerStep
<1>18. ASSUME NEW w \in Workers, LoopDeleted(w) PROVE TypeInv'
  <2>1. loop' \in [Workers -> BOOLEAN]
    BY <1>18, <1>a DEF LoopDeleted
  <2>2. QED BY <1>18, <1>a, <2>1 DEF LoopDeleted, WorkerStep
<1>19. CASE UNCHANGED vars
    BY <1>19, <1>a DEF vars
<1>20. QED
    BY <1>1, <1>2, <1>3, <1>4, <1>5, <1>6, <1>7, <1>8, <1>9, <1>10, <1>11, <1>12, <1>13, <1>14,
       <1>15, <1>16, <1>17, <1>18, <1>19
       DEF Next, Owner, Post, Worker

\* Every variable of the pool keeps its type, whatever fails and whoever posts.
THEOREM TypeCorrect == Spec => []TypeOK
<1>1. TypeInv => TypeOK
    BY DEF TypeInv
<1>2. QED BY TypeInit, TypeStep, <1>1, PTL DEF Spec

(***************************************************************************)
(* The round robin.  The counter says how far the present turn has come:   *)
(* the workers before it have been given one task more than the others.    *)
(***************************************************************************)
Given(w) == {t \in Tasks : home[t] = w}

\* A call that has not selected a worker has none.
Unassigned == \A t \in Tasks : postPc[t] \in {"new", "select"} => home[t] = NoWorker

InTurn(q) ==
    \A w \in Workers :
        /\ IsFiniteSet(Given(w))
        /\ Cardinality(Given(w)) = IF w <= m_nextWorkerIndex THEN q + 1 ELSE q

RoundRobin == Unassigned /\ \E q \in Nat : InTurn(q)

LEMMA RoundRobinInit == Init => RoundRobin
<1> SUFFICES ASSUME Init PROVE RoundRobin
    OBVIOUS
<1>1. \A w \in Workers : Given(w) = {}
    BY PoolAssumption DEF Init, Given
<1>2. InTurn(0)
  <2> SUFFICES ASSUME NEW w \in Workers
               PROVE  IsFiniteSet(Given(w)) /\ Cardinality(Given(w)) = 0 /\ ~(w <= m_nextWorkerIndex)
      BY DEF InTurn
  <2>1. ~(w <= m_nextWorkerIndex)
      BY PoolAssumption DEF Init, Workers
  <2>2. QED BY <1>1, <2>1, FS_EmptySet
<1>3. QED BY <1>2 DEF Init, RoundRobin, Unassigned

\* Task t is given to the worker whose turn it is.
LEMMA SelectTakesTurn ==
    ASSUME TypeInv, RoundRobin, NEW t \in Tasks, PostSelect(t)
    PROVE  RoundRobin'
<1>1. /\ m_nextWorkerIndex \in 0..(NumWorkers - 1) /\ NumWorkers \in Nat \ {0}
      /\ Workers = 1..NumWorkers
    BY Types DEF TypeInv, Workers
<1>2. PICK k \in Workers : k = Selected
    BY <1>1, Turns
<1>3. /\ k = m_nextWorkerIndex + 1
      /\ m_nextWorkerIndex' = IF k = NumWorkers THEN 0 ELSE k
    BY <1>1, <1>2, Turns DEF PostSelect, Selected
<1>4. home[t] = NoWorker /\ home' = [home EXCEPT ![t] = k] /\ NoWorker \notin Workers
    BY <1>2, PoolAssumption DEF PostSelect, PostStep, RoundRobin, Unassigned
<1>5. Unassigned'
    BY <1>4 DEF PostSelect, PostStep, RoundRobin, Unassigned, TypeInv, TypeOK
<1>6. ASSUME NEW w \in Workers
      PROVE  Given(w)' = IF w = k THEN Given(w) \cup {t} ELSE Given(w)
    BY <1>4 DEF Given, TypeInv, TypeOK
<1>7. t \notin Given(k)
    BY <1>4 DEF Given
<1>8. PICK q \in Nat : InTurn(q)
    BY DEF RoundRobin
<1>9. ASSUME NEW w \in Workers
      PROVE  /\ IsFiniteSet(Given(w)')
             /\ Cardinality(Given(w)') = IF w <= k THEN q + 1 ELSE q
  <2>1. /\ IsFiniteSet(Given(w))
        /\ Cardinality(Given(w)) = IF w <= m_nextWorkerIndex THEN q + 1 ELSE q
    BY <1>8 DEF InTurn
  <2>2. CASE w = k
    <3>1. Cardinality(Given(w)) = q
      BY <2>1, <2>2, <1>1, <1>3
    <3>2. QED BY <2>1, <2>2, <3>1, <1>1, <1>6, <1>7, FS_AddElement
  <2>3. CASE w # k
    <3>1. w <= m_nextWorkerIndex <=> w <= k
      BY <2>3, <1>1, <1>3
    <3>2. QED BY <2>1, <2>3, <3>1, <1>6
  <2>4. QED BY <2>2, <2>3
<1>10. CASE k = NumWorkers
  <2>1. ASSUME NEW w \in Workers PROVE w <= k /\ ~(w <= m_nextWorkerIndex')
    BY <1>1, <1>3, <1>10
  <2>2. InTurn(q + 1)'
    BY <1>9, <2>1 DEF InTurn
  <2>3. QED BY <1>5, <2>2 DEF RoundRobin
<1>11. CASE k # NumWorkers
  <2>1. InTurn(q)'
    BY <1>3, <1>9, <1>11 DEF InTurn
  <2>2. QED BY <1>5, <2>1 DEF RoundRobin
<1>12. QED BY <1>10, <1>11

\* Every other step leaves the counter and the homes of the tasks alone.
LEMMA RoundRobinStep == TypeInv /\ RoundRobin /\ [Next]_vars => RoundRobin'
<1> SUFFICES ASSUME TypeInv, RoundRobin, [Next]_vars PROVE RoundRobin'
    OBVIOUS
<1>1. ASSUME NEW t \in Tasks, PostSelect(t) PROVE RoundRobin'
    BY <1>1, SelectTakesTurn
<1>2. ASSUME UNCHANGED <<home, m_nextWorkerIndex>>, Unassigned' PROVE RoundRobin'
    BY <1>2 DEF RoundRobin, InTurn, Given
<1>3. ASSUME UNCHANGED postVars PROVE RoundRobin'
    BY <1>2, <1>3 DEF RoundRobin, Unassigned, postVars
<1>4. ASSUME NEW t \in Tasks, PostCheck(t) PROVE RoundRobin'
    BY <1>2, <1>4 DEF PostCheck, PostStep, RoundRobin, Unassigned, TypeInv, TypeOK
<1>5. ASSUME NEW t \in Tasks, PostEnqueue(t) \/ PostSend(t) PROVE RoundRobin'
    BY <1>2, <1>5 DEF PostEnqueue, PostSend, PostStep, RoundRobin, Unassigned, TypeInv, TypeOK
<1>6. CASE CreateWorker \/ LockMutex \/ ScanFlag \/ Sleep \/ SpuriousWakeup
    BY <1>3, <1>6 DEF CreateWorker, LockMutex, ScanFlag, Sleep, SpuriousWakeup
<1>7. CASE DtorBegin \/ SignalWorker \/ DeleteWorker
    BY <1>3, <1>7 DEF DtorBegin, SignalWorker, DeleteWorker
<1>8. ASSUME NEW w \in Workers, Worker(w) PROVE RoundRobin'
    BY <1>3, <1>8 DEF Worker, InitWorker, Notify, RunReturns, LoopDeleted, Dispatch,
                      TryDequeue, CallbackReturns, WorkerStep
<1>9. ASSUME NEW t \in Tasks, TaskReturns(t) PROVE RoundRobin'
    BY <1>3, <1>9 DEF TaskReturns
<1>10. CASE UNCHANGED vars
    BY <1>3, <1>10 DEF vars
<1>11. QED
    BY <1>1, <1>4, <1>5, <1>6, <1>7, <1>8, <1>9, <1>10 DEF Next, Owner, Post

LEMMA RoundRobinBalances == RoundRobin => Balanced
<1> SUFFICES ASSUME RoundRobin, NEW v \in Workers, NEW w \in Workers
             PROVE  Cardinality(Given(v)) <= Cardinality(Given(w)) + 1
    BY DEF Balanced, Given
<1>1. PICK q \in Nat : InTurn(q)
    BY DEF RoundRobin
<1>2. /\ Cardinality(Given(v)) \in {q, q + 1}
      /\ Cardinality(Given(w)) \in {q, q + 1}
    BY <1>1 DEF InTurn
<1>3. QED BY <1>2

\* However many loops there are and however calls of postTask overlap, no loop
\* is ever two tasks ahead of another, though some lose what they are given.
THEOREM RoundRobinIsFair == Spec => []Balanced
<1>1. QED BY TypeInit, TypeStep, RoundRobinInit, RoundRobinStep, RoundRobinBalances, PTL DEF Spec

(***************************************************************************)
(* The destruction of the pool, first as the threads see it.  A call of    *)
(* postTask holds on to the worker it has selected; that worker is still   *)
(* there and its handles are open because nothing ends a loop before the   *)
(* destructor has begun, and from then on every call that a thread is in   *)
(* is one that the destructor has overtaken.                               *)
(***************************************************************************)
Destroying == ownerPc \in {"signal", "join", "done"}

\* postTask refuses tasks from the first step of the destructor on.
FlagAgrees == m_isStopping <=> Destroying

\* The constructor starts the workers in turn; one has no loop before its
\* initialisation.
StartsInTurn ==
    /\ ownerPc = "create" => \A w \in Workers : w >= index => workerPc[w] = "none"
    /\ \A w \in Workers : workerPc[w] \in {"none", "init"} => ~loop[w]

\* Before the destructor nothing ends a loop: a thread that has returned
\* never had one.
NothingEndsBefore ==
    ~Destroying => \A w \in Workers :
        /\ "exit" \notin pending[w] /\ ~stopFlag[w]
        /\ workerPc[w] \notin {"exit", "closing"}
        /\ workerPc[w] = "returned" => ~loop[w]

\* The call of a thread that is not overtaken meets a live pool, and the
\* worker it holds has a loop.
CallsInside ==
    \A t \in Tasks : Poster[t] \in Threads /\ t \notin overtaken =>
        /\ Inside(t) => ownerPc = "running"
        /\ postPc[t] \in {"enqueue", "send"} => home[t] \in Workers /\ loop[home[t]]

Destruction == FlagAgrees /\ StartsInTurn /\ NothingEndsBefore /\ CallsInside

LEMMA DestructionInit == Init => Destruction
<1> SUFFICES ASSUME Init PROVE Destruction
    OBVIOUS
<1>1. FlagAgrees /\ CallsInside
    BY DEF Init, FlagAgrees, Destroying, CallsInside, Inside
<1>2. \A w \in Workers : workerPc[w] = "none" /\ ~loop[w] /\ ~stopFlag[w] /\ pending[w] = {}
    BY DEF Init
<1>3. QED BY <1>1, <1>2 DEF Destruction, StartsInTurn, NothingEndsBefore

LEMMA DestructionStep ==
    ASSUME TypeInv, Destruction, [Next]_vars
    PROVE  Destruction'
<1> USE DEF TypeInv, TypeOK, IndexInside, Destruction, FlagAgrees, Destroying, StartsInTurn,
            NothingEndsBefore, CallsInside, Inside, ownerVars, threadVars, queueVars, postVars
<1>a. /\ index \in 1..(NumWorkers + 1) /\ NumWorkers \in Nat \ {0}
      /\ loop \in [Workers -> BOOLEAN] /\ stopping \in [Workers -> BOOLEAN]
      /\ stopFlag \in [Workers -> BOOLEAN]
      /\ m_nextWorkerIndex \in 0..(NumWorkers - 1)
      /\ Workers = 1..NumWorkers
    BY Types DEF Workers
<1>1. CASE CreateWorker
  <2>1. workerPc[index] = "none" /\ index \in Workers
    BY <1>1, <1>a DEF CreateWorker
  <2>2. StartsInTurn'
    BY <1>1, <1>a, <2>1 DEF CreateWorker
  <2>3. NothingEndsBefore'
    BY <1>1, <2>1 DEF CreateWorker
  <2>4. FlagAgrees' /\ CallsInside'
    BY <1>1 DEF CreateWorker
  <2>5. QED BY <2>2, <2>3, <2>4
<1>2. CASE LockMutex \/ Sleep \/ SpuriousWakeup
    BY <1>2 DEF LockMutex, Sleep, SpuriousWakeup
<1>3. CASE ScanFlag
    BY <1>3 DEF ScanFlag
<1>4. CASE DtorBegin
  <2>1. ASSUME NEW t \in Tasks, Poster[t] \in Threads, t \notin overtaken' PROVE ~Inside(t)
    BY <1>4, <2>1 DEF DtorBegin
  <2>2. CallsInside'
    BY <1>4, <2>1 DEF DtorBegin
  <2>3. QED BY <1>4, <2>2 DEF DtorBegin, DtorFlag
<1>5. CASE SignalWorker
    BY <1>5 DEF SignalWorker
<1>6. CASE DeleteWorker
    BY <1>6 DEF DeleteWorker
<1>7. ASSUME NEW t \in Tasks, PostCheck(t) PROVE Destruction'
    BY <1>7 DEF PostCheck, PostStep, m_initialized
<1>8. ASSUME NEW t \in Tasks, PostSelect(t) PROVE Destruction'
  <2>1. PICK takes \in IF Selected \in Deleted THEN BOOLEAN
                       ELSE {loop[Selected] /\ ~stopping[Selected]} :
          PostStep(t, "select", IF takes THEN "enqueue" ELSE "returned")
    BY <1>8 DEF PostSelect
  <2>2. ASSUME Poster[t] \in Threads, t \notin overtaken, takes PROVE loop[Selected]
    <3>1. Deleted = {}
      BY <2>1, <2>2 DEF Deleted, PostStep
    <3>2. QED BY <2>1, <2>2, <3>1
  <2>3. CallsInside'
    BY <1>8, <1>a, <2>1, <2>2, Turns DEF PostSelect, PostStep
  <2>4. FlagAgrees' /\ StartsInTurn' /\ NothingEndsBefore'
    BY <1>8, <2>1 DEF PostSelect, PostStep
  <2>5. QED BY <2>3, <2>4
<1>9. ASSUME NEW t \in Tasks, PostEnqueue(t) \/ PostSend(t) PROVE Destruction'
  <2>1. \A w \in Workers : "exit" \in pending'[w] => "exit" \in pending[w]
    <3>1. CASE PostEnqueue(t)
      BY <3>1 DEF PostEnqueue
    <3>2. CASE PostSend(t)
      BY <3>2 DEF PostSend, WorkSignal
    <3>3. QED BY <1>9, <3>1, <3>2
  <2>2. NothingEndsBefore'
    BY <1>9, <2>1 DEF PostEnqueue, PostSend, PostStep
  <2>3. FlagAgrees' /\ StartsInTurn' /\ CallsInside'
    BY <1>9 DEF PostEnqueue, PostSend, PostStep
  <2>4. QED BY <2>2, <2>3
<1>10. ASSUME NEW w \in Workers, InitWorker(w) PROVE Destruction'
    BY <1>10, <1>a DEF InitWorker, WorkerStep
<1>11. ASSUME NEW w \in Workers, Notify(w) PROVE Destruction'
    BY <1>11, <1>a DEF Notify, WorkerStep
<1>12. ASSUME NEW w \in Workers, NEW s \in {"work", "exit"}, Dispatch(w, s) PROVE Destruction'
    BY <1>12, <1>a DEF Dispatch, WorkerStep
<1>13. ASSUME NEW w \in Workers, TryDequeue(w) PROVE Destruction'
    BY <1>13 DEF TryDequeue
<1>14. ASSUME NEW t \in Tasks, TaskReturns(t) PROVE Destruction'
    BY <1>14 DEF TaskReturns
<1>15. ASSUME NEW w \in Workers, CallbackReturns(w) PROVE Destruction'
  <2>1. FlagAgrees' /\ StartsInTurn' /\ CallsInside'
    BY <1>15, <1>a DEF CallbackReturns, WorkerStep
  <2>2. ASSUME ~Destroying, NEW v \in Workers PROVE ~stopFlag'[v]
    <3>1. ~stopFlag[v] /\ ~stopFlag[w] /\ ~CallsStop(w)
      BY <2>2 DEF CallsStop
    <3>2. stopFlag' = [stopFlag EXCEPT ![w] = stopFlag[w] \/ CallsStop(w)]
      BY <1>15 DEF CallbackReturns
    <3>3. CASE v = w
      <4>1. stopFlag'[v] = (stopFlag[w] \/ CallsStop(w))
        BY <1>a, <3>2, <3>3, Zenon
      <4>2. QED BY <3>1, <3>3, <4>1, Zenon
    <3>4. CASE v # w
      BY <1>a, <2>2, <3>2, <3>4
    <3>5. QED BY <3>3, <3>4
  <2>3. NothingEndsBefore'
    BY <1>15, <1>a, <2>2 DEF CallbackReturns, WorkerStep
  <2>4. QED BY <2>1, <2>3
<1>16. ASSUME NEW w \in Workers, RunReturns(w) PROVE Destruction'
    BY <1>16, <1>a DEF RunReturns, WorkerStep
<1>17. ASSUME NEW w \in Workers, LoopDeleted(w) PROVE Destruction'
    BY <1>17, <1>a DEF LoopDeleted, WorkerStep
<1>18. CASE UNCHANGED vars
    BY <1>18 DEF vars
<1>19. QED
    BY <1>1, <1>2, <1>3, <1>4, <1>5, <1>6, <1>7, <1>8, <1>9, <1>10, <1>11, <1>12, <1>13, <1>14,
       <1>15, <1>16, <1>17, <1>18
       DEF Next, Owner, Post, Worker

(***************************************************************************)
(* As the tasks see it.  A task calls postTask while it runs, inside the   *)
(* work callback of the worker that is its home; the destructor joins that *)
(* worker's thread before it deletes the worker, and the workers behind it *)
(* come later still.                                                       *)
(***************************************************************************)
HandedOver(t) == postPc[t] \in {"send", "returned"}

\* What is in a queue was put there by a call for the worker it selected.
Settled(w) == {t \in Tasks : home[t] = w /\ HandedOver(t)}

QueuedAtHome == \A w \in Workers : taskQueue[w] \in Seq(Settled(w))

\* A task runs inside the work callback of its home.
RunsAtHome ==
    \A t \in Tasks : status[t] = "running" =>
        HandedOver(t) /\ home[t] \in Workers /\ workerPc[home[t]] = "work"

\* A call that no thread makes is made by a task that runs.
CallersRun ==
    \A t \in Tasks : Poster[t] \notin Threads /\ Inside(t) => status[Poster[t]] = "running"

\* A worker is deleted when its thread has returned.
DeletedReturned == \A w \in Deleted : workerPc[w] = "returned"

Shelter == QueuedAtHome /\ RunsAtHome /\ CallersRun /\ DeletedReturned

LEMMA ShelterInit == Init => Shelter
<1> SUFFICES ASSUME Init PROVE Shelter
    OBVIOUS
<1>1. QueuedAtHome
    BY DEF Init, QueuedAtHome
<1>2. \A t \in Tasks : status[t] = "none" /\ postPc[t] = "new"
    BY DEF Init
<1>3. Deleted = {}
    BY DEF Init, Deleted
<1>4. QED BY <1>1, <1>2, <1>3 DEF Shelter, RunsAtHome, CallersRun, DeletedReturned, Inside

\* A step that leaves the queues alone and takes no task back from its home.
LEMMA QueuesKept ==
    ASSUME TypeInv, QueuedAtHome, taskQueue' = taskQueue,
           \A u \in Tasks : HandedOver(u) => HandedOver(u)' /\ home'[u] = home[u]
    PROVE  QueuedAtHome'
<1>1. ASSUME NEW w \in Workers PROVE Settled(w) \subseteq Settled(w)'
    BY DEF Settled
<1>2. QED BY <1>1, WidenedQueue DEF QueuedAtHome

\* A step that starts no task and takes none back.
LEMMA TasksStay ==
    ASSUME RunsAtHome, status' = status, workerPc' = workerPc,
           \A u \in Tasks : HandedOver(u) => HandedOver(u)' /\ home'[u] = home[u]
    PROVE  RunsAtHome'
BY DEF RunsAtHome

\* The steps of a call change what the caller has posted, not who runs.
LEMMA ShelterPost ==
    ASSUME TypeInv, Shelter, NEW t \in Tasks, PostCheck(t) \/ Post(t)
    PROVE  Shelter'
<1> USE DEF TypeInv, TypeOK, Shelter, QueuedAtHome, RunsAtHome, CallersRun, DeletedReturned, HandedOver,
            Inside, ownerVars, threadVars, queueVars, postVars
<1>1. Deleted' = Deleted /\ DeletedReturned'
    BY DEF PostCheck, Post, PostSelect, PostEnqueue, PostSend, PostStep, Deleted
<1>2. CASE PostCheck(t)
  <2>1. Poster[t] \notin Threads => status[Poster[t]] = "running"
    BY <1>2, PosterIsCaller DEF PostCheck, MayCall, Callers
  <2>2. postPc[t] = "new" /\ postPc' \in [Tasks -> {"new", "select", "enqueue", "send", "returned"}]
        /\ \A u \in Tasks : u # t => postPc'[u] = postPc[u]
    BY <1>2 DEF PostCheck, PostStep
  <2>3. UNCHANGED <<status, taskQueue, home, workerPc>>
    BY <1>2 DEF PostCheck, PostStep
  <2>4. QueuedAtHome'
    BY <2>2, <2>3, QueuesKept
  <2>5. RunsAtHome'
    BY <2>2, <2>3, TasksStay
  <2>6. CallersRun'
    BY <2>1, <2>2, <2>3
  <2>7. QED BY <1>1, <2>4, <2>5, <2>6
<1>3. CASE PostSelect(t)
  <2>1. postPc[t] = "select" /\ \A u \in Tasks : u # t => postPc'[u] = postPc[u] /\ home'[u] = home[u]
    BY <1>3 DEF PostSelect, PostStep
  <2>2. UNCHANGED <<status, taskQueue, workerPc>>
    BY <1>3 DEF PostSelect, PostStep
  <2>3. QueuedAtHome'
    BY <2>1, <2>2, QueuesKept
  <2>4. RunsAtHome'
    BY <2>1, <2>2, TasksStay
  <2>5. CallersRun'
    BY <2>1, <2>2
  <2>6. QED BY <1>1, <2>3, <2>4, <2>5
<1>4. CASE PostEnqueue(t)
  <2>1. postPc[t] = "enqueue" /\ postPc'[t] = "send" /\ \A u \in Tasks : u # t => postPc'[u] = postPc[u]
    BY <1>4 DEF PostEnqueue, PostStep
  <2>2. UNCHANGED <<home, workerPc>>
    BY <1>4 DEF PostEnqueue, PostStep
  <2>3. status[t] # "running" /\ \A u \in Tasks : u # t => status'[u] = status[u]
    <3>1. status[t] # "running"
      BY <2>1
    <3>2. status' = status \/ status' = [status EXCEPT ![t] = "queued"]
      BY <1>4 DEF PostEnqueue
    <3>3. QED BY <3>1, <3>2
  <2>4. RunsAtHome' /\ CallersRun'
    <3>1. status'[t] # "running"
      BY <1>4, <2>3 DEF PostEnqueue
    <3>2. \A u \in Tasks : Poster[u] \notin Threads => Poster[u] \in Tasks
      BY PosterIsCaller DEF Callers
    <3>3. \A u \in Tasks : status'[u] = "running" <=> status[u] = "running"
      BY <2>3, <3>1
    <3>4. \A u \in Tasks : (HandedOver(u) => HandedOver(u)') /\ (Inside(u)' => Inside(u))
      BY <2>1
    <3>5. RunsAtHome'
      BY <2>2, <3>3, <3>4 DEF RunsAtHome
    <3>6. CallersRun'
      BY <3>2, <3>3, <3>4 DEF CallersRun
    <3>7. QED BY <3>5, <3>6
  <2>5. QueuedAtHome'
    <3> SUFFICES ASSUME NEW w \in Workers PROVE taskQueue'[w] \in Seq(Settled(w)')
        OBVIOUS
    <3>1. Settled(w) \subseteq Settled(w)' /\ (w = home[t] => t \in Settled(w)')
      BY <2>1, <2>2 DEF Settled
    <3>2. taskQueue[w] \in Seq(Settled(w)')
      BY <3>1, WidenedQueue
    <3>3. taskQueue'[w] = taskQueue[w] \/ (w = home[t] /\ taskQueue'[w] = Append(taskQueue[w], t))
      BY <1>4 DEF PostEnqueue
    <3>4. CASE w = home[t] /\ taskQueue'[w] = Append(taskQueue[w], t)
      <4>1. PICK S : S = Settled(w)'
        OBVIOUS
      <4>2. taskQueue[w] \in Seq(S) /\ t \in S
        BY <3>1, <3>2, <3>4, <4>1
      <4>3. Append(taskQueue[w], t) \in Seq(S)
        BY <4>2
      <4>4. QED BY <3>4, <4>1, <4>3
    <3>5. QED BY <3>2, <3>3, <3>4
  <2>6. QED BY <1>1, <2>4, <2>5
<1>5. CASE PostSend(t)
  <2>1. postPc[t] = "send" /\ postPc'[t] = "returned" /\ \A u \in Tasks : u # t => postPc'[u] = postPc[u]
    BY <1>5 DEF PostSend, PostStep
  <2>2. UNCHANGED <<status, taskQueue, home, workerPc>>
    BY <1>5 DEF PostSend, PostStep
  <2>3. QueuedAtHome'
    BY <2>1, <2>2, QueuesKept
  <2>4. RunsAtHome'
    BY <2>1, <2>2, TasksStay
  <2>5. CallersRun'
    BY <2>1, <2>2
  <2>6. QED BY <1>1, <2>3, <2>4, <2>5
<1>6. QED BY <1>2, <1>3, <1>4, <1>5 DEF Post

\* A worker runs one task at a time, and leaves its callback after the task.
LEMMA ShelterDequeue ==
    ASSUME TypeInv, Shelter, NEW w \in Workers, TryDequeue(w)
    PROVE  Shelter'
<1> USE DEF TypeInv, TypeOK, Shelter, HandedOver
<1>1. /\ UNCHANGED <<workerPc, home, postPc, ownerPc, index>>
      /\ workerPc[w] \in {"work", "exit"} /\ ~Running(w)
    BY DEF TryDequeue, ownerVars, threadVars, postVars
<1>2. PICK i \in DOMAIN taskQueue[w] :
        /\ status' = [status EXCEPT ![taskQueue[w][i]] = IF workerPc[w] = "work" THEN "running"
                                                         ELSE "dropped"]
        /\ taskQueue' = [taskQueue EXCEPT ![w] = RemoveAt(taskQueue[w], i)]
    BY DEF TryDequeue
<1>3. PICK u \in Tasks : u = taskQueue[w][i] /\ home[u] = w /\ HandedOver(u)
  <2>1. taskQueue[w] \in Seq(Settled(w))
    BY DEF QueuedAtHome
  <2>2. taskQueue[w][i] \in Settled(w)
    BY <1>2, <2>1
  <2>3. QED BY <2>2 DEF Settled
<1>4. status[u] # "running"
    BY <1>1, <1>3 DEF Running
<1>5. RunsAtHome'
    BY <1>1, <1>2, <1>3 DEF RunsAtHome
<1>6. CallersRun'
  <2>1. \A v \in Tasks : status[v] = "running" => status'[v] = "running"
    BY <1>2, <1>3, <1>4
  <2>2. QED BY <1>1, <2>1, PosterIsCaller DEF CallersRun, Inside, Callers
<1>7. QueuedAtHome'
  <2> SUFFICES ASSUME NEW v \in Workers PROVE taskQueue'[v] \in Seq(Settled(v))
      BY <1>1 DEF QueuedAtHome, Settled
  <2>1. CASE v # w
    BY <1>2, <2>1 DEF QueuedAtHome
  <2>2. CASE v = w
    <3>1. taskQueue'[v] = SubSeq(taskQueue[w], 1, i - 1)
                          \o SubSeq(taskQueue[w], i + 1, Len(taskQueue[w]))
      BY <1>2, <2>2 DEF RemoveAt
    <3>2. QED BY <2>2, <3>1, RemovedTask DEF QueuedAtHome
  <2>3. QED BY <2>1, <2>2
<1>8. DeletedReturned'
    BY <1>1 DEF DeletedReturned, Deleted
<1>9. QED BY <1>5, <1>6, <1>7, <1>8

LEMMA ShelterStep ==
    ASSUME TypeInv, Destruction, Shelter, [Next]_vars
    PROVE  Shelter'
<1> USE DEF TypeInv, TypeOK, Shelter
<1>a. ASSUME UNCHANGED <<taskQueue, home, postPc, status, workerPc>>, DeletedReturned'
      PROVE  Shelter'
    BY <1>a DEF QueuedAtHome, Settled, RunsAtHome, CallersRun, Inside, HandedOver
<1>b. ASSUME UNCHANGED <<taskQueue, home, postPc, status>>, DeletedReturned',
             \A w \in Workers : workerPc[w] = "work" /\ Running(w) => workerPc'[w] = "work"
      PROVE  Shelter'
    BY <1>b DEF QueuedAtHome, Settled, RunsAtHome, CallersRun, Inside, HandedOver, Running
<1>c. index \in 1..(NumWorkers + 1) /\ NumWorkers \in Nat \ {0} /\ Workers = 1..NumWorkers
    BY Types DEF Workers
<1>1. CASE CreateWorker
  <2>1. Deleted' = {} /\ workerPc' = [workerPc EXCEPT ![index] = "init"]
    BY <1>1 DEF CreateWorker, Deleted
  <2>2. ASSUME NEW w \in Workers, workerPc[w] = "work" PROVE workerPc'[w] = "work"
    BY <1>1, <1>c, <2>1, <2>2 DEF CreateWorker, Destruction, StartsInTurn, IndexInside
  <2>3. QED BY <1>1, <1>b, <2>1, <2>2 DEF CreateWorker, DeletedReturned, queueVars, postVars
<1>2. CASE LockMutex \/ Sleep \/ SpuriousWakeup \/ ScanFlag \/ DtorBegin
  <2>1. Deleted' = {}
    BY <1>2 DEF LockMutex, Sleep, SpuriousWakeup, ScanFlag, DtorBegin, Deleted
  <2>2. QED
    BY <1>2, <1>a, <2>1 DEF LockMutex, Sleep, SpuriousWakeup, ScanFlag, DtorBegin, DeletedReturned,
       threadVars, queueVars, postVars
<1>3. CASE SignalWorker
  <2>1. Deleted' = {}
    BY <1>3, <1>c DEF SignalWorker, Deleted
  <2>2. QED
    BY <1>3, <1>a, <2>1 DEF SignalWorker, DeletedReturned, threadVars, queueVars, postVars
<1>4. CASE DeleteWorker
  <2>1. /\ UNCHANGED <<home, postPc, workerPc>> /\ workerPc[index] = "returned"
        /\ taskQueue' = [taskQueue EXCEPT ![index] = <<>>]
        /\ \A t \in Tasks : status'[t] = "running" <=> status[t] = "running"
    BY <1>4 DEF DeleteWorker, Joined, threadVars, postVars
  <2>2. DeletedReturned'
    BY <1>4, <1>c, <2>1 DEF DeleteWorker, DeletedReturned, Deleted, IndexInside
  <2>3. RunsAtHome'
    BY <2>1 DEF RunsAtHome, HandedOver
  <2>4. CallersRun'
    BY <2>1, PosterIsCaller DEF CallersRun, Inside, Callers
  <2>5. QueuedAtHome'
    BY <2>1 DEF QueuedAtHome, Settled, HandedOver
  <2>6. QED BY <2>2, <2>3, <2>4, <2>5
<1>5. ASSUME NEW t \in Tasks, PostCheck(t) \/ Post(t) PROVE Shelter'
    BY <1>5, ShelterPost
<1>6. ASSUME NEW w \in Workers, NEW from, NEW to, WorkerStep(w, from, to), "returned" \notin from,
             ~Running(w) \/ "work" \notin from, UNCHANGED <<taskQueue, status>>,
             ownerPc' = ownerPc \/ ownerPc' = "lock"
      PROVE  Shelter'
  <2>1. DeletedReturned'
    BY <1>6 DEF WorkerStep, DeletedReturned, Deleted
  <2>2. QED BY <1>6, <1>b, <2>1 DEF WorkerStep, postVars
<1>7. ASSUME NEW w \in Workers, Worker(w) PROVE Shelter'
  <2>1. CASE TryDequeue(w)
    BY <2>1, ShelterDequeue
  <2>2. CASE InitWorker(w)
    BY <2>2, <1>6 DEF InitWorker, queueVars
  <2>3. CASE Notify(w)
    BY <2>3, <1>6 DEF Notify, queueVars
  <2>4. CASE RunReturns(w) \/ LoopDeleted(w)
    BY <2>4, <1>6 DEF RunReturns, LoopDeleted, queueVars
  <2>5. ASSUME NEW s \in {"work", "exit"}, Dispatch(w, s) PROVE Shelter'
    BY <2>5, <1>6 DEF Dispatch, queueVars
  <2>6. CASE CallbackReturns(w)
    BY <2>6, <1>6 DEF CallbackReturns, queueVars
  <2>7. QED BY <1>7, <2>1, <2>2, <2>3, <2>4, <2>5, <2>6 DEF Worker
<1>8. ASSUME NEW t \in Tasks, TaskReturns(t) PROVE Shelter'
  <2>1. /\ UNCHANGED <<taskQueue, home, postPc, workerPc, ownerPc, index>>
        /\ ~Calling(t) /\ status' = [status EXCEPT ![t] = "ran"]
    BY <1>8 DEF TaskReturns, ownerVars, threadVars, postVars
  <2>2. CallersRun'
    BY <2>1, PosterIsCaller DEF CallersRun, Inside, Calling, Callers
  <2>3. QED BY <2>1, <2>2 DEF QueuedAtHome, Settled, RunsAtHome, DeletedReturned, Deleted, HandedOver
<1>9. CASE UNCHANGED vars
    BY <1>9, <1>a DEF vars, DeletedReturned, Deleted, ownerVars, threadVars, queueVars, postVars
<1>10. QED
    BY <1>1, <1>2, <1>3, <1>4, <1>5, <1>7, <1>8, <1>9 DEF Next, Owner

LEMMA DestructionSafe ==
    ASSUME TypeInv, Destruction, Shelter
    PROVE  NoUseAfterClose
<1> SUFFICES ASSUME NEW t \in Tasks, Inside(t)
             PROVE  /\ Deleted \cap Outlasting(t) = {}
                    /\ /\ postPc[t] = "send"
                       /\ home[t] \in Outlasting(t)
                       /\ Poster[t] \in Threads \/ home[t] = home[Poster[t]]
                       => workerPc[home[t]] \notin {"closing", "returned"}
    BY DEF NoUseAfterClose, Inside
<1>1. CASE Poster[t] \in Threads
  <2>1. CASE t \in overtaken
    BY <1>1, <2>1 DEF Outlasting
  <2>2. CASE t \notin overtaken
    <3>1. ownerPc = "running" /\ ~Destroying
      BY <1>1, <2>2 DEF Destruction, CallsInside, Destroying
    <3>2. Deleted = {}
      BY <3>1 DEF Deleted
    <3>3. ASSUME postPc[t] = "send" PROVE workerPc[home[t]] \notin {"closing", "returned"}
      <4>1. home[t] \in Workers /\ loop[home[t]]
        BY <1>1, <2>2, <3>3 DEF Destruction, CallsInside
      <4>2. QED BY <3>1, <4>1 DEF Destruction, NothingEndsBefore
    <3>4. QED BY <3>2, <3>3
  <2>3. QED BY <2>1, <2>2
<1>2. CASE Poster[t] \notin Threads
  <2>1. PICK v \in Workers : v = home[Poster[t]] /\ workerPc[v] = "work"
    BY <1>2, PosterIsCaller DEF Shelter, CallersRun, RunsAtHome, Callers
  <2>2. v \notin Deleted
    BY <2>1 DEF Shelter, DeletedReturned
  <2>3. ASSUME NEW w \in Deleted PROVE ~(w >= v)
    BY <2>2, Types DEF Deleted, Workers, TypeInv
  <2>4. QED BY <1>2, <2>1, <2>3 DEF Outlasting
<1>3. QED BY <1>1, <1>2

\* However the destructor and the calls of postTask overlap, a thread that is
\* not overtaken never selects, fills or signals a worker that is deleted or
\* whose handles are closed, nor does a task on its own worker; and no worker
\* behind a task's own is deleted while the task is in the call.
THEOREM DestructionIsSafe == Spec => []NoUseAfterClose
<1>1. TypeInv /\ Destruction /\ Shelter /\ [Next]_vars => Destruction' /\ Shelter'
    BY DestructionStep, ShelterStep
<1>2. TypeInv /\ Destruction /\ Shelter => NoUseAfterClose
    BY DestructionSafe
<1>3. QED
    BY TypeInit, TypeStep, DestructionInit, ShelterInit, <1>1, <1>2, PTL DEF Spec
=============================================================================
