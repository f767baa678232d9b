-------------------------- MODULE UVOneloop_proofs --------------------------
(***************************************************************************)
(* Theorems about UVOneloop, for any set of threads and tasks: its type    *)
(* invariant, that no wake-up is lost, that the shutdown meets no caller,   *)
(* and which tasks it spares.                                              *)
(***************************************************************************)
EXTENDS UVOneloop, Integers, TLAPS

\* The thread that posts a task is one of the callers.
LEMMA PosterIsCaller == \A t \in Tasks : Poster[t] \in Callers
BY LoopAssumption

\* Taking a task from a sub-queue yields a task and leaves a queue of tasks.
LEMMA DequeuedTask ==
    ASSUME NEW q \in Seq(Tasks), q # <<>>
    PROVE  Head(q) \in Tasks /\ Tail(q) \in Seq(Tasks)
OBVIOUS

(***************************************************************************)
(* Type correctness: every step of every thread keeps TypeOK.              *)
(***************************************************************************)
LEMMA TypeInit == Init => TypeOK
<1> SUFFICES ASSUME Init PROVE TypeOK
    OBVIOUS
<1>1. /\ status \in [Tasks -> TaskStatus]
      /\ callPc \in [Callers -> {"idle", "enqueue", "send"}]
      /\ m_taskQueue \in [Callers -> Seq(Tasks)]
    BY DEF Init, TaskStatus
<1>2. /\ pending \subseteq {"work", "exit"}
      /\ workerPc \in {"init", "poll", "work", "task", "exit", "closing", "returned"}
      /\ scanned \subseteq Callers
      /\ ctorPc \in {"wait", "done"}
      /\ dtorPc \in {"none", "send", "join", "done"}
    BY DEF Init
<1>3. /\ workAhead \in BOOLEAN /\ stopFlag \in BOOLEAN /\ foreign \in BOOLEAN
      /\ m_isStopping \in BOOLEAN /\ m_loop \in BOOLEAN
      /\ m_loopInitialized \in BOOLEAN
    BY DEF Init
<1>4. QED BY <1>1, <1>2, <1>3 DEF TypeOK

LEMMA TypeStep == TypeOK /\ [Next]_vars => TypeOK'
<1> SUFFICES ASSUME TypeOK, [Next]_vars PROVE TypeOK'
    OBVIOUS
<1> USE DEF TypeOK, TaskStatus, postVars, loopVars, flagVars, lifeVars
<1>1. CASE CtorReturn \/ DtorBegin \/ DtorSendExit \/ DtorReturn
  <2>1. CASE CtorReturn
      BY <2>1 DEF CtorReturn
  <2>2. CASE DtorBegin
      BY <2>2 DEF DtorBegin
  <2>3. CASE DtorSendExit
    <3>1. pending' \subseteq {"work", "exit"} /\ workAhead' \in BOOLEAN
        BY <2>3 DEF DtorSendExit
    <3>2. QED BY <2>3, <3>1 DEF DtorSendExit
  <2>4. CASE DtorReturn
    <3>1. status' \in [Tasks -> TaskStatus]
        BY <2>4 DEF DtorReturn
    <3>2. m_taskQueue' \in [Callers -> Seq(Tasks)]
        BY <2>4 DEF DtorReturn
    <3>3. QED BY <2>4, <3>1, <3>2 DEF DtorReturn
  <2>5. QED BY <1>1, <2>1, <2>2, <2>3, <2>4
<1>2. ASSUME NEW t \in Tasks, PostCheck(t) PROVE TypeOK'
    BY <1>2, PosterIsCaller DEF PostCheck
<1>3. ASSUME NEW t \in Tasks, PostEnqueue(t) PROVE TypeOK'
    BY <1>3, PosterIsCaller DEF PostEnqueue
<1>4. ASSUME NEW c \in Callers, PostSend(c) PROVE TypeOK'
    BY <1>4 DEF PostSend
<1>5. CASE InitSucceeds \/ InitFails
    BY <1>5 DEF InitSucceeds, InitFails
<1>6. CASE DispatchWork \/ DispatchExit
    BY <1>6 DEF DispatchWork, DispatchExit
<1>7. CASE WorkDone \/ ExitDone \/ RunReturns \/ LoopDeleted
    BY <1>7 DEF WorkDone, ExitDone, RunReturns, LoopDeleted
<1>8. ASSUME NEW c \in Callers, ScanEmpty(c) PROVE TypeOK'
    BY <1>8 DEF ScanEmpty
<1>9. ASSUME NEW c \in Callers, CallTask(c) PROVE TypeOK'
    BY <1>9, DequeuedTask DEF CallTask, TryDequeue
<1>10. ASSUME NEW c \in Callers, DropTask(c) PROVE TypeOK'
    BY <1>10, DequeuedTask DEF DropTask, TryDequeue
<1>11. ASSUME NEW t \in Tasks, TaskReturns(t) PROVE TypeOK'
    BY <1>11 DEF TaskReturns
<1>12. CASE UNCHANGED vars
    BY <1>12 DEF vars
<1>13. QED
    BY <1>1, <1>2, <1>3, <1>4, <1>5, <1>6, <1>7, <1>8, <1>9, <1>10, <1>11, <1>12
       DEF Next, Post, WorkerNext

\* Every variable of the loop keeps its type, whatever the threads do.
THEOREM TypeCorrect == Spec => []TypeOK
<1>1. QED BY TypeInit, TypeStep, PTL DEF Spec

(***************************************************************************)
(* No wake-up is lost.  NoLostWakeup needs TypeOK only: a step that makes  *)
(* a sub-queue longer leaves its caller about to send the signal, and the  *)
(* worker puts a sub-queue among the scanned ones only if it is empty.     *)
(***************************************************************************)
LEMMA WakeupInit == Init => NoLostWakeup
BY DEF Init, NoLostWakeup

LEMMA WakeupStep == TypeOK /\ NoLostWakeup /\ [Next]_vars => NoLostWakeup'
<1> SUFFICES ASSUME TypeOK, NoLostWakeup, [Next]_vars,
                    NEW c \in Callers, m_taskQueue'[c] # <<>>
             PROVE  Noticed(c)'
    BY DEF NoLostWakeup
<1> USE DEF Noticed, postVars, loopVars, flagVars, lifeVars
<1>a. m_taskQueue[c] # <<>> => Noticed(c)
    BY DEF NoLostWakeup
<1>1. CASE CtorReturn \/ DtorBegin \/ DtorSendExit
    BY <1>1, <1>a DEF CtorReturn, DtorBegin, DtorSendExit
<1>2. CASE DtorReturn
    BY <1>2 DEF DtorReturn
<1>3. ASSUME NEW t \in Tasks, PostCheck(t) PROVE Noticed(c)'
  <2>1. callPc[c] = "send" => callPc'[c] = "send"
    BY <1>3, PosterIsCaller DEF PostCheck, MayCall, TypeOK
  <2>2. QED BY <1>3, <1>a, <2>1 DEF PostCheck
<1>4. ASSUME NEW t \in Tasks, PostEnqueue(t) PROVE Noticed(c)'
  <2>1. CASE c = Poster[t]
    BY <1>4, <2>1 DEF PostEnqueue, TypeOK
  <2>2. CASE c # Poster[t]
    BY <1>4, <2>2, <1>a, PosterIsCaller DEF PostEnqueue, TypeOK
  <2>3. QED BY <2>1, <2>2
<1>5. ASSUME NEW d \in Callers, PostSend(d) PROVE Noticed(c)'
    BY <1>5 DEF PostSend
<1>6. CASE InitSucceeds \/ InitFails
    BY <1>6, <1>a DEF InitSucceeds, InitFails
<1>7. CASE DispatchWork
    BY <1>7 DEF DispatchWork
<1>8. CASE DispatchExit
    BY <1>8, <1>a DEF DispatchExit
<1>9. CASE WorkDone
    BY <1>9, <1>a DEF WorkDone
<1>10. CASE ExitDone \/ RunReturns \/ LoopDeleted
    BY <1>10, <1>a DEF ExitDone, RunReturns, LoopDeleted
<1>11. ASSUME NEW d \in Callers, ScanEmpty(d) PROVE Noticed(c)'
    BY <1>11, <1>a DEF ScanEmpty
<1>12. ASSUME NEW d \in Callers, CallTask(d) PROVE Noticed(c)'
    BY <1>12 DEF CallTask, TryDequeue
<1>13. ASSUME NEW d \in Callers, DropTask(d) PROVE Noticed(c)'
  <2>1. m_taskQueue[c] # <<>>
    BY <1>13 DEF DropTask, TryDequeue, TypeOK
  <2>2. QED BY <1>13, <1>a, <2>1 DEF DropTask, TryDequeue
<1>14. ASSUME NEW t \in Tasks, TaskReturns(t) PROVE Noticed(c)'
    BY <1>14, <1>a DEF TaskReturns
<1>15. CASE UNCHANGED vars
    BY <1>15, <1>a DEF vars
<1>16. QED
    BY <1>1, <1>2, <1>3, <1>4, <1>5, <1>6, <1>7, <1>8, <1>9, <1>10, <1>11,
       <1>12, <1>13, <1>14, <1>15
       DEF Next, Post, WorkerNext

\* However many threads post, a queued task is always noticed: its wake-up
\* is pending or about to be sent, or the worker is yet to visit its queue.
THEOREM WakeupNeverLost == Spec => []NoLostWakeup
<1>1. QED BY TypeInit, TypeStep, WakeupInit, WakeupStep, PTL DEF Spec

(***************************************************************************)
(* The shutdown.  SendOnOpenHandle is not inductive: that RunReturns finds *)
(* nobody inside postTask follows from what the destructor did long        *)
(* before.  Shutdown says how the phases of the constructor, the worker    *)
(* and the destructor fit together, and where callers of postTask may be.  *)
(***************************************************************************)

\* The flag is set exactly when the worker has left "init" in good order, and
\* a returned constructor or a loop pointer implies it.
Started ==
    /\ ctorPc = "done" => m_loopInitialized
    /\ m_loop => m_loopInitialized
    /\ m_loopInitialized => workerPc # "init"
    /\ workerPc \notin {"init", "returned"} => m_loopInitialized

\* Before the destructor has sent its signal there is nothing that could end
\* the loop, and once it has begun postTask refuses tasks.
NoEndBeforeExit ==
    /\ dtorPc \in {"none", "send"} =>
        /\ "exit" \notin pending
        /\ ~stopFlag
        /\ m_loopInitialized => workerPc \in {"poll", "work", "task"}
    /\ dtorPc # "none" => m_loopInitialized /\ m_isStopping

\* Who is inside postTask: the worker only in a task, the other threads only
\* between the constructor and the destructor.
CallersInside ==
    /\ callPc[Worker] # "idle" => workerPc = "task"
    /\ \A c \in Threads : callPc[c] # "idle" => m_loopInitialized /\ dtorPc = "none"

Shutdown == Started /\ NoEndBeforeExit /\ CallersInside

LEMMA ShutdownInit == Init => Shutdown
BY DEF Init, Shutdown, Started, NoEndBeforeExit, CallersInside, Callers

LEMMA ShutdownSafe == Shutdown => SendOnOpenHandle
BY DEF Shutdown, NoEndBeforeExit, CallersInside, SendOnOpenHandle, HandlesOpen, Callers

LEMMA ShutdownStep ==
    ASSUME Quiesced, TypeOK, Shutdown, [Next]_vars
    PROVE  Shutdown'
<1> USE DEF Shutdown, Started, NoEndBeforeExit, CallersInside, TypeOK, Callers,
            postVars, loopVars, flagVars, lifeVars
<1>1. CASE CtorReturn \/ DtorBegin \/ DtorSendExit \/ DtorReturn
    BY <1>1 DEF CtorReturn, DtorBegin, DtorSendExit, DtorReturn
<1>2. ASSUME NEW t \in Tasks, PostCheck(t) PROVE Shutdown'
  <2>1. Poster[t] \in Callers
    BY PosterIsCaller
  <2>2. CASE m_isStopping \/ ~m_loop
    BY <1>2, <2>1, <2>2 DEF PostCheck, MayCall
  <2>3. CASE ~m_isStopping /\ m_loop
    BY <1>2, <2>1, <2>3 DEF PostCheck, MayCall
  <2>4. QED BY <2>2, <2>3
<1>3. ASSUME NEW t \in Tasks, PostEnqueue(t) PROVE Shutdown'
    BY <1>3, PosterIsCaller DEF PostEnqueue
<1>4. ASSUME NEW c \in Callers, PostSend(c) PROVE Shutdown'
    BY <1>4 DEF PostSend
<1>5. CASE InitSucceeds \/ InitFails
    BY <1>5 DEF InitSucceeds, InitFails
<1>6. CASE DispatchWork \/ DispatchExit
    BY <1>6 DEF DispatchWork, DispatchExit
<1>7. CASE WorkDone \/ ExitDone \/ RunReturns \/ LoopDeleted
    BY <1>7 DEF WorkDone, ExitDone, RunReturns, LoopDeleted
<1>8. ASSUME NEW c \in Callers, ScanEmpty(c) PROVE Shutdown'
    BY <1>8 DEF ScanEmpty
<1>9. ASSUME NEW c \in Callers, CallTask(c) PROVE Shutdown'
    BY <1>9 DEF CallTask, TryDequeue
<1>10. ASSUME NEW c \in Callers, DropTask(c) PROVE Shutdown'
    BY <1>10 DEF DropTask, TryDequeue
<1>11. ASSUME NEW t \in Tasks, TaskReturns(t) PROVE Shutdown'
    BY <1>11 DEF TaskReturns
<1>12. CASE UNCHANGED vars
    BY <1>12 DEF vars
<1>13. QED
    BY <1>1, <1>2, <1>3, <1>4, <1>5, <1>6, <1>7, <1>8, <1>9, <1>10, <1>11, <1>12
       DEF Next, Post, WorkerNext

\* If no other thread is inside postTask when the destructor starts, no
\* thread signals an async handle that has been closed, nor the members of a
\* destroyed loop, however many threads post and whatever fails.
THEOREM ShutdownIsSafe ==
    ASSUME Quiesced
    PROVE  Spec => []SendOnOpenHandle
<1>1. TypeOK /\ Shutdown /\ [Next]_vars => Shutdown'
    BY ShutdownStep, Quiesced
<1>2. QED
    BY TypeInit, TypeStep, ShutdownInit, ShutdownSafe, <1>1, PTL DEF Spec

(***************************************************************************)
(* The tasks that the destructor spares.  No step but the exit callback    *)
(* and the destruction of the queue throws a task away, and neither comes  *)
(* before the work callback has been to the sub-queue of a task that was   *)
(* posted before the exit signal.                                          *)
(***************************************************************************)

\* The sub-queues hold the queued tasks of their thread, each once.
QueuesOfPosters ==
    /\ \A c \in Callers : \A i \in DOMAIN m_taskQueue[c] :
          Poster[m_taskQueue[c][i]] = c /\ status[m_taskQueue[c][i]] = "queued"
    /\ \A c \in Callers : \A i, j \in DOMAIN m_taskQueue[c] :
          m_taskQueue[c][i] = m_taskQueue[c][j] => i = j
    /\ \A t \in Tasks : status[t] = "queued" =>
          \E i \in DOMAIN m_taskQueue[Poster[t]] : m_taskQueue[Poster[t]][i] = t

\* There is a loop as long as the worker runs it.
LoopOfWorker == m_loop <=> workerPc \notin {"init", "returned"}

ExitInv == TypeOK /\ NoLostWakeup /\ Started /\ NoEndBeforeExit /\ LoopOfWorker /\ QueuesOfPosters

\* The task t has been spared so far, and if it is still queued, the work
\* callback comes to it before the exit callback begins.
Spared(t) ==
    /\ status[t] \in {"queued", "running", "ran"}
    /\ status[t] = "queued" =>
          /\ dtorPc \in {"send", "join"}
          /\ m_loop /\ ~stopFlag
          /\ callPc[Poster[t]] = "idle"
          /\ \/ workerPc \in {"work", "task"} /\ Poster[t] \notin scanned
             \/ /\ workerPc \in {"poll", "work", "task"}
                /\ "work" \in pending /\ (dtorPc = "join" => workAhead)

\* A task is taken from the front of a sub-queue, or put at its end.
LEMMA TakenFromFront ==
    ASSUME NEW q \in Seq(Tasks), q # <<>>
    PROVE  /\ 1 \in DOMAIN q /\ Head(q) = q[1] /\ Len(q) \in Nat
           /\ DOMAIN Tail(q) = 1..(Len(q) - 1)
           /\ DOMAIN q = 1..Len(q)
           /\ \A i \in DOMAIN Tail(q) : i + 1 \in DOMAIN q /\ Tail(q)[i] = q[i + 1]
OBVIOUS

LEMMA PutAtEnd ==
    ASSUME NEW q \in Seq(Tasks), NEW t \in Tasks
    PROVE  /\ Len(q) \in Nat /\ DOMAIN q = 1..Len(q)
           /\ DOMAIN Append(q, t) = 1..(Len(q) + 1)
           /\ Append(q, t)[Len(q) + 1] = t
           /\ \A i \in DOMAIN q : Append(q, t)[i] = q[i]
OBVIOUS

LEMMA ExitInit == Init => ExitInv
<1> SUFFICES ASSUME Init PROVE ExitInv
    OBVIOUS
<1>1. TypeOK /\ NoLostWakeup
    BY TypeInit, WakeupInit
<1>2. Started /\ NoEndBeforeExit /\ LoopOfWorker
    BY DEF Init, Started, NoEndBeforeExit, LoopOfWorker
<1>3. \A c \in Callers : DOMAIN m_taskQueue[c] = {}
    BY DEF Init
<1>4. QueuesOfPosters
    BY <1>3 DEF Init, QueuesOfPosters
<1>5. QED BY <1>1, <1>2, <1>4 DEF ExitInv

\* The phases of the constructor, the worker and the destructor, however the
\* callers of postTask come.
LEMMA PhasesStep ==
    ASSUME TypeOK, Started, NoEndBeforeExit, LoopOfWorker, [Next]_vars
    PROVE  Started' /\ NoEndBeforeExit' /\ LoopOfWorker'
<1> USE DEF Started, NoEndBeforeExit, LoopOfWorker, TypeOK, postVars, loopVars, flagVars, lifeVars
<1>1. CASE CtorReturn \/ DtorBegin \/ DtorSendExit \/ DtorReturn
    BY <1>1 DEF CtorReturn, DtorBegin, DtorSendExit, DtorReturn
<1>2. ASSUME NEW t \in Tasks, Post(t) PROVE Started' /\ NoEndBeforeExit' /\ LoopOfWorker'
    BY <1>2 DEF Post, PostCheck, PostEnqueue
<1>3. ASSUME NEW c \in Callers, PostSend(c) PROVE Started' /\ NoEndBeforeExit' /\ LoopOfWorker'
    BY <1>3 DEF PostSend
<1>4. CASE InitSucceeds \/ InitFails
    BY <1>4 DEF InitSucceeds, InitFails
<1>5. CASE DispatchWork \/ DispatchExit
    BY <1>5 DEF DispatchWork, DispatchExit
<1>6. CASE WorkDone \/ ExitDone \/ RunReturns \/ LoopDeleted
    BY <1>6 DEF WorkDone, ExitDone, RunReturns, LoopDeleted
<1>7. ASSUME NEW c \in Callers, ScanEmpty(c) \/ CallTask(c) \/ DropTask(c)
      PROVE  Started' /\ NoEndBeforeExit' /\ LoopOfWorker'
    BY <1>7 DEF ScanEmpty, CallTask, DropTask, TryDequeue
<1>8. ASSUME NEW t \in Tasks, TaskReturns(t) PROVE Started' /\ NoEndBeforeExit' /\ LoopOfWorker'
    BY <1>8 DEF TaskReturns
<1>9. CASE UNCHANGED vars
    BY <1>9 DEF vars
<1>10. QED BY <1>1, <1>2, <1>3, <1>4, <1>5, <1>6, <1>7, <1>8, <1>9 DEF Next, WorkerNext

\* A task that was taken leaves its sub-queue, the others stay.
LEMMA DequeueKeepsQueues ==
    ASSUME TypeOK, QueuesOfPosters, NEW c \in Callers, NEW s \in {"running", "dropped"},
           TryDequeue(c, s)
    PROVE  QueuesOfPosters'
<1> DEFINE q == m_taskQueue[c]
<1>1. /\ q \in Seq(Tasks) /\ q # <<>>
      /\ m_taskQueue'[c] = Tail(q)
      /\ \A d \in Callers : d # c => m_taskQueue'[d] = m_taskQueue[d]
      /\ status' = [status EXCEPT ![Head(q)] = s]
    BY DEF TryDequeue, TypeOK
<1> HIDE DEF q
<1>2. /\ 1 \in DOMAIN q /\ Head(q) = q[1] /\ Len(q) \in Nat
      /\ DOMAIN Tail(q) = 1..(Len(q) - 1)
      /\ DOMAIN q = 1..Len(q)
      /\ \A i \in DOMAIN Tail(q) : i + 1 \in DOMAIN q /\ Tail(q)[i] = q[i + 1]
    BY <1>1, TakenFromFront
<1>3. /\ \A i \in DOMAIN q : q[i] \in Tasks /\ Poster[q[i]] = c /\ status[q[i]] = "queued"
      /\ \A i, j \in DOMAIN q : q[i] = q[j] => i = j
    <2>1. \A i \in DOMAIN q : q[i] \in Tasks
        BY <1>1, <1>2
    <2>2. QED BY <2>1 DEF QueuesOfPosters, q
<1>4. \A t \in Tasks : t # Head(q) => status'[t] = status[t]
    BY <1>1 DEF TypeOK
<1>5. status'[Head(q)] = s /\ Head(q) \in Tasks
    BY <1>1, <1>2, <1>3 DEF TypeOK
<1>6. ASSUME NEW d \in Callers, NEW i \in DOMAIN m_taskQueue'[d]
      PROVE  Poster[m_taskQueue'[d][i]] = d /\ status'[m_taskQueue'[d][i]] = "queued"
  <2>1. CASE d = c
    <3>1. i \in DOMAIN Tail(q) /\ m_taskQueue'[d][i] = q[i + 1] /\ i + 1 \in DOMAIN q /\ i + 1 # 1
        BY <1>1, <1>2, <1>6, <2>1
    <3>2. q[i + 1] # q[1]
        BY <1>2, <1>3, <3>1
    <3>3. QED BY <1>2, <1>3, <1>4, <2>1, <3>1, <3>2
  <2>2. CASE d # c
    <3>1. /\ i \in DOMAIN m_taskQueue[d] /\ m_taskQueue'[d][i] = m_taskQueue[d][i]
          /\ m_taskQueue[d] \in Seq(Tasks)
        BY <1>1, <1>6, <2>2 DEF TypeOK
    <3>2. m_taskQueue[d][i] \in Tasks
        BY <3>1
    <3>3. Poster[m_taskQueue[d][i]] = d /\ status[m_taskQueue[d][i]] = "queued"
        BY <3>1 DEF QueuesOfPosters
    <3>4. m_taskQueue[d][i] # Head(q)
        BY <1>2, <1>3, <2>2, <3>3
    <3>5. QED BY <1>4, <3>1, <3>2, <3>3, <3>4
  <2>3. QED BY <2>1, <2>2
<1>7. ASSUME NEW d \in Callers, NEW i \in DOMAIN m_taskQueue'[d], NEW j \in DOMAIN m_taskQueue'[d],
             m_taskQueue'[d][i] = m_taskQueue'[d][j]
      PROVE  i = j
  <2>1. CASE d = c
    <3>1. /\ i \in DOMAIN Tail(q) /\ j \in DOMAIN Tail(q) /\ q[i + 1] = q[j + 1]
        BY <1>1, <1>2, <1>7, <2>1
    <3>2. i + 1 = j + 1
        BY <1>2, <1>3, <3>1
    <3>3. i \in Int /\ j \in Int
        BY <1>2, <3>1
    <3>4. QED BY <3>2, <3>3
  <2>2. CASE d # c
      BY <1>1, <1>7, <2>2 DEF QueuesOfPosters
  <2>3. QED BY <2>1, <2>2
<1>8. ASSUME NEW t \in Tasks, status'[t] = "queued"
      PROVE  \E i \in DOMAIN m_taskQueue'[Poster[t]] : m_taskQueue'[Poster[t]][i] = t
  <2>1. t # Head(q) /\ status[t] = "queued"
      BY <1>4, <1>5, <1>8
  <2>2. PICK i \in DOMAIN m_taskQueue[Poster[t]] : m_taskQueue[Poster[t]][i] = t
      BY <2>1 DEF QueuesOfPosters
  <2>3. CASE Poster[t] = c
    <3>1. i \in DOMAIN q /\ q[i] = t /\ i # 1
        BY <1>2, <2>1, <2>2, <2>3 DEF q
    <3>2. PICK j : j = i - 1 /\ j \in 1..(Len(q) - 1) /\ j + 1 = i
        BY <1>2, <3>1
    <3>3. j \in DOMAIN Tail(q) /\ Tail(q)[j] = t
        BY <1>2, <3>1, <3>2
    <3>4. QED BY <1>1, <2>3, <3>3
  <2>4. CASE Poster[t] # c
      BY <1>1, <2>2, <2>4, PosterIsCaller
  <2>5. QED BY <2>3, <2>4
<1>9. QED BY <1>6, <1>7, <1>8 DEF QueuesOfPosters

LEMMA QueuesStep ==
    ASSUME TypeOK, QueuesOfPosters, [Next]_vars
    PROVE  QueuesOfPosters'
<1> USE DEF postVars, loopVars, flagVars, lifeVars
<1>1. CASE UNCHANGED <<status, m_taskQueue>>
    BY <1>1 DEF QueuesOfPosters
<1>2. CASE DtorReturn
  <2>1. \A c \in Callers : DOMAIN m_taskQueue'[c] = {}
      BY <1>2 DEF DtorReturn
  <2>2. \A t \in Tasks : status'[t] # "queued"
      BY <1>2 DEF DtorReturn
  <2>3. QED BY <2>1, <2>2 DEF QueuesOfPosters
<1>3. ASSUME NEW t \in Tasks, NEW s, status[t] # "queued", s # "queued",
             status' = [status EXCEPT ![t] = s], m_taskQueue' = m_taskQueue
      PROVE  QueuesOfPosters'
  <2>1. \A u \in Tasks : (status[u] = "queued") <=> (status'[u] = "queued")
      BY <1>3 DEF TypeOK
  <2>2. \A c \in Callers : \A i \in DOMAIN m_taskQueue[c] : m_taskQueue[c][i] \in Tasks
    <3>1. \A q \in Seq(Tasks) : \A i \in DOMAIN q : q[i] \in Tasks
        OBVIOUS
    <3>2. QED BY <3>1 DEF TypeOK
  <2>3. QED BY <1>3, <2>1, <2>2 DEF QueuesOfPosters
<1>4. ASSUME NEW t \in Tasks, PostCheck(t) PROVE QueuesOfPosters'
  <2>1. PICK s : /\ s = "posting" \/ s = "ignored"
                 /\ status' = [status EXCEPT ![t] = s]
      BY <1>4 DEF PostCheck
  <2>2. s # "queued" /\ status[t] # "queued" /\ m_taskQueue' = m_taskQueue
      BY <1>4, <2>1 DEF PostCheck
  <2>3. QED BY <1>3, <2>1, <2>2
<1>5. ASSUME NEW t \in Tasks, TaskReturns(t) PROVE QueuesOfPosters'
  <2>1. PICK s : s = "ran" /\ status' = [status EXCEPT ![t] = s]
      BY <1>5 DEF TaskReturns
  <2>2. s # "queued" /\ status[t] # "queued" /\ m_taskQueue' = m_taskQueue
      BY <1>5, <2>1 DEF TaskReturns
  <2>3. QED BY <1>3, <2>1, <2>2
<1>6. ASSUME NEW t \in Tasks, PostEnqueue(t) PROVE QueuesOfPosters'
  <2> DEFINE c == Poster[t]
             q == m_taskQueue[c]
  <2>1. /\ c \in Callers /\ q \in Seq(Tasks) /\ status[t] = "posting"
        /\ m_taskQueue'[c] = Append(q, t)
        /\ \A d \in Callers : d # c => m_taskQueue'[d] = m_taskQueue[d]
        /\ status'[t] = "queued" /\ \A u \in Tasks : u # t => status'[u] = status[u]
      BY <1>6, PosterIsCaller DEF PostEnqueue, TypeOK
  <2>2. \A d \in Callers : \A i \in DOMAIN m_taskQueue[d] :
           m_taskQueue[d][i] \in Tasks /\ m_taskQueue[d][i] # t
    <3>1. \A r \in Seq(Tasks) : \A i \in DOMAIN r : r[i] \in Tasks
        OBVIOUS
    <3>2. QED BY <2>1, <3>1 DEF QueuesOfPosters, TypeOK
  <2> HIDE DEF q
  <2>3. /\ Len(q) \in Nat /\ DOMAIN q = 1..Len(q)
        /\ DOMAIN Append(q, t) = 1..(Len(q) + 1)
        /\ Append(q, t)[Len(q) + 1] = t
        /\ \A i \in DOMAIN q : Append(q, t)[i] = q[i]
      BY <2>1, PutAtEnd
  <2>4. \A i \in DOMAIN Append(q, t) : i = Len(q) + 1 \/ i \in DOMAIN q
      BY <2>3
  <2>5. /\ \A i \in DOMAIN q : Poster[q[i]] = c /\ status'[q[i]] = "queued" /\ q[i] # t
        /\ \A i, j \in DOMAIN q : q[i] = q[j] => i = j
      BY <2>1, <2>2 DEF QueuesOfPosters, q
  <2>6. ASSUME NEW d \in Callers, NEW i \in DOMAIN m_taskQueue'[d]
        PROVE  Poster[m_taskQueue'[d][i]] = d /\ status'[m_taskQueue'[d][i]] = "queued"
    <3>1. CASE d = c
        BY <2>1, <2>3, <2>4, <2>5, <2>6, <3>1
    <3>2. CASE d # c
        BY <2>1, <2>2, <2>6, <3>2 DEF QueuesOfPosters
    <3>3. QED BY <3>1, <3>2
  <2>7. ASSUME NEW d \in Callers, NEW i \in DOMAIN m_taskQueue'[d], NEW j \in DOMAIN m_taskQueue'[d],
               m_taskQueue'[d][i] = m_taskQueue'[d][j]
        PROVE  i = j
    <3>1. CASE d = c
        BY <2>1, <2>3, <2>4, <2>5, <2>7, <3>1
    <3>2. CASE d # c
        BY <2>1, <2>7, <3>2 DEF QueuesOfPosters
    <3>3. QED BY <3>1, <3>2
  <2>8. ASSUME NEW u \in Tasks, status'[u] = "queued"
        PROVE  \E i \in DOMAIN m_taskQueue'[Poster[u]] : m_taskQueue'[Poster[u]][i] = u
    <3>1. CASE u = t
      <4>1. Len(q) + 1 \in DOMAIN Append(q, t)
          BY <2>3
      <4>2. QED BY <2>1, <2>3, <3>1, <4>1
    <3>2. CASE u # t
      <4>1. PICK i \in DOMAIN m_taskQueue[Poster[u]] : m_taskQueue[Poster[u]][i] = u
          BY <2>1, <2>8, <3>2 DEF QueuesOfPosters
      <4>2. CASE Poster[u] = c
        <5>1. i \in DOMAIN q /\ q[i] = u
            BY <4>1, <4>2 DEF q
        <5>2. i \in DOMAIN Append(q, t) /\ Append(q, t)[i] = u
            BY <2>3, <5>1
        <5>3. QED BY <2>1, <4>2, <5>2
      <4>3. CASE Poster[u] # c
          BY <2>1, <4>1, <4>3, PosterIsCaller
      <4>4. QED BY <4>2, <4>3
    <3>3. QED BY <3>1, <3>2
  <2>9. QED BY <2>6, <2>7, <2>8 DEF QueuesOfPosters
<1>7. ASSUME NEW c \in Callers, CallTask(c) PROVE QueuesOfPosters'
  <2>1. PICK s \in {"running", "dropped"} : s = "running" /\ TryDequeue(c, s)
      BY <1>7 DEF CallTask
  <2>2. QED BY <2>1, DequeueKeepsQueues
<1>8. ASSUME NEW c \in Callers, DropTask(c) PROVE QueuesOfPosters'
  <2>1. PICK s \in {"running", "dropped"} : s = "dropped" /\ TryDequeue(c, s)
      BY <1>8 DEF DropTask
  <2>2. QED BY <2>1, DequeueKeepsQueues
<1>9. \/ UNCHANGED <<status, m_taskQueue>> \/ DtorReturn
      \/ \E t \in Tasks : PostCheck(t) \/ PostEnqueue(t) \/ TaskReturns(t)
      \/ \E c \in Callers : CallTask(c) \/ DropTask(c)
    BY DEF Next, Post, WorkerNext, CtorReturn, DtorBegin, DtorSendExit, PostSend, InitSucceeds, InitFails,
           DispatchWork, DispatchExit, WorkDone, ExitDone, RunReturns, LoopDeleted, ScanEmpty, vars
<1>10. QED BY <1>1, <1>2, <1>4, <1>5, <1>6, <1>7, <1>8, <1>9

LEMMA ExitInvStep == ExitInv /\ [Next]_vars => ExitInv'
BY TypeStep, WakeupStep, PhasesStep, QueuesStep DEF ExitInv

\* What was posted before the exit signal is about to be noticed.
LEMMA SparedAtFirst ==
    ASSUME ExitInv, NEW t \in Tasks,
           dtorPc = "send", status[t] = "queued", callPc[Poster[t]] = "idle"
    PROVE  Spared(t)
<1>1. /\ Poster[t] \in Callers /\ m_taskQueue[Poster[t]] \in Seq(Tasks)
      /\ \E i \in DOMAIN m_taskQueue[Poster[t]] : m_taskQueue[Poster[t]][i] = t
    BY PosterIsCaller DEF ExitInv, QueuesOfPosters, TypeOK
<1>2. m_taskQueue[Poster[t]] # <<>>
    BY <1>1
<1>3. Noticed(Poster[t])
    BY <1>1, <1>2 DEF ExitInv, NoLostWakeup
<1>4. QED BY <1>1, <1>3 DEF Noticed, Spared, ExitInv, NoEndBeforeExit, LoopOfWorker

LEMMA SparedStep ==
    ASSUME InOrder, ExitInv, NEW t \in Tasks, Spared(t), [Next]_vars
    PROVE  Spared(t)'
<1> USE DEF ExitInv, TypeOK, Spared, postVars, loopVars, flagVars, lifeVars
<1>a. Poster[t] \in Callers
    BY PosterIsCaller
<1>b. status[t] = "queued" => m_isStopping
    BY DEF NoEndBeforeExit
<1>1. CASE CtorReturn \/ DtorBegin
    BY <1>1 DEF CtorReturn, DtorBegin
<1>2. CASE DtorSendExit
    BY <1>2 DEF DtorSendExit
<1>3. CASE DtorReturn
    BY <1>3 DEF DtorReturn
<1>4. ASSUME NEW u \in Tasks, PostCheck(u) PROVE Spared(t)'
    BY <1>4, <1>a, <1>b DEF PostCheck
<1>5. ASSUME NEW u \in Tasks, PostEnqueue(u) PROVE Spared(t)'
    BY <1>5, <1>a, PosterIsCaller DEF PostEnqueue
<1>6. ASSUME NEW c \in Callers, PostSend(c) PROVE Spared(t)'
    BY <1>6, <1>a DEF PostSend
<1>7. CASE InitSucceeds \/ InitFails
    BY <1>7 DEF InitSucceeds, InitFails
<1>8. CASE DispatchWork
    BY <1>8 DEF DispatchWork
\* In the order of the signals, the exit callback comes second.
<1>9. CASE DispatchExit
    BY <1>9 DEF DispatchExit, NoEndBeforeExit
<1>10. CASE WorkDone \/ ExitDone \/ RunReturns \/ LoopDeleted
    BY <1>10, <1>a DEF WorkDone, ExitDone, RunReturns, LoopDeleted
<1>11. status[t] = "queued" => m_taskQueue[Poster[t]] # <<>>
  <2>1. m_taskQueue[Poster[t]] \in Seq(Tasks)
      BY <1>a
  <2>2. status[t] = "queued" => \E i \in DOMAIN m_taskQueue[Poster[t]] : TRUE
      BY DEF QueuesOfPosters
  <2>3. QED BY <2>1, <2>2
<1>12. ASSUME NEW c \in Callers, ScanEmpty(c) PROVE Spared(t)'
    BY <1>11, <1>12 DEF ScanEmpty
<1>13. ASSUME NEW c \in Callers, m_taskQueue[c] # <<>>
       PROVE  Head(m_taskQueue[c]) \in Tasks /\ status[Head(m_taskQueue[c])] = "queued"
  <2>1. /\ 1 \in DOMAIN m_taskQueue[c] /\ Head(m_taskQueue[c]) = m_taskQueue[c][1]
        /\ Head(m_taskQueue[c]) \in Tasks
      BY <1>13, TakenFromFront, DequeuedTask
  <2>2. QED BY <2>1 DEF QueuesOfPosters
<1>14. ASSUME NEW c \in Callers, CallTask(c) PROVE Spared(t)'
    BY <1>13, <1>14, <1>a DEF CallTask, TryDequeue
<1>15. ASSUME NEW c \in Callers, DropTask(c) PROVE Spared(t)'
    BY <1>13, <1>15 DEF DropTask, TryDequeue
<1>16. ASSUME NEW u \in Tasks, TaskReturns(u) PROVE Spared(t)'
    BY <1>16 DEF TaskReturns
<1>17. CASE UNCHANGED vars
    BY <1>17 DEF vars
<1>18. QED
    BY <1>1, <1>2, <1>3, <1>4, <1>5, <1>6, <1>7, <1>8, <1>9, <1>10, <1>12, <1>14, <1>15, <1>16, <1>17
       DEF Next, Post, WorkerNext

\* If signals are dispatched in the order sent, a task whose postTask returned
\* before the exit signal was sent is never thrown away, for any number of
\* threads and tasks, also if other calls of postTask overlap the destructor
\* (CUVOneloop.cpp:82 to 86).
THEOREM EarlierTasksAreSpared ==
    ASSUME InOrder
    PROVE  Spec => PostedBeforeExitRuns
<1>1. ASSUME NEW t \in Tasks
      PROVE  Spec => [](/\ dtorPc = "send"
                        /\ status[t] = "queued"
                        /\ callPc[Poster[t]] = "idle"
                        => [](status[t] # "dropped"))
  <2>1. ExitInv /\ (dtorPc = "send" /\ status[t] = "queued" /\ callPc[Poster[t]] = "idle") => Spared(t)
      BY SparedAtFirst
  <2>2. ExitInv /\ Spared(t) /\ [Next]_vars => Spared(t)'
      BY SparedStep, InOrder
  <2>3. Spared(t) => status[t] # "dropped"
      BY DEF Spared
  <2>4. QED BY ExitInit, ExitInvStep, <2>1, <2>2, <2>3, PTL DEF Spec
<1>2. QED BY <1>1 DEF PostedBeforeExitRuns

-----------------------------------------------------------------------------
(***************************************************************************)
(* UVOneloop implements TaskExecutor, for any set of threads and tasks, if *)
(* no other thread is inside postTask when the destructor starts.          *)
(*                                                                         *)
(* A task is accepted when it is enqueued and ignored when the flags are   *)
(* tested; the executor stops with DtorBegin and closes with DtorReturn.   *)
(* Signals, scans and the loop's own phases are stuttering steps.          *)
(***************************************************************************)
\* What the abstract guards need and the types do not say: one task runs at
\* a time and only inside the work callback, the loop is open until the
\* destructor begins, and the destructor has waited for the worker.
OneAtATime ==
    /\ \A t \in Tasks : status[t] = "running" => workerPc = "task"
    /\ \A t, u \in Tasks : status[t] = "running" /\ status[u] = "running" => t = u

OpenUntilDtor ==
    /\ workerPc = "init" => ~m_isStopping
    /\ m_loopInitialized /\ dtorPc = "none" => ~m_isStopping /\ m_loop

DoneAfterJoin == dtorPc = "done" => workerPc = "returned"

Aligned == OneAtATime /\ OpenUntilDtor /\ DoneAfterJoin

LEMMA AlignedInit == Init => Aligned
BY DEF Init, Aligned, OneAtATime, OpenUntilDtor, DoneAfterJoin

LEMMA AlignedStep == TypeOK /\ Shutdown /\ Aligned /\ [Next]_vars => Aligned'
<1> SUFFICES ASSUME TypeOK, Shutdown, Aligned, [Next]_vars PROVE Aligned'
    OBVIOUS
<1> USE DEF Aligned, OneAtATime, OpenUntilDtor, DoneAfterJoin, TypeOK,
            postVars, loopVars, flagVars, lifeVars
<1>1. CASE CtorReturn \/ DtorBegin \/ DtorSendExit \/ DtorReturn
    BY <1>1 DEF CtorReturn, DtorBegin, DtorSendExit, DtorReturn, Shutdown, Started
<1>2. ASSUME NEW t \in Tasks, PostCheck(t) PROVE Aligned'
    BY <1>2 DEF PostCheck
<1>3. ASSUME NEW t \in Tasks, PostEnqueue(t) PROVE Aligned'
    BY <1>3 DEF PostEnqueue
<1>4. ASSUME NEW c \in Callers, PostSend(c) PROVE Aligned'
    BY <1>4 DEF PostSend
<1>5. CASE InitSucceeds \/ InitFails
    BY <1>5 DEF InitSucceeds, InitFails, Shutdown, Started, NoEndBeforeExit
<1>6. CASE DispatchWork \/ DispatchExit
    BY <1>6 DEF DispatchWork, DispatchExit
<1>7. CASE WorkDone \/ ExitDone \/ RunReturns \/ LoopDeleted
    BY <1>7 DEF WorkDone, ExitDone, RunReturns, LoopDeleted, Shutdown,
                NoEndBeforeExit
<1>8. ASSUME NEW c \in Callers, ScanEmpty(c) PROVE Aligned'
    BY <1>8 DEF ScanEmpty
<1>9. ASSUME NEW c \in Callers, CallTask(c) PROVE Aligned'
    BY <1>9, DequeuedTask DEF CallTask, TryDequeue
<1>10. ASSUME NEW c \in Callers, DropTask(c) PROVE Aligned'
    BY <1>10, DequeuedTask DEF DropTask, TryDequeue
<1>11. ASSUME NEW t \in Tasks, TaskReturns(t) PROVE Aligned'
    BY <1>11 DEF TaskReturns
<1>12. CASE UNCHANGED vars
    BY <1>12 DEF vars
<1>13. QED
    BY <1>1, <1>2, <1>3, <1>4, <1>5, <1>6, <1>7, <1>8, <1>9, <1>10, <1>11, <1>12
       DEF Next, Post, WorkerNext

-----------------------------------------------------------------------------
\* The loop's initial states are the executor's.
LEMMA RefinesInit == Init => Executor!Init
BY DEF Init, Executor!Init

\* A step that leaves tasks, queue and destructor alone is a stutter.
LEMMA Stutter ==
    ASSUME UNCHANGED <<status, m_taskQueue, dtorPc>>
    PROVE  UNCHANGED Executor!vars
BY DEF Executor!vars

\* Every step of the loop is a step of the executor or a stutter.
LEMMA RefinesStep ==
    ASSUME TypeOK, Shutdown, Aligned, [Next]_vars
    PROVE  [Executor!Next]_(Executor!vars)
<1> USE DEF postVars, loopVars, flagVars, lifeVars
<1>1. CASE CtorReturn \/ DtorSendExit
  <2>1. CASE CtorReturn
      BY <2>1, Stutter DEF CtorReturn
  <2>2. CASE DtorSendExit
      BY <2>2 DEF DtorSendExit, Executor!vars
  <2>3. QED BY <1>1, <2>1, <2>2
<1>2. CASE DtorBegin
  <2>1. Executor!Stop
      BY <1>2 DEF DtorBegin, Executor!Stop
  <2>2. QED BY <2>1 DEF Executor!Next
<1>3. CASE DtorReturn
  <2>1. \A t \in Tasks : status[t] # "running"
      BY <1>3 DEF DtorReturn, Aligned, OneAtATime
  <2>2. Executor!Close
      BY <1>3, <2>1 DEF DtorReturn, Executor!Close, TypeOK, TaskStatus
  <2>3. QED BY <2>2 DEF Executor!Next
<1>4. ASSUME NEW t \in Tasks, PostCheck(t) PROVE [Executor!Next]_(Executor!vars)
  <2>1. CASE ~m_isStopping /\ m_loop
    \* The task is about to be enqueued, which the executor does not see.
    BY <1>4, <2>1 DEF PostCheck, TypeOK, Executor!vars
  <2>2. CASE m_isStopping \/ ~m_loop
    <3>1. m_loopInitialized
        BY <1>4, PosterIsCaller DEF PostCheck, MayCall, Shutdown, Started, Callers
    <3>2. dtorPc # "none"
        BY <2>2, <3>1 DEF Aligned, OpenUntilDtor
    <3>3. Executor!Ignore(t)
        BY <1>4, <2>2, <3>2 DEF PostCheck, TypeOK, Executor!Ignore
    <3>4. QED BY <3>3 DEF Executor!Next
  <2>3. QED BY <2>1, <2>2
<1>5. ASSUME NEW t \in Tasks, PostEnqueue(t) PROVE [Executor!Next]_(Executor!vars)
  <2>1. dtorPc # "done"
      BY <1>5, PosterIsCaller
         DEF PostEnqueue, Shutdown, CallersInside, Aligned, DoneAfterJoin, Callers
  <2>2. Executor!Accept(t)
      BY <1>5, <2>1 DEF PostEnqueue, TypeOK, Executor!Accept
  <2>3. QED BY <2>2 DEF Executor!Next
<1>6. ASSUME NEW c \in Callers, PostSend(c) PROVE [Executor!Next]_(Executor!vars)
    BY <1>6, Stutter DEF PostSend
<1>7. CASE InitSucceeds \/ InitFails
    BY <1>7, Stutter DEF InitSucceeds, InitFails
<1>8. CASE DispatchWork \/ DispatchExit
    BY <1>8, Stutter DEF DispatchWork, DispatchExit
<1>9. CASE WorkDone \/ ExitDone \/ RunReturns \/ LoopDeleted
    BY <1>9, Stutter DEF WorkDone, ExitDone, RunReturns, LoopDeleted
<1>10. ASSUME NEW c \in Callers, ScanEmpty(c) PROVE [Executor!Next]_(Executor!vars)
    BY <1>10, Stutter DEF ScanEmpty
<1>11. ASSUME NEW c \in Callers, CallTask(c) PROVE [Executor!Next]_(Executor!vars)
  <2>1. \A t \in Tasks : status[t] # "running"
      BY <1>11 DEF CallTask, Aligned, OneAtATime
  <2>2. dtorPc # "done"
      BY <1>11 DEF CallTask, Aligned, DoneAfterJoin
  <2>3. Head(m_taskQueue[c]) \in Tasks
      BY <1>11, DequeuedTask DEF CallTask, TryDequeue, TypeOK
  <2>4. Executor!Start(c)
      BY <1>11, <2>1, <2>2, <2>3
         DEF CallTask, TryDequeue, TypeOK, Executor!Start, Executor!Take
  <2>5. QED BY <2>4 DEF Executor!Next
<1>12. ASSUME NEW c \in Callers, DropTask(c) PROVE [Executor!Next]_(Executor!vars)
  <2>1. dtorPc = "join"
      BY <1>12 DEF DropTask, TypeOK, Shutdown, Started, NoEndBeforeExit,
                   Aligned, DoneAfterJoin
  <2>2. Head(m_taskQueue[c]) \in Tasks
      BY <1>12, DequeuedTask DEF DropTask, TryDequeue, TypeOK
  <2>3. Executor!Discard(c)
      BY <1>12, <2>1, <2>2
         DEF DropTask, TryDequeue, TypeOK, Executor!Discard, Executor!Take
  <2>4. QED BY <2>3 DEF Executor!Next
<1>13. ASSUME NEW t \in Tasks, TaskReturns(t) PROVE [Executor!Next]_(Executor!vars)
  <2>1. Executor!Finish(t)
      BY <1>13 DEF TaskReturns, TypeOK, Executor!Finish
  <2>2. QED BY <2>1 DEF Executor!Next
<1>14. CASE UNCHANGED vars
    BY <1>14, Stutter DEF vars
<1>15. QED
    BY <1>1, <1>2, <1>3, <1>4, <1>5, <1>6, <1>7, <1>8, <1>9, <1>10, <1>11,
       <1>12, <1>13, <1>14
       DEF Next, Post, WorkerNext

\* The loop keeps TaskExecutor's promise to any number of callers: tasks of
\* one caller in order, one at a time, each at most once, none lost before
\* the destructor starts and none run after it has returned.
THEOREM LoopImplementsExecutor ==
    ASSUME Quiesced
    PROVE  Spec => ExecutorSpec
<1>1. TypeOK /\ Shutdown /\ [Next]_vars => Shutdown'
    BY ShutdownStep, Quiesced
<1>2. TypeOK /\ Shutdown /\ Aligned /\ [Next]_vars => [Executor!Next]_(Executor!vars)
    BY RefinesStep
<1>3. QED
    BY TypeInit, TypeStep, ShutdownInit, AlignedInit, AlignedStep, RefinesInit,
       <1>1, <1>2, PTL DEF Spec, ExecutorSpec, Executor!Spec
=============================================================================
