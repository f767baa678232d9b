--------------------------- MODULE TcpClient_proofs ---------------------------
(***************************************************************************)
(* Theorems about TcpClient, for any number of handles, timers and hosts,  *)
(* any int type and any number of calls and queued closures.               *)
(***************************************************************************)
EXTENDS TcpClient, LoopTasks_proofs, FiniteSetTheorems

(***************************************************************************)
(* The closures.                                                           *)
(***************************************************************************)
LEMMA TaskKinds ==
    /\ \A host \in Hosts : ConnectTask(host) \in Task /\ ConnectTask(host).op = "connect"
    /\ \A h \in Handles \cup {Null}, some \in SUBSET (Timers \cup {Null}) :
          /\ CloseTask(h, some) \in Task
          /\ CloseTask(h, some).op = "close"
          /\ CloseTask(h, some).tcp = h
          /\ CloseTask(h, some).timers = some \ {Null}
    /\ SendTask \in Task /\ SendTask.op = "send"
    /\ StartReconnect \in Task /\ StartReconnect.op = "startReconnect"
    /\ StartTimeout \in Task /\ StartTimeout.op = "startTimeout"
    /\ StopTimeout \in Task /\ StopTimeout.op = "stopTimeout"
BY DEF Task, ConnectTask, CloseTask, SendTask, StartReconnect, StartTimeout, StopTimeout

LEMMA TaskFields ==
    ASSUME NEW task \in Task
    PROVE  /\ task.op = "connect" => task.host \in Hosts
           /\ task.op = "close" => task.tcp \in Handles \cup {Null} /\ task.timers \in SUBSET Timers
           /\ task.op = "startReconnect" => task = StartReconnect
           /\ task.op = "startTimeout" => task = StartTimeout
           /\ task.op = "stopTimeout" => task = StopTimeout
BY DEF Task, StartReconnect, StartTimeout, StopTimeout

(***************************************************************************)
(* Type correctness.  An object the client points to is of its kind; the   *)
(* host that the reconnect timer connects to has been set by then.         *)
(***************************************************************************)
\* Before the first closure of connect() has run, nothing happens.
HostSet ==
    m_host = Null =>
        /\ m_state = "DISCONNECTED"
        /\ StartReconnect \notin QueuedTasks
        /\ \A h \in Handles : tcp[h] \in {"free", "closing"}
        /\ \A t \in Timers : timer[t] # "armed"

\* The other thread keeps nothing before its disconnect() has cleared m_tcpHandle.
TakenInTurn ==
    appPc \notin (DisconnectPcs \ {"store", "copyTcp", "clearTcp"}) => taken = NothingTaken

TypeInv == TypeOK /\ Queues(Task) /\ HostSet /\ TakenInTurn

LEMMA TypeInit == Init => TypeInv
<1> SUFFICES ASSUME Init PROVE TypeInv
    OBVIOUS
<1>1. Queues(Task) /\ QueuedTasks = {} /\ DOMAIN backlog = Callers
      /\ \A c \in Callers : \A i \in DOMAIN backlog[c] : backlog[c][i] \in Task
    BY DEF Init, TasksInit, Queues, QueuedTasks
<1>2. /\ tcp \in [Handles -> TcpLife] /\ timer \in [Timers -> TimerLife]
      /\ taken \in [tcp : Handles \cup {Null}, timers : SUBSET Timers]
    BY DEF Init, TcpLife, TimerLife, NothingTaken
<1>3. /\ {m_reconnectInterval, m_initialReconnectInterval, m_maxReconnectInterval}
           \subseteq -IntMax - 1 .. IntMax
      /\ calls \in 0..MaxCalls
    BY ClientAssumption DEF Init
<1>4. QED
    BY <1>1, <1>2, <1>3
       DEF Init, TasksInit, TypeInv, TypeOK, ConnectState, HostSet, TakenInTurn, NothingTaken

\* What the queue is like after closures are posted, by a thread or a callback
\* of libuv, and after one has run.
QueueTypes ==
    /\ Queues(Task)
    /\ DOMAIN backlog = Callers
    /\ \A c \in Callers : \A i \in DOMAIN backlog[c] : backlog[c][i] \in Task

LEMMA QueuesTypes == Queues(Task) => QueueTypes
BY DEF Queues, QueueTypes

LEMMA PostTypes ==
    ASSUME Queues(Task), NEW c \in Callers, NEW tasks \in Seq(Task), backlog' = Posted(c, tasks)
    PROVE  QueueTypes' /\ QueuedTasks' = QueuedTasks \cup Elements(tasks)
<1>1. Queues(Task)' /\ QueuedTasks' = QueuedTasks \cup Elements(tasks)
    BY PostQueues
<1>2. QED BY <1>1 DEF Queues, QueueTypes

LEMMA TurnTypes ==
    ASSUME Queues(Task), NEW tasks \in Seq(Task), LoopTurn(tasks)
    PROVE  QueueTypes' /\ QueuedTasks' = QueuedTasks \cup Elements(tasks) /\ UNCHANGED draining
BY PostTypes DEF LoopTurn, Callers

LEMMA RunTypes ==
    ASSUME Queues(Task), NEW c \in Callers, NEW op, NEW tasks \in Seq(Task), RunTask(c, op, tasks)
    PROVE  /\ QueueTypes' /\ draining' \in BOOLEAN
           /\ QueuedTasks' \subseteq QueuedTasks \cup Elements(tasks)
           /\ Head(backlog[c]) \in Task /\ Head(backlog[c]).op = op
           /\ Head(backlog[c]) \in QueuedTasks
<1>1. /\ Queues(Task)' /\ Head(backlog[c]) \in Task /\ Head(backlog[c]).op = op
      /\ QueuedTasks' \subseteq QueuedTasks \cup Elements(tasks) /\ Head(backlog[c]) \in QueuedTasks
    BY RunQueues
<1>2. QueueTypes'
    BY <1>1 DEF Queues, QueueTypes
<1>3. draining' \in BOOLEAN
    BY DEF RunTask
<1>4. QED BY <1>1, <1>2, <1>3

\* The sequences that are posted.
LEMMA PostsTypes ==
    ASSUME TypeOK
    PROVE  /\ StopTimeoutTimer \in Seq(Task) /\ Elements(StopTimeoutTimer) \subseteq {StopTimeout}
           /\ \A on \in BOOLEAN : /\ StartTimeoutTimer(on) \in Seq(Task)
                                  /\ Elements(StartTimeoutTimer(on)) \subseteq {StartTimeout}
           /\ DisconnectPosts \in Seq(Task)
           /\ Elements(DisconnectPosts) \subseteq
                 {CloseTask(m_tcpHandle, {m_reconnectTimer, m_receiveTimeoutTimer})}
           /\ <<StartReconnect>> \in Seq(Task) /\ Elements(<<StartReconnect>>) = {StartReconnect}
           /\ <<>> \in Seq(Task) /\ Elements(<<>>) = {}
<1>1. CloseTask(m_tcpHandle, {m_reconnectTimer, m_receiveTimeoutTimer}) \in Task
  <2>1. {m_reconnectTimer, m_receiveTimeoutTimer} \in SUBSET (Timers \cup {Null})
    BY DEF TypeOK, Timers
  <2>2. QED BY <2>1, TaskKinds DEF TypeOK
<1>2. ASSUME NEW t \in Task, NEW b
      PROVE  When(b, t) \in Seq(Task) /\ Elements(When(b, t)) \subseteq {t}
    BY ShortSequences DEF When
<1>3. QED
    BY <1>1, <1>2, ShortSequences, TaskKinds DEF StopTimeoutTimer, StartTimeoutTimer, DisconnectPosts

LEMMA ConcatTypes ==
    ASSUME NEW p \in Seq(Task), NEW q \in Seq(Task)
    PROVE  p \o q \in Seq(Task) /\ Elements(p \o q) = Elements(p) \cup Elements(q)
BY ConcatElements

LEMMA BackOffTypes == TypeOK => BackOff(m_reconnectInterval) \in -IntMax - 1 .. IntMax
BY ClientAssumption DEF TypeOK, BackOff, Doubled

\* The kinds of step, and their effect on the members that TypeInv types.
LEMMA TypeStep == TypeInv /\ [Next]_vars => TypeInv'
<1> SUFFICES ASSUME TypeInv, [Next]_vars PROVE TypeInv'
    OBVIOUS
<1> USE DEF ConnectState, TcpLife, TimerLife, pointers, intervals, history, appVars, taskVars
<1>a. /\ TypeOK /\ Queues(Task) /\ HostSet /\ TakenInTurn
      /\ Null \notin Handles /\ Null \notin Timers /\ Null \notin Hosts /\ MaxCalls \in Nat
      /\ "app" \in Callers /\ "loop" \in Callers
    BY ClientAssumption DEF TypeInv, Callers
<1>b. UNCHANGED backlog => QueueTypes' /\ QueuedTasks' = QueuedTasks
    BY <1>a DEF QueueTypes, Queues, QueuedTasks
<1>1. ASSUME NEW c \in Callers, NEW host \in Hosts, AppConnect(c, host) PROVE TypeInv'
  <2>1. <<ConnectTask(host)>> \in Seq(Task) /\ Elements(<<ConnectTask(host)>>) = {ConnectTask(host)}
    BY TaskKinds, ShortSequences
  <2>a. StartReconnect # ConnectTask(host)
    BY DEF StartReconnect, ConnectTask
  <2>2. QueueTypes' /\ (StartReconnect \in QueuedTasks' => StartReconnect \in QueuedTasks)
    BY <1>1, <1>a, <2>1, <2>a, PostTypes DEF AppConnect
  <2>3. QED
    BY <1>1, <1>a, <2>2 DEF AppConnect, Call, TypeInv, TypeOK, QueueTypes, HostSet, TakenInTurn
<1>2. ASSUME NEW c \in Callers, AppSend(c) PROVE TypeInv'
  <2>1. <<SendTask>> \in Seq(Task) /\ Elements(<<SendTask>>) = {SendTask}
    BY TaskKinds, ShortSequences
  <2>2. QueueTypes' /\ (StartReconnect \in QueuedTasks' => StartReconnect \in QueuedTasks)
    BY <1>2, <1>a, <2>1, PostTypes, TaskKinds DEF AppSend
  <2>3. QED
    BY <1>2, <1>a, <2>2 DEF AppSend, Call, TypeInv, TypeOK, QueueTypes, HostSet, TakenInTurn
<1>3. ASSUME NEW c \in Callers, NEW on \in BOOLEAN, AppSetReceiveTimeout(c, on) PROVE TypeInv'
  <2>1. /\ StopTimeoutTimer \o StartTimeoutTimer(on) \in Seq(Task)
        /\ StartReconnect \notin Elements(StopTimeoutTimer \o StartTimeoutTimer(on))
    BY <1>a, PostsTypes, ConcatTypes, TaskKinds
  <2>2. QueueTypes' /\ (StartReconnect \in QueuedTasks' => StartReconnect \in QueuedTasks)
    BY <1>3, <1>a, <2>1, PostTypes DEF AppSetReceiveTimeout
  <2>3. /\ calls' \in 0..MaxCalls /\ timeoutSet' \in BOOLEAN
        /\ UNCHANGED <<m_state, m_host, pointers, intervals, tcp, timer, draining, appPc, copied, taken,
                       torn, wanted, dropped>>
    BY <1>3, <1>a DEF AppSetReceiveTimeout, Call, TypeOK
  <2>4. crossed' \in BOOLEAN
    <3> DEFINE late == on /\ \E d \in Callers \ {c} : ~Restarted(backlog[d])
    <3>1. crossed' = (crossed \/ late)
      BY <1>3 DEF AppSetReceiveTimeout
    <3> HIDE DEF late
    <3>2. QED BY <3>1
  <2>5. QED BY <1>a, <2>2, <2>3, <2>4 DEF TypeInv, TypeOK, QueueTypes, HostSet, TakenInTurn
<1>4. ASSUME NEW c \in Callers, NEW s \in Settings, AppSetReconnectInterval(c, s[1], s[2])
      PROVE  TypeInv'
  <2>1. s[1] \in -IntMax - 1 .. IntMax /\ s[2] \in -IntMax - 1 .. IntMax
    BY ClientAssumption
  <2>2. QED
    BY <1>4, <1>a, <1>b, <2>1
       DEF AppSetReconnectInterval, Call, TypeInv, TypeOK, QueueTypes, HostSet, TakenInTurn
<1>5. CASE AppDisconnect
  <2>1. /\ DisconnectPosts \in Seq(Task) /\ backlog' = Posted("loop", DisconnectPosts)
        /\ StartReconnect \notin Elements(DisconnectPosts)
    <3>1. CloseTask(m_tcpHandle, {m_reconnectTimer, m_receiveTimeoutTimer}).op = "close"
      BY DEF CloseTask
    <3>2. QED BY <1>5, <1>a, <3>1, PostsTypes, TaskKinds DEF AppDisconnect
  <2>2. QueueTypes' /\ (StartReconnect \in QueuedTasks' => StartReconnect \in QueuedTasks)
    BY <1>a, <2>1, PostTypes
  <2>3. /\ calls' \in 0..MaxCalls /\ wanted' = FALSE /\ dropped' = TRUE
        /\ UNCHANGED <<m_host, intervals, timeoutSet, tcp, timer, draining, appPc, copied, taken, torn,
                       crossed>>
    BY <1>5, <1>a DEF AppDisconnect, Dropped, Call, TypeOK
  <2>4. /\ m_state' = "DISCONNECTED"
        /\ m_tcpHandle' \in Handles \cup {Null} /\ m_reconnectTimer' \in ReconnectTimers \cup {Null}
        /\ m_receiveTimeoutTimer' \in TimeoutTimers \cup {Null}
    BY <1>5, <1>a DEF AppDisconnect, Disconnect, ForgetPointers, TypeOK
  <2>5. QED BY <1>a, <2>2, <2>3, <2>4 DEF TypeInv, TypeOK, QueueTypes, HostSet, TakenInTurn
<1>6. CASE DisconnectLoad
  <2>1. /\ calls' \in 0..MaxCalls /\ wanted' = FALSE /\ dropped' = TRUE
        /\ appPc = "idle" /\ appPc' \in {"idle", "store"}
        /\ UNCHANGED <<m_state, m_host, pointers, intervals, timeoutSet, tcp, timer, taskVars, copied,
                       taken, torn, crossed>>
    BY <1>6, <1>a DEF DisconnectLoad, Dropped, Call, TypeOK
  <2>2. QED
    BY <1>a, <1>b, <2>1 DEF TypeInv, TypeOK, QueueTypes, HostSet, TakenInTurn, DisconnectPcs
<1>7. CASE DisconnectStore
    BY <1>7, <1>a, <1>b
       DEF DisconnectStore, TypeInv, TypeOK, QueueTypes, HostSet, TakenInTurn, DisconnectPcs
<1>8. CASE DisconnectCopyTcp \/ DisconnectCopyTimeout \/ DisconnectCopyReconnect
  <2>1. UNCHANGED <<m_state, m_host, pointers, intervals, timeoutSet, tcp, timer, taskVars, taken,
                    history, calls>>
    BY <1>8
       DEF DisconnectCopyTcp, DisconnectCopyTimeout, DisconnectCopyReconnect, DisconnectCopy
  <2>2. \/ appPc = "copyTcp" /\ appPc' = "clearTcp" /\ copied' = m_tcpHandle
        \/ appPc = "copyTimeout" /\ appPc' = "clearTimeout" /\ copied' = m_receiveTimeoutTimer
        \/ appPc = "copyReconnect" /\ appPc' = "clearReconnect" /\ copied' = m_reconnectTimer
    BY <1>8
       DEF DisconnectCopyTcp, DisconnectCopyTimeout, DisconnectCopyReconnect, DisconnectCopy
  <2>3. QED
    BY <1>a, <1>b, <2>1, <2>2 DEF TypeInv, TypeOK, QueueTypes, HostSet, TakenInTurn, DisconnectPcs
<1>9. CASE DisconnectClearTcp \/ DisconnectClearTimeout \/ DisconnectClearReconnect
  <2> USE DEF DisconnectClearTcp, DisconnectClearTimeout, DisconnectClearReconnect, DisconnectClear
  <2>1. /\ UNCHANGED <<m_state, m_host, intervals, timeoutSet, tcp, timer, taskVars, wanted, dropped,
                       calls>>
        /\ copied' = Null /\ crossed' \in BOOLEAN
    BY <1>9, <1>a DEF TypeOK
  <2>2. /\ m_tcpHandle' \in {m_tcpHandle, Null} /\ m_reconnectTimer' \in {m_reconnectTimer, Null}
        /\ m_receiveTimeoutTimer' \in {m_receiveTimeoutTimer, Null}
    BY <1>9
  <2>3. /\ torn' \subseteq Handles \cup Timers
        /\ taken' \in [tcp : Handles \cup {Null}, timers : SUBSET Timers]
    BY <1>9, <1>a DEF TypeOK, Timers
  <2>4. appPc' \in {"copyTimeout", "copyReconnect", "post"}
    BY <1>9
  <2>5. QED
    BY <1>a, <1>b, <2>1, <2>2, <2>3, <2>4
       DEF TypeInv, TypeOK, QueueTypes, HostSet, TakenInTurn, DisconnectPcs
<1>29. CASE DisconnectPost
  <2>1. /\ CloseTask(taken.tcp, taken.timers) \in Task
        /\ CloseTask(taken.tcp, taken.timers).op = "close"
    <3>1. taken.tcp \in Handles \cup {Null} /\ taken.timers \in SUBSET (Timers \cup {Null})
      BY <1>a DEF TypeOK
    <3>2. QED BY <3>1, TaskKinds
  <2>2. /\ <<CloseTask(taken.tcp, taken.timers)>> \in Seq(Task)
        /\ StartReconnect \notin Elements(<<CloseTask(taken.tcp, taken.timers)>>)
    BY <2>1, ShortSequences, TaskKinds
  <2>3. QueueTypes' /\ (StartReconnect \in QueuedTasks' => StartReconnect \in QueuedTasks)
    BY <1>29, <1>a, <2>2, PostTypes DEF DisconnectPost
  <2>4. taken' \in [tcp : Handles \cup {Null}, timers : SUBSET Timers] /\ taken' = NothingTaken
    BY <1>29 DEF DisconnectPost, NothingTaken
  <2>5. QED
    BY <1>29, <1>a, <2>3, <2>4 DEF DisconnectPost, TypeInv, TypeOK, QueueTypes, HostSet, TakenInTurn
<1>10. ASSUME NEW c \in Callers, AppDestroy(c) PROVE TypeInv'
  <2> DEFINE a == When(m_tcpHandle # Null, CloseTask(m_tcpHandle, {}))
             b == When(m_reconnectTimer # Null, CloseTask(Null, {m_reconnectTimer}))
             d == When(m_receiveTimeoutTimer # Null, CloseTask(Null, {m_receiveTimeoutTimer}))
  <2>1. /\ CloseTask(m_tcpHandle, {}) \in Task
        /\ CloseTask(Null, {m_reconnectTimer}) \in Task
        /\ CloseTask(Null, {m_receiveTimeoutTimer}) \in Task
    <3>1. /\ {} \in SUBSET (Timers \cup {Null}) /\ {m_reconnectTimer} \in SUBSET (Timers \cup {Null})
          /\ {m_receiveTimeoutTimer} \in SUBSET (Timers \cup {Null})
      BY <1>a DEF TypeOK, Timers
    <3>2. QED BY <1>a, <3>1, TaskKinds DEF TypeOK
  <2>2. /\ a \in Seq(Task) /\ b \in Seq(Task) /\ d \in Seq(Task)
        /\ Elements(a) \subseteq {CloseTask(m_tcpHandle, {})}
        /\ Elements(b) \subseteq {CloseTask(Null, {m_reconnectTimer})}
        /\ Elements(d) \subseteq {CloseTask(Null, {m_receiveTimeoutTimer})}
    BY <2>1, ShortSequences DEF When
  <2>3. backlog' = Posted(c, a \o b \o d)
    BY <1>10 DEF AppDestroy
  <2> HIDE DEF a, b, d
  <2>4. /\ a \o b \o d \in Seq(Task)
        /\ Elements(a \o b \o d) = Elements(a) \cup Elements(b) \cup Elements(d)
    <3>1. a \o b \in Seq(Task) /\ Elements(a \o b) = Elements(a) \cup Elements(b)
      BY <2>2, ConcatTypes
    <3>2. QED BY <2>2, <3>1, ConcatTypes
  <2>5. StartReconnect \notin Elements(a \o b \o d)
    BY <2>2, <2>4 DEF StartReconnect, CloseTask
  <2>6. QueueTypes' /\ (StartReconnect \in QueuedTasks' => StartReconnect \in QueuedTasks)
    BY <1>a, <2>3, <2>4, <2>5, PostTypes
  <2>7. /\ calls' \in 0..MaxCalls
        /\ m_tcpHandle' = Null /\ m_reconnectTimer' = Null /\ m_receiveTimeoutTimer' = Null
        /\ appPc = "idle" /\ appPc' = "destroyed"
        /\ UNCHANGED <<m_state, m_host, intervals, timeoutSet, tcp, timer, draining, copied, taken,
                       history>>
    BY <1>10, <1>a DEF AppDestroy, Call, TypeOK
  <2>8. QED BY <1>a, <2>6, <2>7 DEF TypeInv, TypeOK, QueueTypes, HostSet, TakenInTurn, DisconnectPcs
<1>c. ASSUME NEW c \in Callers, NEW op, RunTask(c, op, <<>>)
      PROVE  /\ QueueTypes' /\ draining' \in BOOLEAN /\ QueuedTasks' \subseteq QueuedTasks
             /\ op = "connect" => Head(backlog[c]).host \in Hosts
             /\ op = "close" => /\ Head(backlog[c]).tcp \in Handles \cup {Null}
                                /\ Head(backlog[c]).timers \subseteq Timers
             /\ op = "startReconnect" => StartReconnect \in QueuedTasks
  <2>1. <<>> \in Seq(Task) /\ Elements(<<>>) = {}
    BY DEF Elements
  <2>2. Head(backlog[c]) \in Task /\ Head(backlog[c]) \in QueuedTasks /\ Head(backlog[c]).op = op
    BY <1>a, <1>c, <2>1, RunTypes
  <2>3. QueueTypes' /\ draining' \in BOOLEAN /\ QueuedTasks' \subseteq QueuedTasks
    BY <1>a, <1>c, <2>1, RunTypes
  <2>4. QED BY <2>2, <2>3, TaskFields
<1>11. ASSUME NEW c \in Callers, ConnectRefused(c) \/ RunSend(c) PROVE TypeInv'
  <2>1. QueueTypes' /\ draining' \in BOOLEAN /\ QueuedTasks' \subseteq QueuedTasks
    BY <1>11, <1>c DEF ConnectRefused, RunSend
  <2>2. QED
    BY <1>11, <1>a, <2>1 DEF ConnectRefused, RunSend, TypeInv, TypeOK, QueueTypes, HostSet, TakenInTurn
<1>d. \A h \in ConnectHandle : h \in Handles
    BY <1>a DEF ConnectHandle, OwnOrNew, New, TypeOK
<1>12. ASSUME NEW c \in Callers, ConnectBadAddress(c) \/ ConnectStarts(c) PROVE TypeInv'
  <2>1. QueueTypes' /\ draining' \in BOOLEAN /\ Head(backlog[c]).host \in Hosts
    BY <1>12, <1>c DEF ConnectBadAddress, ConnectStarts
  <2>2. m_tcpHandle' \in Handles \cup {Null} /\ tcp' \in [Handles -> TcpLife]
    BY <1>12, <1>a, <1>d DEF ConnectBadAddress, ConnectStarts, TypeOK
  <2>3. m_host' = Head(backlog[c]).host /\ m_state' \in ConnectState
    BY <1>12, <1>a DEF ConnectBadAddress, ConnectStarts, TypeOK
  <2>4. QED
    BY <1>12, <1>a, <2>1, <2>2, <2>3
       DEF ConnectBadAddress, ConnectStarts, TypeInv, TypeOK, QueueTypes, HostSet, TakenInTurn
<1>13. ASSUME NEW c \in Callers, ConnectFailsAtOnce(c) PROVE TypeInv'
  <2>1. <<StartReconnect>> \in Seq(Task) /\ RunTask(c, "connect", <<StartReconnect>>)
    BY <1>13, <1>a, PostsTypes DEF ConnectFailsAtOnce
  <2>2. QueueTypes' /\ draining' \in BOOLEAN /\ Head(backlog[c]).host \in Hosts
    BY <1>a, <2>1, RunTypes, TaskFields
  <2>3. m_tcpHandle' \in Handles \cup {Null} /\ tcp' \in [Handles -> TcpLife]
    BY <1>13, <1>a, <1>d DEF ConnectFailsAtOnce, TypeOK
  <2>4. QED
    BY <1>13, <1>a, <2>2, <2>3 DEF ConnectFailsAtOnce, TypeInv, TypeOK, QueueTypes, HostSet, TakenInTurn
<1>14. ASSUME NEW c \in Callers, RunClose(c) PROVE TypeInv'
  <2>1. QueueTypes' /\ draining' \in BOOLEAN /\ QueuedTasks' \subseteq QueuedTasks
    BY <1>14, <1>c DEF RunClose
  <2>2. /\ tcp' \in [Handles -> TcpLife] /\ timer' \in [Timers -> TimerLife]
        /\ \A h \in Handles : tcp[h] \in {"free", "closing"} => tcp'[h] \in {"free", "closing"}
        /\ \A t \in Timers : timer[t] # "armed" => timer'[t] # "armed"
    BY <1>14, <1>a DEF RunClose, Closed, TypeOK
  <2>3. QED BY <1>14, <1>a, <2>1, <2>2 DEF RunClose, TypeInv, TypeOK, QueueTypes, HostSet, TakenInTurn
<1>15. ASSUME NEW c \in Callers, RunStartReconnect(c) PROVE TypeInv'
  <2>1. /\ QueueTypes' /\ draining' \in BOOLEAN /\ QueuedTasks' \subseteq QueuedTasks
        /\ StartReconnect \in QueuedTasks
    BY <1>15, <1>c DEF RunStartReconnect
  <2>2. \A t \in OwnOrNew(m_reconnectTimer, ReconnectTimers, timer) : t \in ReconnectTimers
    BY <1>a DEF OwnOrNew, New, TypeOK
  <2>3. /\ m_reconnectTimer' \in ReconnectTimers \cup {Null}
        /\ timer' \in [Timers -> TimerLife]
    BY <1>15, <1>a, <2>2 DEF RunStartReconnect, Started, TypeOK
  <2>4. QED BY <1>15, <1>a, <2>1, <2>3 DEF RunStartReconnect, TypeInv, TypeOK, QueueTypes, HostSet, TakenInTurn
<1>16. ASSUME NEW c \in Callers, RunStartTimeout(c) PROVE TypeInv'
  <2>1. QueueTypes' /\ draining' \in BOOLEAN /\ QueuedTasks' \subseteq QueuedTasks
    BY <1>16, <1>c DEF RunStartTimeout
  <2>2. \A t \in OwnOrNew(m_receiveTimeoutTimer, TimeoutTimers, timer) : t \in TimeoutTimers
    BY <1>a DEF OwnOrNew, New, TypeOK
  <2>3. /\ m_receiveTimeoutTimer' \in TimeoutTimers \cup {Null}
        /\ timer' \in [Timers -> TimerLife]
        /\ m_state # "CONNECTED" => UNCHANGED timer
    BY <1>16, <1>a, <2>2 DEF RunStartTimeout, Started, TypeOK
  <2>4. QED BY <1>16, <1>a, <2>1, <2>3 DEF RunStartTimeout, TypeInv, TypeOK, QueueTypes, HostSet, TakenInTurn
<1>17. ASSUME NEW c \in Callers, RunStopTimeout(c) PROVE TypeInv'
  <2>1. QueueTypes' /\ draining' \in BOOLEAN /\ QueuedTasks' \subseteq QueuedTasks
    BY <1>17, <1>c DEF RunStopTimeout
  <2>2. timer' \in [Timers -> TimerLife] /\ \A t \in Timers : timer[t] # "armed" => timer'[t] # "armed"
    BY <1>17, <1>a DEF RunStopTimeout, TypeOK
  <2>3. QED BY <1>17, <1>a, <2>1, <2>2 DEF RunStopTimeout, TypeInv, TypeOK, QueueTypes, HostSet, TakenInTurn
<1>e. DisconnectPosts \o <<StartReconnect>> \in Seq(Task)
    BY <1>a, PostsTypes, ConcatTypes
<1>18. ASSUME NEW c \in Callers, RunSendOverflow(c) PROVE TypeInv'
  <2>1. QueueTypes' /\ draining' \in BOOLEAN
    BY <1>18, <1>a, <1>e, RunTypes DEF RunSendOverflow
  <2>2. QED
    BY <1>18, <1>a, <2>1
       DEF RunSendOverflow, Disconnect, ForgetPointers, TypeInv, TypeOK, QueueTypes, HostSet, TakenInTurn
<1>f. ASSUME NEW tasks \in Seq(Task), LoopTurn(tasks)
      PROVE  QueueTypes' /\ UNCHANGED draining /\ QueuedTasks' = QueuedTasks \cup Elements(tasks)
    BY <1>a, <1>f, TurnTypes
<1>g. \A on \in BOOLEAN : StopTimeoutTimer \o StartTimeoutTimer(on) \in Seq(Task)
    BY <1>a, PostsTypes, ConcatTypes
<1>h. <<>> \in Seq(Task) /\ Elements(<<>>) = {} /\ <<StartReconnect>> \in Seq(Task)
    BY <1>a, PostsTypes
<1>i. timeoutSet \in BOOLEAN
    BY <1>a DEF TypeOK
<1>19. ASSUME NEW h \in Handles, ConnectSucceeds(h) PROVE TypeInv'
  <2>1. QueueTypes' /\ UNCHANGED draining
    BY <1>19, <1>f, <1>g, <1>i DEF ConnectSucceeds, Event, Callback
  <2>2. m_host # Null
    BY <1>19, <1>a DEF ConnectSucceeds, HostSet
  <2>3. tcp' \in [Handles -> TcpLife]
    BY <1>19, <1>a DEF ConnectSucceeds, TypeOK
  <2>4. QED
    BY <1>19, <1>a, <2>1, <2>2, <2>3
       DEF ConnectSucceeds, Event, Callback, TypeInv, TypeOK, QueueTypes, HostSet, TakenInTurn
<1>20. ASSUME NEW h \in Handles, ConnectFails(h) \/ ConnectCancelled(h) PROVE TypeInv'
  <2>1. QueueTypes' /\ UNCHANGED draining
    BY <1>20, <1>f, <1>h DEF ConnectFails, ConnectCancelled, Event, Callback
  <2>2. m_host # Null /\ m_host' = m_host
    BY <1>20, <1>a DEF ConnectFails, ConnectCancelled, HostSet, Event, Callback
  <2>3. tcp' \in [Handles -> TcpLife]
    BY <1>20, <1>a DEF ConnectFails, ConnectCancelled, TypeOK
  <2>4. /\ m_state' \in ConnectState
        /\ UNCHANGED <<pointers, timer, timeoutSet, appVars, m_initialReconnectInterval,
                       m_maxReconnectInterval>>
        /\ m_reconnectInterval' = BackOff(m_reconnectInterval)
    BY <1>20 DEF ConnectFails, ConnectCancelled, ConnectFailed, Event, Callback
  <2>5. BackOff(m_reconnectInterval) \in -IntMax - 1 .. IntMax
    BY <1>a, BackOffTypes
  <2>6. QED BY <1>a, <2>1, <2>2, <2>3, <2>4, <2>5 DEF TypeInv, TypeOK, QueueTypes, HostSet, TakenInTurn
<1>21. ASSUME NEW h \in Handles, HandleClosed(h) PROVE TypeInv'
  <2>1. QueueTypes' /\ UNCHANGED draining /\ QueuedTasks' = QueuedTasks
    BY <1>21, <1>f, <1>h DEF HandleClosed, Callback
  <2>2. QED BY <1>21, <1>a, <2>1 DEF HandleClosed, Callback, TypeInv, TypeOK, QueueTypes, HostSet, TakenInTurn
<1>22. ASSUME NEW t \in Timers, TimerClosed(t) PROVE TypeInv'
  <2>1. QueueTypes' /\ UNCHANGED draining /\ QueuedTasks' = QueuedTasks
    BY <1>22, <1>f, <1>h DEF TimerClosed, Callback
  <2>2. QED BY <1>22, <1>a, <2>1 DEF TimerClosed, Callback, TypeInv, TypeOK, QueueTypes, HostSet, TakenInTurn
<1>23. ASSUME NEW t \in ReconnectTimers, ReconnectFires(t) PROVE TypeInv'
  <2>1. m_host \in Hosts /\ m_host # Null
    BY <1>23, <1>a DEF ReconnectFires, HostSet, TypeOK, Timers
  <2>2. When(m_state = "DISCONNECTED", ConnectTask(m_host)) \in Seq(Task)
    BY <2>1, TaskKinds DEF When
  <2>3. QueueTypes' /\ UNCHANGED draining
    BY <1>23, <1>f, <2>2 DEF ReconnectFires, Event, Callback
  <2>4. QED
    BY <1>23, <1>a, <2>1, <2>3
       DEF ReconnectFires, Event, Callback, TypeInv, TypeOK, QueueTypes, HostSet, TakenInTurn, Timers
<1>24. ASSUME NEW t \in TimeoutTimers, TimeoutFires(t) PROVE TypeInv'
  <2>1. m_host # Null
    BY <1>24, <1>a DEF TimeoutFires, HostSet, Timers
  <2>2. QueueTypes' /\ UNCHANGED draining
    BY <1>24, <1>f, <1>e DEF TimeoutFires, Event, Callback
  <2>3. QED
    BY <1>24, <1>a, <2>1, <2>2
       DEF TimeoutFires, Disconnect, ForgetPointers, Event, Callback, TypeInv, TypeOK, QueueTypes,
           HostSet, TakenInTurn, Timers
<1>25. ASSUME NEW h \in Handles, DataArrives(h) PROVE TypeInv'
  <2>1. m_host # Null
    BY <1>25, <1>a DEF DataArrives, HostSet
  <2>2. QueueTypes' /\ UNCHANGED draining
    BY <1>25, <1>f, <1>g, <1>i DEF DataArrives, Event, Callback
  <2>3. QED
    BY <1>25, <1>a, <2>1, <2>2
       DEF DataArrives, Event, Callback, TypeInv, TypeOK, QueueTypes, HostSet, TakenInTurn
<1>26. ASSUME NEW h \in Handles, ConnectionEnds(h) PROVE TypeInv'
  <2>1. m_host # Null
    BY <1>26, <1>a DEF ConnectionEnds, HostSet
  <2>2. QueueTypes' /\ UNCHANGED draining
    BY <1>26, <1>f, <1>e DEF ConnectionEnds, Event, Callback
  <2>3. QED
    BY <1>26, <1>a, <2>1, <2>2
       DEF ConnectionEnds, Disconnect, ForgetPointers, Event, Callback, TypeInv, TypeOK, QueueTypes,
           HostSet, TakenInTurn
<1>27. CASE UNCHANGED vars
    BY <1>27, <1>a, <1>b DEF vars, TypeInv, TypeOK, QueueTypes, HostSet, TakenInTurn
<1>28. QED
    BY <1>1, <1>2, <1>3, <1>4, <1>5, <1>6, <1>7, <1>8, <1>9, <1>10, <1>11, <1>12, <1>13, <1>14,
       <1>15, <1>16, <1>17, <1>18, <1>19, <1>20, <1>21, <1>22, <1>23, <1>24, <1>25, <1>26, <1>27,
       <1>29
       DEF Next, AppNext, DisconnectNext, TaskNext, CloseCallbacks, Answered

\* Every variable of the client keeps its type, on however many threads its
\* functions are called; a pointer never leads to an object of another kind.
THEOREM TypeCorrect == Spec => []TypeOK
<1>1. TypeInv => TypeOK
    BY DEF TypeInv
<1>2. QED BY TypeInit, TypeStep, <1>1, PTL DEF Spec

(***************************************************************************)
(* The reconnect interval.  If no interval that is accepted overflows when *)
(* it is doubled, the interval never leaves its limits.                    *)
(***************************************************************************)
NoOverflow ==
    /\ 2 * DefaultMax <= IntMax
    /\ \A s \in Settings : s[1] > 0 /\ s[2] >= s[1] => 2 * s[2] <= IntMax

Intervals ==
    /\ BackoffInRange
    /\ m_initialReconnectInterval > 0
    /\ 2 * m_maxReconnectInterval <= IntMax

LEMMA IntervalsStep ==
    ASSUME NoOverflow, TypeInv, Intervals, [Next]_vars
    PROVE  Intervals'
<1>a. /\ m_reconnectInterval \in Int /\ m_initialReconnectInterval \in Int
      /\ m_maxReconnectInterval \in Int /\ IntMax \in Nat
    BY ClientAssumption DEF TypeInv, TypeOK
<1>1. ASSUME UNCHANGED intervals PROVE Intervals'
    BY <1>1 DEF intervals, Intervals, BackoffInRange
<1>2. ASSUME NEW c \in Callers, NEW s \in Settings, AppSetReconnectInterval(c, s[1], s[2])
      PROVE  Intervals'
  <2>1. s[1] \in Int /\ s[2] \in Int
    BY ClientAssumption
  <2>2. CASE s[1] > 0 /\ s[2] >= s[1]
    BY <1>2, <2>1, <2>2 DEF AppSetReconnectInterval, NoOverflow, Intervals, BackoffInRange
  <2>3. CASE ~(s[1] > 0 /\ s[2] >= s[1])
    BY <1>1, <1>2, <2>3 DEF AppSetReconnectInterval
  <2>4. QED BY <2>2, <2>3
<1>3. ASSUME NEW h \in Handles, ConnectSucceeds(h) PROVE Intervals'
    BY <1>3, <1>a DEF ConnectSucceeds, Intervals, BackoffInRange
<1>4. ASSUME NEW h \in Handles, ConnectFails(h) \/ ConnectCancelled(h) PROVE Intervals'
    BY <1>4, <1>a
       DEF ConnectFails, ConnectCancelled, ConnectFailed, BackOff, Doubled, Intervals, BackoffInRange
<1>5. ASSUME \/ \E c \in Callers :
                \/ \E host \in Hosts : AppConnect(c, host)
                \/ \E on \in BOOLEAN : AppSetReceiveTimeout(c, on)
                \/ AppSend(c) \/ AppDestroy(c) \/ TaskNext(c)
             \/ AppDisconnect \/ DisconnectLoad \/ DisconnectNext
             \/ CloseCallbacks
             \/ \E h \in Handles : DataArrives(h) \/ ConnectionEnds(h)
             \/ \E t \in Timers : ReconnectFires(t) \/ TimeoutFires(t)
      PROVE  UNCHANGED intervals
    BY <1>5
       DEF AppConnect, AppSend, AppDisconnect, AppDestroy, DisconnectLoad, AppSetReceiveTimeout,
           DisconnectNext, DisconnectStore, DisconnectCopyTcp, DisconnectCopyTimeout,
           DisconnectCopyReconnect, DisconnectCopy, DisconnectClearTcp, DisconnectClearTimeout,
           DisconnectClearReconnect, DisconnectClear, DisconnectPost, TaskNext, ConnectRefused,
           ConnectBadAddress, ConnectStarts, ConnectFailsAtOnce, RunClose, RunStartReconnect,
           RunStartTimeout, RunStopTimeout, RunSend, RunSendOverflow, CloseCallbacks, HandleClosed,
           TimerClosed, DataArrives, ConnectionEnds, ReconnectFires, TimeoutFires
<1>6. CASE UNCHANGED vars
    BY <1>1, <1>6 DEF vars
<1>7. QED BY <1>1, <1>2, <1>3, <1>4, <1>5, <1>6 DEF Next, AppNext, Answered, Timers

\* The wait before the next attempt stays between the limits in force, if none
\* that is accepted overflows when it is doubled (CUVTcpClient.cpp:540).
THEOREM BackoffStaysInRange == ASSUME NoOverflow PROVE Spec => []BackoffInRange
<1>1. Init => Intervals
    BY ClientAssumption DEF NoOverflow, Init, Intervals, BackoffInRange
<1>2. TypeInv /\ Intervals /\ [Next]_vars => Intervals'
    BY IntervalsStep
<1>3. Intervals => BackoffInRange
    BY DEF Intervals
<1>4. QED BY TypeInit, TypeStep, <1>1, <1>2, <1>3, PTL DEF Spec

(***************************************************************************)
(* Who keeps a handle or timer, unless a disconnect() on the other thread  *)
(* has torn it.  What exists and is not closing is in one place: with the  *)
(* client, with a disconnect() that is going to post its closure, or with  *)
(* the one queued closure that is about to close it.                       *)
(***************************************************************************)
Objects == Handles \cup Timers

Closers(x) == {task \in Task : task.op = "close" /\ (x = task.tcp \/ x \in task.timers)}

Owned(x) == x \in {m_tcpHandle, m_reconnectTimer, m_receiveTimeoutTimer}

Held(x) == x = taken.tcp \/ x \in taken.timers

Closing(x) == QueuedTasks \cap Closers(x) # {}

Alive(x) == IF x \in Handles THEN tcp[x] \notin {"free", "closing", "cancelled"}
                             ELSE timer[x] \notin {"free", "closing"}

Kept(x) ==
    /\ Alive(x) <=> Owned(x) \/ Held(x) \/ Closing(x)
    /\ ~(Owned(x) /\ Held(x)) /\ ~(Owned(x) /\ Closing(x)) /\ ~(Held(x) /\ Closing(x))
    /\ AtMostOne(Closers(x))

Ownership == \A x \in Objects \ torn : Kept(x)

LEMMA OwnershipInit == Init => Ownership
<1> SUFFICES ASSUME Init, NEW x \in Objects PROVE Kept(x)
    BY DEF Ownership
<1>1. backlog["app"] = <<>> /\ backlog["loop"] = <<>> /\ QueuedTasks = {}
    BY DEF Init, TasksInit, QueuedTasks, Callers
<1>2. AtMostOne(Closers(x))
    BY <1>1 DEF AtMostOne, OneIn, Elements
<1>3. ~Alive(x) /\ ~Owned(x) /\ ~Held(x) /\ ~Closing(x)
    BY <1>1, ClientAssumption DEF Init, Alive, Owned, Held, NothingTaken, Closing, Objects
<1>4. QED BY <1>2, <1>3 DEF Kept

\* Who closes what.
LEMMA CloseTasks ==
    ASSUME TypeOK, NEW x \in Objects
    PROVE  /\ x # Null
           /\ \A task \in Task : task.op # "close" => task \notin Closers(x)
           /\ CloseTask(m_tcpHandle, {m_reconnectTimer, m_receiveTimeoutTimer}) \in Closers(x) <=>
                Owned(x)
<1> DEFINE t == CloseTask(m_tcpHandle, {m_reconnectTimer, m_receiveTimeoutTimer})
<1>1. x # Null
    BY ClientAssumption DEF Objects
<1>2. \A task \in Task : task.op # "close" => task \notin Closers(x)
    BY DEF Closers
<1>3. {m_reconnectTimer, m_receiveTimeoutTimer} \in SUBSET (Timers \cup {Null})
    BY DEF TypeOK, Timers
<1>4. /\ t \in Task /\ t.op = "close" /\ t.tcp = m_tcpHandle
      /\ t.timers = {m_reconnectTimer, m_receiveTimeoutTimer} \ {Null}
  <2>1. ASSUME NEW some \in SUBSET (Timers \cup {Null})
        PROVE  /\ CloseTask(m_tcpHandle, some) \in Task /\ CloseTask(m_tcpHandle, some).op = "close"
               /\ CloseTask(m_tcpHandle, some).tcp = m_tcpHandle
               /\ CloseTask(m_tcpHandle, some).timers = some \ {Null}
    BY TaskKinds DEF TypeOK
  <2>2. QED BY <1>3, <2>1
<1> HIDE DEF t
<1>5. t \in Closers(x) <=> Owned(x)
    BY <1>1, <1>4 DEF Closers, Owned
<1>6. QED BY <1>1, <1>2, <1>5 DEF t

\* Tasks that close nothing join the queues.
LEMMA NothingClosed ==
    ASSUME TypeInv, NEW x \in Objects, Kept(x),
           NEW tasks \in Seq(Task), \A task \in Elements(tasks) : task \notin Closers(x),
           Joining(tasks, Closers(x))
    PROVE  AtMostOne(Closers(x))' /\ (Closing(x)' <=> Closing(x))
<1>1. CanJoin(tasks, Closers(x)) /\ AtMostOne(Closers(x)) /\ Queues(Task)
    BY DEF CanJoin, Kept, TypeInv
<1>2. /\ AtMostOne(Closers(x))'
      /\ QueuedTasks' \cap Closers(x) =
            (QueuedTasks \cap Closers(x)) \cup (Elements(tasks) \cap Closers(x))
    BY <1>1, Joined
<1>3. QueuedTasks' \cap Closers(x) = QueuedTasks \cap Closers(x)
    BY <1>2
<1>4. QED BY <1>2, <1>3 DEF Closing, Closers

\* disconnect(), alone or followed by an attempt to reconnect.
LEMMA Disconnected ==
    ASSUME TypeInv, NEW x \in Objects, Kept(x), Disconnect, Alive(x)' <=> Alive(x),
           UNCHANGED taken,
           NEW tasks, tasks \in {DisconnectPosts, DisconnectPosts \o <<StartReconnect>>},
           Joining(tasks, Closers(x))
    PROVE  Kept(x)'
<1> DEFINE t == CloseTask(m_tcpHandle, {m_reconnectTimer, m_receiveTimeoutTimer})
<1>a. TypeOK /\ Queues(Task)
    BY DEF TypeInv
<1>b. /\ StartReconnect \notin Closers(x)
      /\ t \in Closers(x) <=> Owned(x)
      /\ x # Null
    BY <1>a, CloseTasks, TaskKinds
<1>c. /\ DisconnectPosts \in Seq(Task) /\ <<StartReconnect>> \in Seq(Task)
      /\ Elements(DisconnectPosts) \subseteq {t}
      /\ Elements(<<StartReconnect>>) = {StartReconnect}
    BY <1>a, PostsTypes
<1>d. /\ DisconnectPosts \o <<StartReconnect>> \in Seq(Task)
      /\ Elements(DisconnectPosts \o <<StartReconnect>>) =
            Elements(DisconnectPosts) \cup {StartReconnect}
    BY <1>c, ConcatTypes
<1>e. tasks \in Seq(Task) /\ Elements(tasks) \subseteq {t, StartReconnect}
    BY <1>c, <1>d
<1>f. Held(x)' <=> Held(x)
    BY DEF Held
<1>1. CASE m_state = "DISCONNECTED" \/ ~Owned(x)
  <2>1. \A task \in Elements(tasks) : task \notin Closers(x)
    <3>1. CASE ~Owned(x)
      BY <1>b, <1>e, <3>1
    <3>2. CASE m_state = "DISCONNECTED"
      <4>1. Elements(DisconnectPosts) = {}
        BY <3>2 DEF DisconnectPosts, When, Elements
      <4>2. QED BY <1>b, <1>d, <4>1
    <3>3. QED BY <1>1, <3>1, <3>2
  <2>2. AtMostOne(Closers(x))' /\ (Closing(x)' <=> Closing(x))
    BY <1>e, <2>1, NothingClosed
  <2>3. Owned(x)' <=> Owned(x)
    BY <1>1, <1>b DEF Disconnect, ForgetPointers, Owned, pointers
  <2>4. QED BY <1>f, <2>2, <2>3 DEF Kept
<1>2. CASE m_state # "DISCONNECTED" /\ Owned(x)
  <2>1. DisconnectPosts = <<t>>
    BY <1>2 DEF DisconnectPosts, When
  <2> HIDE DEF t
  <2>2. Elements(DisconnectPosts) = {t} /\ OneIn(DisconnectPosts, Closers(x))
    BY <2>1 DEF Elements, OneIn
  <2>3. OneIn(tasks, Closers(x))
    <3>1. Elements(<<StartReconnect>>) \cap Closers(x) = {}
      BY <1>b, <1>c
    <3>2. OneIn(DisconnectPosts \o <<StartReconnect>>, Closers(x))
      BY <1>c, <2>2, <3>1, ConcatOne
    <3>3. QED BY <2>2, <3>2
  <2>4. QueuedTasks \cap Closers(x) = {} /\ AtMostOne(Closers(x))
    BY <1>2 DEF Kept, Closing
  <2>5. CanJoin(tasks, Closers(x))
    BY <2>3, <2>4 DEF CanJoin
  <2>6. /\ AtMostOne(Closers(x))'
        /\ QueuedTasks' \cap Closers(x) =
              (QueuedTasks \cap Closers(x)) \cup (Elements(tasks) \cap Closers(x))
    BY <1>a, <1>e, <2>4, <2>5, Joined
  <2>7. t \in Elements(tasks)
    BY <1>d, <2>2
  <2>8. Closing(x)'
    BY <1>2, <1>b, <2>6, <2>7 DEF Closing, Closers
  <2>9. ~Owned(x)'
    BY <1>2, <1>b DEF Disconnect, ForgetPointers, Owned
  <2>10. QED BY <1>2, <1>f, <2>6, <2>8, <2>9 DEF Kept
<1>3. QED BY <1>1, <1>2

\* The closure that closes what disconnect() copied.
LEMMA CloseRuns ==
    ASSUME TypeInv, NEW x \in Objects, Kept(x), NEW c \in Callers, RunClose(c)
    PROVE  Kept(x)'
<1> DEFINE task == Head(backlog[c])
<1>1. RunTask(c, "close", <<>>) /\ <<>> \in Seq(Task) /\ Elements(<<>>) = {} /\ Queues(Task)
    BY DEF RunClose, Elements, TypeInv
<1>2. task \in Task /\ task.op = "close" /\ task \in QueuedTasks
    BY <1>1, RunTypes
<1>3. CanJoin(<<>>, Closers(x)) /\ AtMostOne(Closers(x))
    BY <1>1 DEF CanJoin, Kept
<1>4. /\ tcp \in [Handles -> TcpLife] /\ timer \in [Timers -> TimerLife]
      /\ tcp' = [h \in Handles |-> IF h = task.tcp THEN Closed(tcp[h]) ELSE tcp[h]]
      /\ timer' = [t \in Timers |-> IF t \in task.timers THEN "closing" ELSE timer[t]]
      /\ UNCHANGED pointers
    BY DEF RunClose, TypeInv, TypeOK
<1>5. /\ task.tcp \in Handles \cup {Null} /\ task.timers \subseteq Timers
      /\ Handles \cap Timers = {} /\ Null \notin Handles
    BY <1>2, TaskFields, ClientAssumption
<1>6. (Owned(x)' <=> Owned(x)) /\ (Held(x)' <=> Held(x))
    BY <1>4 DEF RunClose, Owned, Held, pointers, appVars
<1>7. CASE task \in Closers(x)
  <2>1. AtMostOne(Closers(x))' /\ QueuedTasks' \cap Closers(x) = {}
    BY <1>1, <1>3, <1>7, RunOne
  <2>2. ~Owned(x) /\ ~Held(x)
    BY <1>2, <1>7 DEF Kept, Closing
  <2>3. ~Alive(x)'
    <3>1. CASE x \in Handles
      <4>1. x = task.tcp
        BY <1>5, <1>7, <3>1 DEF Closers
      <4>2. tcp'[x] \in {"cancelled", "closing"}
        BY <1>4, <3>1, <4>1 DEF Closed
      <4>3. QED BY <3>1, <4>2 DEF Alive
    <3>2. CASE x \notin Handles
      <4>1. x \in Timers /\ x \in task.timers
        BY <1>5, <1>7, <3>2, ClientAssumption DEF Closers, Objects
      <4>2. timer'[x] = "closing"
        BY <1>4, <4>1
      <4>3. QED BY <3>2, <4>2 DEF Alive
    <3>3. QED BY <3>1, <3>2
  <2>4. ~Closing(x)'
    BY <2>1 DEF Closing, Closers
  <2>5. QED BY <1>6, <2>1, <2>2, <2>3, <2>4 DEF Kept
<1>8. CASE task \notin Closers(x)
  <2>1. Joining(<<>>, Closers(x))
    <3>1. RunTask(c, Head(backlog[c]).op, <<>>)
      BY <1>1, <1>2
    <3>2. QED BY <1>8, <3>1 DEF Joining
  <2>2. AtMostOne(Closers(x))' /\ (Closing(x)' <=> Closing(x))
    BY <1>1, <2>1, NothingClosed
  <2>3. x # task.tcp /\ x \notin task.timers
    BY <1>2, <1>8 DEF Closers
  <2>4. Alive(x)' <=> Alive(x)
    BY <1>4, <2>3 DEF Alive, Objects
  <2>5. QED BY <1>6, <2>2, <2>4 DEF Kept
<1>9. QED BY <1>7, <1>8

\* The destructor.
LEMMA Destroyed ==
    ASSUME TypeInv, NEW x \in Objects, Kept(x), ~Held(x), NEW c \in Callers, AppDestroy(c)
    PROVE  Kept(x)'
<1> DEFINE p == CloseTask(m_tcpHandle, {})
           q == CloseTask(Null, {m_reconnectTimer})
           r == CloseTask(Null, {m_receiveTimeoutTimer})
           a == When(m_tcpHandle # Null, p)
           b == When(m_reconnectTimer # Null, q)
           d == When(m_receiveTimeoutTimer # Null, r)
<1>a. /\ TypeOK /\ Queues(Task) /\ x # Null /\ x \in Handles \cup Timers
      /\ Handles \cap Timers = {} /\ ReconnectTimers \cap TimeoutTimers = {}
      /\ Null \notin Handles /\ Null \notin Timers
      /\ Timers = ReconnectTimers \cup TimeoutTimers
    BY ClientAssumption DEF TypeInv, Objects, Timers
<1>b. /\ {} \in SUBSET (Timers \cup {Null}) /\ {m_reconnectTimer} \in SUBSET (Timers \cup {Null})
      /\ {m_receiveTimeoutTimer} \in SUBSET (Timers \cup {Null})
      /\ m_tcpHandle \in Handles \cup {Null}
    BY <1>a DEF TypeOK
<1>c. /\ p \in Task /\ p.op = "close" /\ p.tcp = m_tcpHandle /\ p.timers = {}
      /\ q \in Task /\ q.op = "close" /\ q.tcp = Null /\ q.timers = {m_reconnectTimer} \ {Null}
      /\ r \in Task /\ r.op = "close" /\ r.tcp = Null /\ r.timers = {m_receiveTimeoutTimer} \ {Null}
  <2>1. ASSUME NEW h \in Handles \cup {Null}, NEW some \in SUBSET (Timers \cup {Null})
        PROVE  /\ CloseTask(h, some) \in Task /\ CloseTask(h, some).op = "close"
               /\ CloseTask(h, some).tcp = h /\ CloseTask(h, some).timers = some \ {Null}
    BY TaskKinds
  <2>2. {} \ {Null} = {}
    OBVIOUS
  <2>3. QED BY <1>b, <2>1, <2>2
<1>d. backlog' = Posted(c, a \o b \o d)
    BY DEF AppDestroy
<1>e. QueuedTasks = {}
    BY DEF AppDestroy, Quiet
<1> HIDE DEF p, q, r
<1>1. /\ a \in Seq(Task) /\ Elements(a) = (IF m_tcpHandle # Null THEN {p} ELSE {})
      /\ b \in Seq(Task) /\ Elements(b) = (IF m_reconnectTimer # Null THEN {q} ELSE {})
      /\ d \in Seq(Task) /\ Elements(d) = (IF m_receiveTimeoutTimer # Null THEN {r} ELSE {})
    BY <1>c, ShortSequences DEF When
<1>2. OneIn(a, Closers(x)) /\ OneIn(b, Closers(x)) /\ OneIn(d, Closers(x))
    BY <1>c, ShortSequences DEF When
<1> HIDE DEF a, b, d
<1>3. /\ a \o b \in Seq(Task) /\ Elements(a \o b) = Elements(a) \cup Elements(b)
      /\ a \o b \o d \in Seq(Task)
      /\ Elements(a \o b \o d) = Elements(a) \cup Elements(b) \cup Elements(d)
  <2>1. a \o b \in Seq(Task) /\ Elements(a \o b) = Elements(a) \cup Elements(b)
    BY <1>1, ConcatTypes
  <2>2. QED BY <1>1, <2>1, ConcatTypes
<1>4. /\ x = m_tcpHandle => Elements(b) \cap Closers(x) = {} /\ Elements(d) \cap Closers(x) = {}
      /\ x # m_tcpHandle => Elements(a) \cap Closers(x) = {}
      /\ x = m_reconnectTimer => Elements(d) \cap Closers(x) = {}
      /\ x # m_reconnectTimer => Elements(b) \cap Closers(x) = {}
      /\ x # m_receiveTimeoutTimer => Elements(d) \cap Closers(x) = {}
  <2>1. p \in Closers(x) => x = m_tcpHandle
    BY <1>a, <1>c DEF Closers
  <2>2. q \in Closers(x) => x = m_reconnectTimer
    BY <1>a, <1>c DEF Closers
  <2>3. r \in Closers(x) => x = m_receiveTimeoutTimer
    BY <1>a, <1>c DEF Closers
  <2>4. /\ ~(x = m_tcpHandle /\ (x = m_reconnectTimer \/ x = m_receiveTimeoutTimer))
        /\ ~(x = m_reconnectTimer /\ x = m_receiveTimeoutTimer)
    BY <1>a DEF TypeOK
  <2>5. QED BY <1>1, <2>1, <2>2, <2>3, <2>4
<1>5. OneIn(a \o b \o d, Closers(x))
  <2>1. OneIn(a \o b, Closers(x))
    BY <1>1, <1>2, <1>4, ConcatOne
  <2>2. \/ Elements(d) \cap Closers(x) = {}
        \/ Elements(a \o b) \cap Closers(x) = {}
    <3>1. CASE x = m_receiveTimeoutTimer
      <4>1. x # m_tcpHandle /\ x # m_reconnectTimer
        BY <1>a, <3>1 DEF TypeOK
      <4>2. QED BY <1>3, <1>4, <4>1
    <3>2. QED BY <1>4, <3>1
  <2>3. QED BY <1>1, <1>2, <1>3, <2>1, <2>2, ConcatOne
<1>6. CanJoin(a \o b \o d, Closers(x)) /\ AtMostOne(Closers(x))
    BY <1>e, <1>5 DEF CanJoin, Kept
<1>7. Joining(a \o b \o d, Closers(x))
    BY <1>d DEF Joining
<1>8. /\ AtMostOne(Closers(x))'
      /\ QueuedTasks' \cap Closers(x) = Elements(a \o b \o d) \cap Closers(x)
  <2>1. /\ AtMostOne(Closers(x))'
        /\ QueuedTasks' \cap Closers(x) =
              (QueuedTasks \cap Closers(x)) \cup (Elements(a \o b \o d) \cap Closers(x))
    BY <1>a, <1>3, <1>6, <1>7, Joined
  <2>2. QED BY <1>e, <2>1
<1>9. Owned(x) => Elements(a \o b \o d) \cap Closers(x) # {}
  <2>1. x = m_tcpHandle => p \in Elements(a) /\ p \in Closers(x)
    BY <1>a, <1>c, <1>1 DEF Closers
  <2>2. x = m_reconnectTimer => q \in Elements(b) /\ q \in Closers(x)
    BY <1>a, <1>c, <1>1 DEF Closers
  <2>3. x = m_receiveTimeoutTimer => r \in Elements(d) /\ r \in Closers(x)
    BY <1>a, <1>c, <1>1 DEF Closers
  <2>4. QED BY <1>3, <2>1, <2>2, <2>3 DEF Owned
<1>10. ~Owned(x) => Elements(a \o b \o d) \cap Closers(x) = {}
    BY <1>3, <1>4 DEF Owned
<1>11. Closing(x)' <=> Owned(x)
    BY <1>8, <1>9, <1>10 DEF Closing, Closers
<1>12. ~Owned(x)' /\ ~Held(x)' /\ (Alive(x)' <=> Alive(x))
    BY <1>a DEF AppDestroy, Owned, Held, Alive
<1>13. Alive(x) <=> Owned(x)
    BY <1>e DEF Kept, Closing
<1>14. QED BY <1>8, <1>11, <1>12, <1>13 DEF Kept

\* What is torn stays torn.
LEMMA TornStays == [Next]_vars => torn \subseteq torn'
BY DEF vars, appVars, history, Next, AppNext, AppConnect, AppSend, AppSetReceiveTimeout,
       AppSetReconnectInterval, AppDestroy, AppDisconnect, DisconnectLoad, DisconnectNext,
       DisconnectStore, DisconnectCopyTcp, DisconnectCopyTimeout, DisconnectCopyReconnect,
       DisconnectCopy, DisconnectClearTcp, DisconnectClearTimeout, DisconnectClearReconnect,
       DisconnectClear, DisconnectPost, TaskNext, ConnectRefused, ConnectBadAddress, ConnectStarts,
       ConnectFailsAtOnce, RunClose, RunStartReconnect, RunStartTimeout, RunStopTimeout, RunSend,
       RunSendOverflow, CloseCallbacks, HandleClosed, TimerClosed, Answered, ConnectSucceeds,
       ConnectFails, ConnectCancelled, DataArrives, ConnectionEnds, ReconnectFires, TimeoutFires,
       Event, Callback

\* Only the disconnect() of the other thread changes what it has taken.
TakingSteps == DisconnectClearTcp \/ DisconnectClearTimeout \/ DisconnectClearReconnect \/ DisconnectPost

LEMMA TakenStays == [Next]_vars /\ ~TakingSteps => UNCHANGED taken
BY DEF TakingSteps, vars, appVars, Next, AppNext, AppConnect, AppSend, AppSetReceiveTimeout,
       AppSetReconnectInterval, AppDestroy, AppDisconnect, DisconnectLoad, DisconnectNext,
       DisconnectStore, DisconnectCopyTcp, DisconnectCopyTimeout, DisconnectCopyReconnect,
       DisconnectCopy, TaskNext, ConnectRefused, ConnectBadAddress, ConnectStarts,
       ConnectFailsAtOnce, RunClose, RunStartReconnect, RunStartTimeout, RunStopTimeout, RunSend,
       RunSendOverflow, CloseCallbacks, HandleClosed, TimerClosed, Answered, ConnectSucceeds,
       ConnectFails, ConnectCancelled, DataArrives, ConnectionEnds, ReconnectFires, TimeoutFires,
       Event, Callback

\* The other thread takes an object from the client, unless it tears it.
LEMMA Cleared ==
    ASSUME TypeInv, NEW x \in Objects, Kept(x), x \notin torn',
           DisconnectClearTcp \/ DisconnectClearTimeout \/ DisconnectClearReconnect
    PROVE  Kept(x)'
<1> USE DEF DisconnectClearTcp, DisconnectClearTimeout, DisconnectClearReconnect, DisconnectClear
<1>a. /\ TypeOK /\ x # Null /\ x \in Handles \cup Timers /\ Handles \cap Timers = {}
      /\ ReconnectTimers \cap TimeoutTimers = {} /\ Timers = ReconnectTimers \cup TimeoutTimers
      /\ Null \notin Handles /\ Null \notin Timers
    BY ClientAssumption DEF TypeInv, Objects, Timers
<1>b. /\ m_tcpHandle \in Handles \cup {Null} /\ m_reconnectTimer \in ReconnectTimers \cup {Null}
      /\ m_receiveTimeoutTimer \in TimeoutTimers \cup {Null}
      /\ taken \in [tcp : Handles \cup {Null}, timers : SUBSET Timers]
    BY <1>a DEF TypeOK
<1>1. /\ UNCHANGED <<tcp, timer, backlog>>
      /\ (Alive(x)' <=> Alive(x)) /\ (Closing(x)' <=> Closing(x)) /\ AtMostOne(Closers(x))'
  <2>1. UNCHANGED <<tcp, timer, backlog>>
    BY DEF taskVars
  <2>2. QED BY <2>1 DEF Kept, Alive, Closing, Closers, AtMostOne, OneIn, Elements, QueuedTasks
<1>2. \/ Owned(x)' /\ Owned(x) /\ (Held(x)' <=> Held(x))
      \/ ~Owned(x)' /\ ~Owned(x) /\ (Held(x)' <=> Held(x))
      \/ ~Owned(x)' /\ Owned(x) /\ Held(x)'
  <2>1. CASE DisconnectClearTcp
    <3>1. taken.tcp = Null
      BY <2>1 DEF TypeInv, TakenInTurn, NothingTaken, DisconnectPcs
    <3>2. /\ taken' = [taken EXCEPT !.tcp = copied] /\ m_tcpHandle' = Null
          /\ UNCHANGED <<m_reconnectTimer, m_receiveTimeoutTimer>>
          /\ x = m_tcpHandle \/ x = copied => m_tcpHandle = copied
      BY <2>1, <1>a
    <3>3. taken'.tcp = copied /\ taken'.timers = taken.timers
      BY <1>b, <3>2
    <3>4. CASE x = m_tcpHandle
      BY <1>a, <1>b, <3>2, <3>3, <3>4 DEF Owned, Held
    <3>5. CASE x # m_tcpHandle
      BY <1>a, <1>b, <3>1, <3>2, <3>3, <3>5 DEF Owned, Held
    <3>6. QED BY <3>4, <3>5
  <2>2. ASSUME DisconnectClearTimeout \/ DisconnectClearReconnect,
               NEW pointer, pointer \in Timers \cup {Null},
               \/ /\ pointer = m_receiveTimeoutTimer /\ m_receiveTimeoutTimer' = Null
                  /\ UNCHANGED <<m_tcpHandle, m_reconnectTimer>>
               \/ /\ pointer = m_reconnectTimer /\ m_reconnectTimer' = Null
                  /\ UNCHANGED <<m_tcpHandle, m_receiveTimeoutTimer>>,
               torn' = IF pointer = copied THEN torn ELSE torn \cup ({pointer, copied} \ {Null})
        PROVE  \/ Owned(x)' /\ Owned(x) /\ (Held(x)' <=> Held(x))
               \/ ~Owned(x)' /\ ~Owned(x) /\ (Held(x)' <=> Held(x))
               \/ ~Owned(x)' /\ Owned(x) /\ Held(x)'
    <3>1. taken' = [taken EXCEPT !.timers = @ \cup ({copied} \ {Null})]
      BY <2>2
    <3>2. x = pointer \/ x = copied => pointer = copied
      BY <1>a, <2>2
    <3>3. taken'.tcp = taken.tcp /\ taken'.timers = taken.timers \cup ({copied} \ {Null})
      BY <1>b, <3>1
    <3>4. CASE x = pointer
      BY <1>a, <1>b, <2>2, <3>2, <3>3, <3>4 DEF Owned, Held
    <3>5. CASE x # pointer
      BY <1>a, <1>b, <2>2, <3>2, <3>3, <3>5 DEF Owned, Held
    <3>6. QED BY <3>4, <3>5
  <2>3. CASE DisconnectClearTimeout
    BY <2>2, <2>3, <1>a, <1>b
  <2>4. CASE DisconnectClearReconnect
    BY <2>2, <2>4, <1>a, <1>b
  <2>5. QED BY <2>1, <2>3, <2>4
<1>3. QED BY <1>1, <1>2 DEF Kept

\* It hands over what it has taken to the closure that it posts.
LEMMA HandedOver ==
    ASSUME TypeInv, NEW x \in Objects, Kept(x), DisconnectPost
    PROVE  Kept(x)'
<1> DEFINE t == CloseTask(taken.tcp, taken.timers)
<1>a. TypeOK /\ Queues(Task) /\ x # Null /\ Null \notin Timers /\ "app" \in Callers
    BY ClientAssumption DEF TypeInv, Objects, Callers
<1>b. t \in Task /\ t.op = "close" /\ t.tcp = taken.tcp /\ t.timers = taken.timers
  <2>1. taken.tcp \in Handles \cup {Null} /\ taken.timers \in SUBSET (Timers \cup {Null})
    BY <1>a DEF TypeOK
  <2>2. ASSUME NEW h \in Handles \cup {Null}, NEW some \in SUBSET (Timers \cup {Null})
        PROVE  /\ CloseTask(h, some) \in Task /\ CloseTask(h, some).op = "close"
               /\ CloseTask(h, some).tcp = h /\ CloseTask(h, some).timers = some \ {Null}
    BY TaskKinds
  <2>3. /\ CloseTask(taken.tcp, taken.timers) \in Task
        /\ CloseTask(taken.tcp, taken.timers).op = "close"
        /\ CloseTask(taken.tcp, taken.timers).tcp = taken.tcp
        /\ CloseTask(taken.tcp, taken.timers).timers = taken.timers \ {Null}
    BY <2>1, <2>2
  <2>4. taken.timers \ {Null} = taken.timers
    BY <1>a DEF TypeOK
  <2>5. QED BY <2>3, <2>4
<1> HIDE DEF t
<1>1. t \in Closers(x) <=> Held(x)
    BY <1>b DEF Closers, Held
<1>2. <<t>> \in Seq(Task) /\ Elements(<<t>>) = {t} /\ OneIn(<<t>>, Closers(x))
    BY <1>b, ShortSequences
<1>3. Joining(<<t>>, Closers(x))
    BY <1>a DEF DisconnectPost, Joining, t
<1>4. CanJoin(<<t>>, Closers(x)) /\ AtMostOne(Closers(x))
    BY <1>1, <1>2 DEF CanJoin, Kept, Closing
<1>5. /\ AtMostOne(Closers(x))'
      /\ QueuedTasks' \cap Closers(x) = (QueuedTasks \cap Closers(x)) \cup ({t} \cap Closers(x))
    BY <1>a, <1>2, <1>3, <1>4, Joined
<1>6. Closing(x)' <=> Closing(x) \/ Held(x)
    BY <1>1, <1>5 DEF Closing, Closers
<1>7. ~Held(x)'
    BY <1>a DEF DisconnectPost, NothingTaken, Held
<1>8. (Owned(x)' <=> Owned(x)) /\ (Alive(x)' <=> Alive(x))
    BY DEF DisconnectPost, Owned, Alive, pointers
<1>9. QED BY <1>5, <1>6, <1>7, <1>8 DEF Kept

\* Every step keeps the owners of what is not torn in order.
LEMMA OwnershipStep ==
    ASSUME TypeInv, Ownership, [Next]_vars
    PROVE  Ownership'
<1> SUFFICES ASSUME NEW x \in Objects, x \notin torn' PROVE Kept(x)'
    BY DEF Ownership, Objects
<1>a. /\ TypeOK /\ Queues(Task) /\ Kept(x)
      /\ x # Null /\ x \in Handles \cup Timers /\ Handles \cap Timers = {}
      /\ ReconnectTimers \cap TimeoutTimers = {} /\ Timers = ReconnectTimers \cup TimeoutTimers
      /\ "loop" \in Callers
    BY TornStays, ClientAssumption DEF TypeInv, Ownership, Objects, Timers, Callers
<1>n. CASE TakingSteps
    BY <1>n, <1>a, Cleared, HandedOver DEF TakingSteps
<1> SUFFICES ASSUME ~TakingSteps PROVE Kept(x)'
    BY <1>n
<1>o. UNCHANGED taken /\ (Held(x)' <=> Held(x))
    BY TakenStays DEF Held
<1>b. /\ tcp \in [Handles -> TcpLife] /\ timer \in [Timers -> TimerLife]
      /\ m_tcpHandle \in Handles \cup {Null}
      /\ m_reconnectTimer \in ReconnectTimers \cup {Null}
      /\ m_receiveTimeoutTimer \in TimeoutTimers \cup {Null}
    BY <1>a DEF TypeOK
<1>c. \A task \in Task : task.op # "close" => task \notin Closers(x)
    BY <1>a, CloseTasks
\* Tasks that close nothing are posted, and x is what it was.
<1>1. ASSUME NEW tasks \in Seq(Task), \A task \in Elements(tasks) : task \notin Closers(x),
             Joining(tasks, Closers(x)),
             Alive(x)' <=> Owned(x)' \/ Held(x) \/ Closing(x),
             ~(Owned(x)' /\ Held(x)) /\ ~(Owned(x)' /\ Closing(x))
      PROVE  Kept(x)'
    BY <1>a, <1>o, <1>1, NothingClosed DEF Kept
<1>2. /\ Alive(x) <=> Owned(x) \/ Held(x) \/ Closing(x)
      /\ ~(Owned(x) /\ Held(x)) /\ ~(Owned(x) /\ Closing(x))
    BY <1>a DEF Kept
<1>3. ASSUME UNCHANGED <<backlog, pointers, tcp, timer>> PROVE Kept(x)'
    BY <1>a, <1>o, <1>3
       DEF Kept, Alive, Owned, Closing, Closers, pointers, AtMostOne, OneIn, Elements, QueuedTasks
<1>d. UNCHANGED pointers => (Owned(x)' <=> Owned(x))
    BY DEF pointers, Owned
<1>e. UNCHANGED <<tcp, timer>> => (Alive(x)' <=> Alive(x))
    BY DEF Alive
<1>f. /\ <<>> \in Seq(Task) /\ Elements(<<>>) = {}
      /\ <<StartReconnect>> \in Seq(Task)
      /\ \A task \in Elements(<<StartReconnect>>) : task \notin Closers(x)
    BY <1>a, <1>c, PostsTypes, TaskKinds
<1>g. ASSUME NEW on \in BOOLEAN
      PROVE  /\ StopTimeoutTimer \o StartTimeoutTimer(on) \in Seq(Task)
             /\ \A task \in Elements(StopTimeoutTimer \o StartTimeoutTimer(on)) :
                    task \notin Closers(x)
    BY <1>a, <1>c, PostsTypes, ConcatTypes, TaskKinds
<1>h. ASSUME NEW t \in Task, t.op # "close"
      PROVE  <<t>> \in Seq(Task) /\ \A task \in Elements(<<t>>) : task \notin Closers(x)
    BY <1>c, <1>h, ShortSequences
<1>i. ASSUME NEW c \in Callers, NEW op, op # "close", NEW tasks \in Seq(Task), RunTask(c, op, tasks)
      PROVE  Joining(tasks, Closers(x))
  <2>1. Head(backlog[c]) \in Task /\ Head(backlog[c]).op = op
    BY <1>a, <1>i, RunTypes
  <2>2. Head(backlog[c]) \notin Closers(x)
    BY <1>c, <1>i, <2>1
  <2>3. RunTask(c, Head(backlog[c]).op, tasks)
    BY <1>i, <2>1
  <2>4. QED BY <2>2, <2>3 DEF Joining
<1>j. ASSUME NEW tasks, Callback(tasks) PROVE Joining(tasks, Closers(x))
    BY <1>j DEF Callback, Joining
<1>k. timeoutSet \in BOOLEAN
    BY <1>a DEF TypeOK
<1>4. ASSUME NEW c \in Callers, NEW host \in Hosts, AppConnect(c, host) PROVE Kept(x)'
  <2>1. ConnectTask(host) \in Task /\ ConnectTask(host).op # "close"
    BY TaskKinds
  <2>2. Joining(<<ConnectTask(host)>>, Closers(x))
    BY <1>4, <1>a DEF AppConnect, Joining
  <2>3. UNCHANGED <<pointers, tcp, timer>>
    BY <1>4 DEF AppConnect
  <2>4. QED BY <1>1, <1>2, <1>d, <1>e, <1>h, <2>1, <2>2, <2>3
<1>5. ASSUME NEW c \in Callers, AppSend(c) PROVE Kept(x)'
  <2>1. Joining(<<SendTask>>, Closers(x))
    BY <1>5, <1>a DEF AppSend, Joining
  <2>2. UNCHANGED <<pointers, tcp, timer>>
    BY <1>5 DEF AppSend
  <2>3. QED BY <1>1, <1>2, <1>d, <1>e, <1>h, <2>1, <2>2, TaskKinds
<1>6. ASSUME NEW c \in Callers, NEW on \in BOOLEAN, AppSetReceiveTimeout(c, on) PROVE Kept(x)'
  <2>1. Joining(StopTimeoutTimer \o StartTimeoutTimer(on), Closers(x))
    BY <1>6, <1>a DEF AppSetReceiveTimeout, Joining
  <2>2. UNCHANGED <<pointers, tcp, timer>>
    BY <1>6 DEF AppSetReceiveTimeout
  <2>3. QED BY <1>1, <1>2, <1>d, <1>e, <1>g, <2>1, <2>2
<1>7. ASSUME NEW c \in Callers, NEW s \in Settings, AppSetReconnectInterval(c, s[1], s[2]) PROVE Kept(x)'
    BY <1>3, <1>7 DEF AppSetReconnectInterval
<1>8. CASE AppDisconnect
  <2>1. Joining(DisconnectPosts, Closers(x)) /\ Disconnect /\ UNCHANGED <<tcp, timer>>
    BY <1>8, <1>a DEF AppDisconnect, Joining
  <2>2. QED BY <1>a, <1>e, <1>o, <2>1, Disconnected
<1>9. ASSUME NEW c \in Callers, AppDestroy(c) PROVE Kept(x)'
  <2>1. ~Held(x)
    BY <1>9, <1>a DEF AppDestroy, TypeInv, TakenInTurn, NothingTaken, DisconnectPcs, Held
  <2>2. QED BY <1>9, <1>a, <2>1, Destroyed
<1>10. ASSUME NEW c \in Callers, ConnectRefused(c) \/ RunSend(c) PROVE Kept(x)'
  <2>1. Joining(<<>>, Closers(x))
    BY <1>10, <1>f, <1>i DEF ConnectRefused, RunSend
  <2>2. UNCHANGED <<pointers, tcp, timer>>
    BY <1>10 DEF ConnectRefused, RunSend
  <2>3. QED BY <1>1, <1>2, <1>d, <1>e, <1>f, <2>1, <2>2
\* The client takes up an object that is its own or new.
<1>11. ASSUME NEW c \in Callers, ConnectBadAddress(c) \/ ConnectStarts(c) \/ ConnectFailsAtOnce(c)
       PROVE  Kept(x)'
  <2>1. \/ Joining(<<>>, Closers(x))
        \/ Joining(<<StartReconnect>>, Closers(x))
    BY <1>11, <1>f, <1>i DEF ConnectBadAddress, ConnectStarts, ConnectFailsAtOnce
  <2>2. PICK h \in ConnectHandle :
           /\ m_tcpHandle' = h
           /\ \/ tcp' = [tcp EXCEPT ![h] = IF @ = "free" THEN "open" ELSE @]
              \/ tcp' = [tcp EXCEPT ![h] = "connecting"]
           /\ UNCHANGED <<m_reconnectTimer, m_receiveTimeoutTimer, timer>>
    BY <1>11 DEF ConnectBadAddress, ConnectStarts, ConnectFailsAtOnce
  <2>3. /\ h \in Handles
        /\ h = m_tcpHandle \/ (m_tcpHandle = Null /\ tcp[h] = "free")
    BY <1>b, <2>2 DEF ConnectHandle, OwnOrNew, New
  <2>4. CASE x = h
    <3>1. Owned(x)'
      BY <2>2, <2>4 DEF Owned
    <3>2. ~Closing(x) /\ ~Held(x)
      BY <1>2, <2>3, <2>4 DEF Owned, Alive
    <3>3. tcp[h] = "free" \/ Alive(x)
      BY <1>2, <2>3, <2>4 DEF Owned
    <3>4. tcp'[h] \notin {"free", "closing", "cancelled"}
      BY <1>b, <2>2, <2>3, <2>4, <3>3 DEF Alive
    <3>5. Alive(x)'
      BY <2>3, <2>4, <3>4 DEF Alive
    <3>6. QED BY <1>1, <1>f, <2>1, <3>1, <3>2, <3>5
  <2>5. CASE x # h
    <3>1. Owned(x)' <=> Owned(x)
      BY <1>a, <2>2, <2>3, <2>5 DEF Owned
    <3>2. Alive(x)' <=> Alive(x)
      BY <1>b, <2>2, <2>5 DEF Alive
    <3>3. QED BY <1>1, <1>2, <1>f, <2>1, <3>1, <3>2
  <2>6. QED BY <2>4, <2>5
<1>12. ASSUME NEW c \in Callers, RunClose(c) PROVE Kept(x)'
    BY <1>12, <1>a, CloseRuns
<1>13. ASSUME NEW c \in Callers, RunStartReconnect(c) \/ RunStartTimeout(c) PROVE Kept(x)'
  <2>1. Joining(<<>>, Closers(x))
    BY <1>13, <1>f, <1>i DEF RunStartReconnect, RunStartTimeout
  <2>2. UNCHANGED <<m_tcpHandle, tcp>>
    BY <1>13 DEF RunStartReconnect, RunStartTimeout
  <2>3. CASE UNCHANGED <<m_reconnectTimer, m_receiveTimeoutTimer, timer>>
    BY <1>1, <1>2, <1>d, <1>e, <1>f, <2>1, <2>2, <2>3 DEF pointers
  <2>4. ASSUME NEW t \in Timers, timer' = [timer EXCEPT ![t] = "armed"],
               \/ /\ m_reconnectTimer' = t /\ UNCHANGED m_receiveTimeoutTimer
                  /\ t = m_reconnectTimer \/ (m_reconnectTimer = Null /\ timer[t] = "free")
               \/ /\ m_receiveTimeoutTimer' = t /\ UNCHANGED m_reconnectTimer
                  /\ t = m_receiveTimeoutTimer \/ (m_receiveTimeoutTimer = Null /\ timer[t] = "free")
        PROVE  Kept(x)'
    <3>1. CASE x = t
      <4>1. Owned(x)'
        BY <2>4, <3>1 DEF Owned
      <4>2. x \notin Handles
        BY <1>a, <3>1
      <4>3. Owned(x) \/ ~Alive(x)
        BY <2>4, <3>1, <4>2 DEF Owned, Alive
      <4>4. ~Closing(x) /\ ~Held(x)
        BY <1>2, <4>3
      <4>5. Alive(x)'
        BY <1>b, <2>4, <3>1, <4>2 DEF Alive
      <4>6. QED BY <1>1, <1>f, <2>1, <4>1, <4>4, <4>5
    <3>2. CASE x # t
      <4>1. Owned(x)' <=> Owned(x)
        BY <1>a, <2>2, <2>4, <3>2 DEF Owned
      <4>2. Alive(x)' <=> Alive(x)
        BY <1>b, <2>2, <2>4, <3>2 DEF Alive
      <4>3. QED BY <1>1, <1>2, <1>f, <2>1, <4>1, <4>2
    <3>3. QED BY <3>1, <3>2
  <2>5. ASSUME RunStartReconnect(c), m_state = "DISCONNECTED" PROVE Kept(x)'
    <3>1. PICK t \in OwnOrNew(m_reconnectTimer, ReconnectTimers, timer) :
             m_reconnectTimer' = t /\ timer' = Started(t)
      BY <2>5 DEF RunStartReconnect
    <3>2. t \in Timers /\ (t = m_reconnectTimer \/ (m_reconnectTimer = Null /\ timer[t] = "free"))
      BY <1>a, <1>b, <3>1 DEF OwnOrNew, New
    <3>3. UNCHANGED m_receiveTimeoutTimer
      BY <2>5 DEF RunStartReconnect
    <3>4. QED BY <2>4, <3>1, <3>2, <3>3 DEF Started
  <2>6. ASSUME RunStartTimeout(c), m_state = "CONNECTED" PROVE Kept(x)'
    <3>1. PICK t \in OwnOrNew(m_receiveTimeoutTimer, TimeoutTimers, timer) :
             m_receiveTimeoutTimer' = t /\ timer' = Started(t)
      BY <2>6 DEF RunStartTimeout
    <3>2. /\ t \in Timers
          /\ t = m_receiveTimeoutTimer \/ (m_receiveTimeoutTimer = Null /\ timer[t] = "free")
      BY <1>a, <1>b, <3>1 DEF OwnOrNew, New
    <3>3. UNCHANGED m_reconnectTimer
      BY <2>6 DEF RunStartTimeout
    <3>4. QED BY <2>4, <3>1, <3>2, <3>3 DEF Started
  <2>7. QED BY <1>13, <2>3, <2>5, <2>6 DEF RunStartReconnect, RunStartTimeout
<1>14. ASSUME NEW c \in Callers, RunStopTimeout(c) PROVE Kept(x)'
  <2>1. Joining(<<>>, Closers(x))
    BY <1>14, <1>f, <1>i DEF RunStopTimeout
  <2>2. /\ UNCHANGED <<pointers, tcp>>
        /\ timer' = [t \in Timers |-> IF t = m_receiveTimeoutTimer THEN "stopped" ELSE timer[t]]
    BY <1>14 DEF RunStopTimeout
  <2>3. x = m_receiveTimeoutTimer => Alive(x)
    BY <1>2 DEF Owned
  <2>4. Alive(x)' <=> Alive(x)
    BY <1>a, <2>2, <2>3 DEF Alive
  <2>5. QED BY <1>1, <1>2, <1>d, <1>f, <2>1, <2>2, <2>4
<1>15. ASSUME NEW c \in Callers, RunSendOverflow(c) PROVE Kept(x)'
  <2>1. DisconnectPosts \o <<StartReconnect>> \in Seq(Task)
    BY <1>a, PostsTypes, ConcatTypes
  <2>2. /\ Joining(DisconnectPosts \o <<StartReconnect>>, Closers(x))
        /\ Disconnect /\ UNCHANGED <<tcp, timer>>
    BY <1>15, <1>i, <2>1 DEF RunSendOverflow
  <2>3. QED BY <1>a, <1>e, <1>o, <2>2, Disconnected
\* libuv changes the life of an object, but not whether it is alive.
<1>l. ASSUME NEW h \in Handles, NEW v, tcp' = [tcp EXCEPT ![h] = v], UNCHANGED timer,
             (tcp[h] \in {"free", "closing", "cancelled"}) <=> (v \in {"free", "closing", "cancelled"})
      PROVE  Alive(x)' <=> Alive(x)
    BY <1>b, <1>l DEF Alive
<1>m. ASSUME NEW t \in Timers, NEW v, timer' = [timer EXCEPT ![t] = v], UNCHANGED tcp,
             (timer[t] \in {"free", "closing"}) <=> (v \in {"free", "closing"})
      PROVE  Alive(x)' <=> Alive(x)
    BY <1>b, <1>m DEF Alive
<1>16. ASSUME NEW h \in Handles, ConnectSucceeds(h) PROVE Kept(x)'
  <2>1. /\ Joining(StopTimeoutTimer \o StartTimeoutTimer(timeoutSet), Closers(x))
        /\ UNCHANGED <<pointers, timer>>
    BY <1>16, <1>j DEF ConnectSucceeds, Event
  <2>2. Alive(x)' <=> Alive(x)
    BY <1>16, <1>l, <2>1 DEF ConnectSucceeds
  <2>3. QED BY <1>1, <1>2, <1>d, <1>g, <1>k, <2>1, <2>2
<1>17. ASSUME NEW h \in Handles, ConnectFails(h) \/ ConnectCancelled(h) PROVE Kept(x)'
  <2>1. Joining(<<StartReconnect>>, Closers(x)) /\ UNCHANGED <<pointers, timer>>
    BY <1>17, <1>j DEF ConnectFails, ConnectCancelled, ConnectFailed, Event
  <2>2. Alive(x)' <=> Alive(x)
    BY <1>17, <1>l, <2>1 DEF ConnectFails, ConnectCancelled
  <2>3. QED BY <1>1, <1>2, <1>d, <1>f, <2>1, <2>2
<1>18. ASSUME NEW h \in Handles, HandleClosed(h) PROVE Kept(x)'
  <2>1. Joining(<<>>, Closers(x)) /\ UNCHANGED <<pointers, timer>>
    BY <1>18, <1>j DEF HandleClosed
  <2>2. Alive(x)' <=> Alive(x)
    BY <1>18, <1>l, <2>1 DEF HandleClosed
  <2>3. QED BY <1>1, <1>2, <1>d, <1>f, <2>1, <2>2
<1>19. ASSUME NEW t \in Timers, TimerClosed(t) PROVE Kept(x)'
  <2>1. Joining(<<>>, Closers(x)) /\ UNCHANGED <<pointers, tcp>>
    BY <1>19, <1>j DEF TimerClosed
  <2>2. Alive(x)' <=> Alive(x)
    BY <1>19, <1>m, <2>1 DEF TimerClosed
  <2>3. QED BY <1>1, <1>2, <1>d, <1>f, <2>1, <2>2
<1>20. ASSUME NEW t \in ReconnectTimers, ReconnectFires(t) PROVE Kept(x)'
  <2>1. /\ Joining(When(m_state = "DISCONNECTED", ConnectTask(m_host)), Closers(x))
        /\ UNCHANGED <<pointers, tcp>>
    BY <1>20, <1>j DEF ReconnectFires, Event
  <2>2. Alive(x)' <=> Alive(x)
    BY <1>20, <1>a, <1>m, <2>1 DEF ReconnectFires
  <2>3. m_host \in Hosts
    BY <1>20, <1>a DEF ReconnectFires, TypeInv, HostSet, TypeOK
  <2>4. /\ When(m_state = "DISCONNECTED", ConnectTask(m_host)) \in Seq(Task)
        /\ \A task \in Elements(When(m_state = "DISCONNECTED", ConnectTask(m_host))) :
               task \notin Closers(x)
    <3>1. ConnectTask(m_host) \in Task /\ ConnectTask(m_host).op # "close"
      BY <2>3, TaskKinds
    <3>2. QED BY <1>f, <1>h, <3>1 DEF When
  <2>5. QED BY <1>1, <1>2, <1>d, <2>1, <2>2, <2>4
<1>21. ASSUME NEW t \in TimeoutTimers, TimeoutFires(t) PROVE Kept(x)'
  <2>1. /\ Joining(DisconnectPosts \o <<StartReconnect>>, Closers(x))
        /\ Disconnect /\ UNCHANGED tcp
    BY <1>21, <1>j DEF TimeoutFires, Event
  <2>2. Alive(x)' <=> Alive(x)
    BY <1>21, <1>a, <1>m, <2>1 DEF TimeoutFires
  <2>3. QED BY <1>a, <1>o, <2>1, <2>2, Disconnected
<1>22. ASSUME NEW h \in Handles, DataArrives(h) PROVE Kept(x)'
  <2>1. /\ Joining(StopTimeoutTimer \o StartTimeoutTimer(timeoutSet), Closers(x))
        /\ UNCHANGED <<pointers, tcp, timer>>
    BY <1>22, <1>j DEF DataArrives, Event
  <2>2. QED BY <1>1, <1>2, <1>d, <1>e, <1>g, <1>k, <2>1
<1>23. ASSUME NEW h \in Handles, ConnectionEnds(h) PROVE Kept(x)'
  <2>1. /\ Joining(DisconnectPosts \o <<StartReconnect>>, Closers(x))
        /\ Disconnect /\ UNCHANGED timer
    BY <1>23, <1>j DEF ConnectionEnds, Event
  <2>2. Alive(x)' <=> Alive(x)
    BY <1>23, <1>l, <2>1 DEF ConnectionEnds
  <2>3. QED BY <1>a, <1>o, <2>1, <2>2, Disconnected
<1>24. CASE \/ DisconnectLoad \/ DisconnectStore
            \/ DisconnectCopyTcp \/ DisconnectCopyTimeout \/ DisconnectCopyReconnect
            \/ UNCHANGED vars
    BY <1>3, <1>24
       DEF DisconnectLoad, DisconnectStore, DisconnectCopyTcp, DisconnectCopyTimeout,
           DisconnectCopyReconnect, DisconnectCopy, vars, taskVars
<1>25. QED
    BY <1>a, <1>4, <1>5, <1>6, <1>7, <1>8, <1>9, <1>10, <1>11, <1>12, <1>13, <1>14, <1>15, <1>16,
       <1>17, <1>18, <1>19, <1>20, <1>21, <1>22, <1>23, <1>24
       DEF Next, AppNext, DisconnectNext, TakingSteps, TaskNext, CloseCallbacks, Answered

\* The places of closures that close x are no more than there are closures.
LEMMA Places ==
    ASSUME TypeInv, NEW x \in Objects, Kept(x)
    PROVE  /\ CloseTasksFor(x) # {} <=> Closing(x) \/ Held(x)
           /\ Cardinality(CloseTasksFor(x)) <= 1
<1>a. /\ \A c \in Callers : \A i \in DOMAIN backlog[c] : backlog[c][i] \in Task
      /\ AtMostOne(Closers(x)) /\ ~(Held(x) /\ Closing(x))
    BY DEF TypeInv, TypeOK, Kept
<1>b. ASSUME NEW p
      PROVE  p \in CloseTasksFor(x) <=>
               \/ \E c \in Callers : \E i \in DOMAIN backlog[c] :
                     p = <<c, i>> /\ backlog[c][i] \in Closers(x)
               \/ Held(x) /\ p = <<"app", 0>>
  <2>1. p \in QueuedCloses(x) <=>
           \E c \in Callers : \E i \in DOMAIN backlog[c] :
               p = <<c, i>> /\ backlog[c][i] \in Closers(x)
    BY <1>a DEF QueuedCloses, Closers
  <2>2. p \in CloseTasksFor(x) <=> p \in QueuedCloses(x) \/ (Held(x) /\ p = <<"app", 0>>)
    BY DEF CloseTasksFor, Held
  <2>3. QED BY <2>1, <2>2
<1>c. Closing(x) <=> \E c \in Callers : \E i \in DOMAIN backlog[c] : backlog[c][i] \in Closers(x)
    BY DEF Closing, QueuedTasks
<1>1. CloseTasksFor(x) # {} <=> Closing(x) \/ Held(x)
  <2>1. ASSUME NEW c \in Callers, NEW i \in DOMAIN backlog[c], backlog[c][i] \in Closers(x)
        PROVE  <<c, i>> \in CloseTasksFor(x)
    BY <1>b, <2>1
  <2>2. Held(x) => <<"app", 0>> \in CloseTasksFor(x)
    BY <1>b
  <2>3. ASSUME NEW p \in CloseTasksFor(x) PROVE Closing(x) \/ Held(x)
    BY <1>b, <1>c
  <2>4. QED BY <1>c, <2>1, <2>2, <2>3
<1>2. ASSUME NEW c \in Callers, NEW i \in DOMAIN backlog[c], backlog[c][i] \in Closers(x),
             NEW d \in Callers, NEW j \in DOMAIN backlog[d], backlog[d][j] \in Closers(x)
      PROVE  c = d /\ i = j
    BY <1>2, <1>a DEF AtMostOne, OneIn, Elements, Callers
<1>3. ASSUME NEW p \in CloseTasksFor(x), NEW q \in CloseTasksFor(x) PROVE p = q
  <2>1. CASE Held(x)
    BY <1>a, <1>b, <1>c, <2>1
  <2>2. CASE ~Held(x)
    <3>1. PICK c \in Callers : \E i \in DOMAIN backlog[c] :
             p = <<c, i>> /\ backlog[c][i] \in Closers(x)
      BY <1>b, <2>2
    <3>2. PICK i \in DOMAIN backlog[c] : p = <<c, i>> /\ backlog[c][i] \in Closers(x)
      BY <3>1
    <3>3. PICK d \in Callers : \E j \in DOMAIN backlog[d] :
             q = <<d, j>> /\ backlog[d][j] \in Closers(x)
      BY <1>b, <2>2
    <3>4. PICK j \in DOMAIN backlog[d] : q = <<d, j>> /\ backlog[d][j] \in Closers(x)
      BY <3>3
    <3>5. QED BY <1>2, <3>2, <3>4
  <2>3. QED BY <2>1, <2>2
<1>4. CASE CloseTasksFor(x) = {}
    BY <1>1, <1>4, FS_EmptySet
<1>5. ASSUME NEW p \in CloseTasksFor(x) PROVE Cardinality(CloseTasksFor(x)) <= 1
  <2>1. CloseTasksFor(x) = {p}
    BY <1>3
  <2>2. Cardinality({p}) = 1
    BY FS_Singleton
  <2>3. QED BY <2>1, <2>2
<1>6. QED BY <1>1, <1>4, <1>5

\* A libuv handle is closed once, and not after it is closing or deleted, by
\* whatever threads the API is called, unless a disconnect() on the other
\* thread has torn it.
THEOREM HandlesAreClosedOnce == Spec => []ClosedOnce
<1>1. TypeInv /\ Ownership /\ [Next]_vars => Ownership'
    BY OwnershipStep
<1>2. ASSUME TypeInv, Ownership PROVE ClosedOnce
  <2>1. ASSUME NEW x \in Objects \ torn
        PROVE  /\ Cardinality(CloseTasksFor(x)) <= 1
               /\ CloseTasksFor(x) # {} => Alive(x)
    BY <1>2, <2>1, Places DEF Ownership, Kept
  <2>2. \A t \in Timers : t \notin Handles
    BY ClientAssumption
  <2>3. QED BY <2>1, <2>2 DEF ClosedOnce, Objects, Alive
<1>3. QED BY TypeInit, TypeStep, OwnershipInit, <1>1, <1>2, PTL DEF Spec

\* No handle or timer is lost: it is the client's, or a closure is about to
\* close it, by whatever threads the API is called, unless a disconnect() on
\* the other thread has torn it.
THEOREM HandlesAreKept == Spec => []NoHandleLost
<1>1. TypeInv /\ Ownership /\ [Next]_vars => Ownership'
    BY OwnershipStep
<1>2. ASSUME TypeInv, Ownership PROVE NoHandleLost
  <2>1. ASSUME NEW x \in Objects \ torn, Alive(x) PROVE Owned(x) \/ CloseTasksFor(x) # {}
    BY <1>2, <2>1, Places DEF Ownership, Kept
  <2>2. /\ Handles \cap Timers = {} /\ Null \notin Handles /\ Null \notin Timers
        /\ m_tcpHandle \in Handles \cup {Null} /\ m_reconnectTimer \in Timers \cup {Null}
        /\ m_receiveTimeoutTimer \in Timers \cup {Null}
    BY <1>2, ClientAssumption DEF TypeInv, TypeOK, Timers
  <2>3. QED BY <2>1, <2>2 DEF NoHandleLost, Objects, Alive, Owned
<1>3. QED BY TypeInit, TypeStep, OwnershipInit, <1>1, <1>2, PTL DEF Spec

(***************************************************************************)
(* The watchdog.  As long as a receive timeout is set, and was not set on  *)
(* one thread while the other's queue was about to stop it, every queued   *)
(* closure that stops it is followed by one that starts it.                *)
(***************************************************************************)
StopsAnswered == timeoutSet /\ ~crossed => \A c \in Callers : Restarted(backlog[c])

LEMMA ConcatRestarted ==
    ASSUME NEW p \in Seq(Task), NEW q \in Seq(Task), Restarted(q),
           Restarted(p) \/ StartTimeout \in Elements(q)
    PROVE  Restarted(p \o q)
<1> SUFFICES ASSUME NEW i \in DOMAIN (p \o q), (p \o q)[i] = StopTimeout
             PROVE  \E j \in DOMAIN (p \o q) : j > i /\ (p \o q)[j] = StartTimeout
    BY DEF Restarted
<1>1. CASE i \in DOMAIN p /\ p[i] = StopTimeout
  <2>1. CASE Restarted(p)
    <3>1. PICK j \in DOMAIN p : j > i /\ p[j] = StartTimeout
      BY <1>1, <2>1 DEF Restarted
    <3>2. (p \o q)[j] = p[j] /\ j \in DOMAIN (p \o q)
      BY <3>1, ConcatParts
    <3>3. QED BY <3>1, <3>2
  <2>2. CASE StartTimeout \in Elements(q)
    <3>1. PICK j \in DOMAIN q : q[j] = StartTimeout
      BY <2>2 DEF Elements
    <3>2. (p \o q)[Len(p) + j] = q[j] /\ Len(p) + j \in DOMAIN (p \o q)
      BY <3>1, ConcatParts
    <3>3. Len(p) + j > i
      BY <1>1, <3>1, ConcatParts
    <3>4. QED BY <3>1, <3>2, <3>3
  <2>3. QED BY <2>1, <2>2
<1>2. CASE i - Len(p) \in DOMAIN q /\ q[i - Len(p)] = StopTimeout
  <2>1. PICK j \in DOMAIN q : j > i - Len(p) /\ q[j] = StartTimeout
    BY <1>2 DEF Restarted
  <2>2. (p \o q)[Len(p) + j] = q[j] /\ Len(p) + j \in DOMAIN (p \o q)
    BY <2>1, ConcatParts
  <2>3. Len(p) + j > i
    BY <2>1, ConcatParts
  <2>4. QED BY <2>1, <2>2, <2>3
<1>3. QED BY <1>1, <1>2, ConcatParts

LEMMA TailRestarted ==
    ASSUME NEW q \in Seq(Task), q # <<>>, Restarted(q)
    PROVE  /\ Restarted(Tail(q))
           /\ Head(q) = StopTimeout => StartTimeout \in Elements(Tail(q))
<1>1. ASSUME NEW i \in DOMAIN Tail(q), Tail(q)[i] = StopTimeout
      PROVE  \E j \in DOMAIN Tail(q) : j > i /\ Tail(q)[j] = StartTimeout
  <2>1. i + 1 \in DOMAIN q /\ q[i + 1] = StopTimeout /\ i \in Nat /\ i > 0
    BY <1>1, TailParts
  <2>2. PICK j \in DOMAIN q : j > i + 1 /\ q[j] = StartTimeout
    BY <2>1 DEF Restarted
  <2>3. j # 1 /\ j \in Nat
    BY <2>1, <2>2, TailParts
  <2>4. j - 1 \in DOMAIN Tail(q) /\ q[j] = Tail(q)[j - 1]
    BY <2>2, <2>3, TailParts
  <2>5. QED BY <2>1, <2>2, <2>3, <2>4
<1>2. ASSUME Head(q) = StopTimeout PROVE StartTimeout \in Elements(Tail(q))
  <2>1. 1 \in DOMAIN q /\ q[1] = StopTimeout
    BY <1>2, TailParts
  <2>2. PICK j \in DOMAIN q : j > 1 /\ q[j] = StartTimeout
    BY <2>1 DEF Restarted
  <2>3. j - 1 \in DOMAIN Tail(q) /\ q[j] = Tail(q)[j - 1]
    BY <2>2, TailParts
  <2>4. QED BY <2>2, <2>3 DEF Elements
<1>3. QED BY <1>1, <1>2 DEF Restarted

\* Stopping the watchdog and starting it again.
LEMMA StopAndStart ==
    ASSUME TypeOK
    PROVE  /\ StopTimeoutTimer \o StartTimeoutTimer(TRUE) \in Seq(Task)
           /\ Restarted(StopTimeoutTimer \o StartTimeoutTimer(TRUE))
           /\ StartTimeout \in Elements(StopTimeoutTimer \o StartTimeoutTimer(TRUE))
<1>1. /\ StopTimeoutTimer \in Seq(Task)
      /\ StartTimeoutTimer(TRUE) \in Seq(Task) /\ StartTimeoutTimer(TRUE) = <<StartTimeout>>
    BY PostsTypes DEF StartTimeoutTimer, When
<1>2. Elements(<<StartTimeout>>) = {StartTimeout}
    BY DEF Elements
<1>3. StartTimeout # StopTimeout
    BY DEF StartTimeout, StopTimeout
<1>4. Restarted(<<StartTimeout>>)
    BY <1>3 DEF Restarted
<1>5. Restarted(StopTimeoutTimer \o StartTimeoutTimer(TRUE))
    BY <1>1, <1>2, <1>4, ConcatRestarted
<1>6. /\ StopTimeoutTimer \o StartTimeoutTimer(TRUE) \in Seq(Task)
      /\ Elements(StartTimeoutTimer(TRUE)) \subseteq Elements(StopTimeoutTimer \o StartTimeoutTimer(TRUE))
    BY <1>1, ConcatTypes
<1>7. StartTimeout \in Elements(StartTimeoutTimer(TRUE))
    BY <1>1, <1>2
<1>8. QED BY <1>5, <1>6, <1>7

LEMMA StopsAnsweredStep ==
    ASSUME TypeInv, StopsAnswered, [Next]_vars
    PROVE  StopsAnswered'
<1>a. /\ TypeOK /\ backlog \in [Callers -> Seq(Task)] /\ "loop" \in Callers
      /\ crossed \in BOOLEAN
    BY DEF TypeInv, TypeOK, Queues, Callers
\* Closures without one that stops the watchdog are posted ...
<1>1. ASSUME NEW tasks \in Seq(Task), StopTimeout \notin Elements(tasks), timeoutSet' => timeoutSet,
             crossed => crossed',
             (\E c \in Callers : backlog' = Posted(c, tasks)) \/ LoopTurn(tasks)
      PROVE  StopsAnswered'
  <2>1. PICK c \in Callers : backlog' = Posted(c, tasks)
    BY <1>1, <1>a DEF LoopTurn
  <2>2. Restarted(tasks)
    BY <1>1 DEF Restarted, Elements
  <2>3. ASSUME NEW b \in Callers, Restarted(backlog[b]) PROVE Restarted(backlog[b])'
    <3>1. CASE b = c
      <4>1. backlog'[b] = backlog[b] \o tasks
        BY <1>a, <2>1, <3>1 DEF Posted
      <4>2. Restarted(backlog[b] \o tasks)
        BY <1>a, <2>2, <2>3, ConcatRestarted
      <4>3. QED BY <4>1, <4>2 DEF Restarted
    <3>2. CASE b # c
      <4>1. backlog'[b] = backlog[b]
        BY <1>a, <2>1, <3>2 DEF Posted
      <4>2. QED BY <2>3, <4>1 DEF Restarted
    <3>3. QED BY <3>1, <3>2
  <2>4. QED BY <1>1, <2>3 DEF StopsAnswered
\* ... also by a closure that runs.
<1>2. ASSUME NEW c \in Callers, NEW op, NEW tasks \in Seq(Task), StopTimeout \notin Elements(tasks),
             UNCHANGED <<timeoutSet, crossed>>, RunTask(c, op, tasks)
      PROVE  StopsAnswered'
  <2>1. backlog[c] # <<>> /\ Tail(backlog[c]) \in Seq(Task)
    BY <1>2, <1>a, TailParts DEF RunTask
  <2> DEFINE rest == [backlog EXCEPT ![c] = Tail(@)]
  <2>2. rest \in [Callers -> Seq(Task)]
    BY <1>a, <2>1
  <2>3. \A b \in Callers : backlog'[b] = IF b = "loop" THEN rest[b] \o tasks ELSE rest[b]
    BY <1>2, <1>a, <2>2 DEF RunTask
  <2>4. \A b \in Callers : rest[b] = IF b = c THEN Tail(backlog[b]) ELSE backlog[b]
    BY <1>a
  <2> HIDE DEF rest
  <2>5. Restarted(tasks)
    BY <1>2 DEF Restarted, Elements
  <2>6. ASSUME NEW b \in Callers, Restarted(backlog[b]) PROVE Restarted(backlog[b])'
    <3>1. Restarted(rest[b])
      <4>1. CASE b = c
        <5>1. Restarted(Tail(backlog[b]))
          BY <1>a, <2>1, <2>6, <4>1, TailRestarted
        <5>2. QED BY <2>4, <4>1, <5>1
      <4>2. CASE b # c
        BY <2>4, <2>6, <4>2
      <4>3. QED BY <4>1, <4>2
    <3>2. Restarted(rest[b] \o tasks)
      BY <2>2, <2>5, <3>1, ConcatRestarted
    <3>3. backlog'[b] = rest[b] \o tasks \/ backlog'[b] = rest[b]
      BY <2>3
    <3>4. QED BY <3>1, <3>2, <3>3 DEF Restarted
  <2>7. QED BY <1>2, <2>6 DEF StopsAnswered
\* The watchdog is stopped and, if a timeout is set by then, started.
<1>3. ASSUME NEW c \in Callers, NEW on \in BOOLEAN, timeoutSet' <=> on,
             backlog' = Posted(c, StopTimeoutTimer \o StartTimeoutTimer(on)),
             on /\ ~crossed' => \A b \in Callers \ {c} : Restarted(backlog[b])
      PROVE  StopsAnswered'
  <2>1. CASE on = FALSE
    BY <1>3, <2>1 DEF StopsAnswered
  <2>2. CASE on = TRUE
    <3> DEFINE q == StopTimeoutTimer \o StartTimeoutTimer(TRUE)
    <3>1. /\ backlog'[c] = backlog[c] \o q
          /\ \A b \in Callers : b # c => backlog'[b] = backlog[b]
      BY <1>3, <1>a, <2>2 DEF Posted
    <3>2. q \in Seq(Task) /\ Restarted(q) /\ StartTimeout \in Elements(q)
      BY <1>a, StopAndStart
    <3> HIDE DEF q
    <3>3. Restarted(backlog[c] \o q)
      BY <1>a, <3>2, ConcatRestarted
    <3>4. Restarted(backlog[c])'
      BY <3>1, <3>3 DEF Restarted
    <3>5. ASSUME NEW b \in Callers, b # c, Restarted(backlog[b]) PROVE Restarted(backlog[b])'
      BY <3>1, <3>5 DEF Restarted
    <3>6. QED BY <1>3, <2>2, <3>4, <3>5 DEF StopsAnswered
  <2>3. QED BY <2>1, <2>2
<1>4. ASSUME UNCHANGED <<backlog, timeoutSet>>, crossed => crossed' PROVE StopsAnswered'
    BY <1>4 DEF StopsAnswered, Restarted
<1>b. ASSUME NEW t \in Task, t # StopTimeout
      PROVE  <<t>> \in Seq(Task) /\ StopTimeout \notin Elements(<<t>>)
    BY <1>b, ShortSequences
<1>c. <<>> \in Seq(Task) /\ StopTimeout \notin Elements(<<>>)
    BY DEF Elements
<1>d. /\ DisconnectPosts \in Seq(Task) /\ StopTimeout \notin Elements(DisconnectPosts)
      /\ DisconnectPosts \o <<StartReconnect>> \in Seq(Task)
      /\ StopTimeout \notin Elements(DisconnectPosts \o <<StartReconnect>>)
      /\ <<StartReconnect>> \in Seq(Task) /\ StopTimeout \notin Elements(<<StartReconnect>>)
  <2>1. /\ CloseTask(m_tcpHandle, {m_reconnectTimer, m_receiveTimeoutTimer}) # StopTimeout
        /\ StartReconnect # StopTimeout
    BY DEF CloseTask, StopTimeout, StartReconnect
  <2>2. QED BY <1>a, <2>1, PostsTypes, ConcatTypes
<1>5. ASSUME NEW c \in Callers, AppNext(c) PROVE StopsAnswered'
  <2>1. ASSUME NEW host \in Hosts, AppConnect(c, host) PROVE StopsAnswered'
    <3>1. ConnectTask(host) \in Task /\ ConnectTask(host) # StopTimeout
      BY TaskKinds DEF ConnectTask, StopTimeout
    <3>2. QED BY <1>1, <1>b, <2>1, <3>1 DEF AppConnect
  <2>2. CASE AppSend(c)
    <3>1. SendTask \in Task /\ SendTask # StopTimeout
      BY TaskKinds DEF SendTask, StopTimeout
    <3>2. QED BY <1>1, <1>b, <2>2, <3>1 DEF AppSend, history
  <2>3. ASSUME NEW on \in BOOLEAN, AppSetReceiveTimeout(c, on) PROVE StopsAnswered'
    <3>1. on /\ ~crossed' => \A b \in Callers \ {c} : Restarted(backlog[b])
      BY <2>3 DEF AppSetReceiveTimeout
    <3>2. timeoutSet' = on /\ backlog' = Posted(c, StopTimeoutTimer \o StartTimeoutTimer(on))
      BY <2>3 DEF AppSetReceiveTimeout
    <3>3. QED BY <1>3, <3>1, <3>2
  <2>4. ASSUME NEW s \in Settings, AppSetReconnectInterval(c, s[1], s[2]) PROVE StopsAnswered'
    BY <1>4, <2>4 DEF AppSetReconnectInterval, history
  <2>6. CASE AppDestroy(c)
    <3> DEFINE p == CloseTask(m_tcpHandle, {})
               q == CloseTask(Null, {m_reconnectTimer})
               r == CloseTask(Null, {m_receiveTimeoutTimer})
    <3>1. /\ {} \in SUBSET (Timers \cup {Null})
          /\ {m_reconnectTimer} \in SUBSET (Timers \cup {Null})
          /\ {m_receiveTimeoutTimer} \in SUBSET (Timers \cup {Null})
      BY <1>a DEF TypeOK, Timers
    <3>2. p \in Task /\ q \in Task /\ r \in Task
      BY <1>a, <3>1, TaskKinds DEF TypeOK
    <3>3. p # StopTimeout /\ q # StopTimeout /\ r # StopTimeout
      BY DEF CloseTask, StopTimeout
    <3> HIDE DEF p, q, r
    <3>4. ASSUME NEW t \in Task, t # StopTimeout, NEW b
          PROVE  When(b, t) \in Seq(Task) /\ StopTimeout \notin Elements(When(b, t))
      BY <1>b, <1>c, <3>4 DEF When
    <3>5. ASSUME NEW u \in Seq(Task), StopTimeout \notin Elements(u),
                 NEW v \in Seq(Task), StopTimeout \notin Elements(v)
          PROVE  u \o v \in Seq(Task) /\ StopTimeout \notin Elements(u \o v)
      BY <3>5, ConcatTypes
    <3> DEFINE tasks == When(m_tcpHandle # Null, p) \o When(m_reconnectTimer # Null, q)
                            \o When(m_receiveTimeoutTimer # Null, r)
    <3>6. tasks \in Seq(Task) /\ StopTimeout \notin Elements(tasks)
      BY <3>2, <3>3, <3>4, <3>5
    <3>7. backlog' = Posted(c, tasks) /\ UNCHANGED <<timeoutSet, crossed>>
      BY <2>6 DEF AppDestroy, history, p, q, r
    <3>8. QED BY <1>1, <3>6, <3>7
  <2>7. QED BY <1>5, <2>1, <2>2, <2>3, <2>4, <2>6 DEF AppNext
<1>13. CASE AppDisconnect
    BY <1>1, <1>a, <1>d, <1>13 DEF AppDisconnect
<1>14. CASE DisconnectLoad \/ (DisconnectNext /\ ~DisconnectPost)
    BY <1>4, <1>14
       DEF DisconnectLoad, DisconnectNext, DisconnectStore, DisconnectCopyTcp, DisconnectCopyTimeout,
           DisconnectCopyReconnect, DisconnectCopy, DisconnectClearTcp, DisconnectClearTimeout,
           DisconnectClearReconnect, DisconnectClear, taskVars, history
<1>15. CASE DisconnectPost
  <2>1. taken.tcp \in Handles \cup {Null} /\ taken.timers \in SUBSET (Timers \cup {Null})
    BY <1>a DEF TypeOK
  <2>2. CloseTask(taken.tcp, taken.timers) \in Task /\ CloseTask(taken.tcp, taken.timers) # StopTimeout
    BY <2>1, TaskKinds DEF CloseTask, StopTimeout
  <2>3. "app" \in Callers
    BY DEF Callers
  <2>4. QED BY <1>1, <1>b, <1>15, <2>2, <2>3 DEF DisconnectPost, history
<1>6. ASSUME NEW c \in Callers, TaskNext(c) PROVE StopsAnswered'
    BY <1>2, <1>6, <1>c, <1>d
       DEF TaskNext, ConnectRefused, ConnectBadAddress, ConnectStarts, ConnectFailsAtOnce, RunClose,
           RunStartReconnect, RunStartTimeout, RunStopTimeout, RunSend, RunSendOverflow, appVars,
           history
<1>p. ASSUME NEW tasks, Callback(tasks) PROVE LoopTurn(tasks) /\ UNCHANGED <<timeoutSet, crossed>>
    BY <1>p DEF Callback, appVars, history
<1>7. CASE CloseCallbacks
  <2>1. Callback(<<>>)
    BY <1>7 DEF CloseCallbacks, HandleClosed, TimerClosed
  <2>2. LoopTurn(<<>>) /\ UNCHANGED <<timeoutSet, crossed>>
    BY <2>1, <1>p
  <2>3. QED BY <1>1, <1>c, <2>2
<1>8. ASSUME NEW h \in Handles, ConnectSucceeds(h) \/ DataArrives(h) PROVE StopsAnswered'
  <2>1. timeoutSet \in BOOLEAN
    BY <1>a DEF TypeOK
  <2>2. /\ backlog' = Posted("loop", StopTimeoutTimer \o StartTimeoutTimer(timeoutSet))
        /\ UNCHANGED <<timeoutSet, crossed>>
    BY <1>8 DEF ConnectSucceeds, DataArrives, Event, Callback, LoopTurn, appVars, history
  <2>3. timeoutSet /\ ~crossed' => \A b \in Callers \ {"loop"} : Restarted(backlog[b])
    BY <2>2 DEF StopsAnswered
  <2>4. QED BY <1>3, <1>a, <2>1, <2>2, <2>3
<1>9. ASSUME NEW h \in Handles, ConnectFails(h) \/ ConnectCancelled(h) \/ ConnectionEnds(h)
      PROVE  StopsAnswered'
  <2>1. \/ Callback(<<StartReconnect>>)
        \/ Callback(DisconnectPosts \o <<StartReconnect>>)
    BY <1>9 DEF ConnectFails, ConnectCancelled, ConnectionEnds, Event
  <2>2. /\ UNCHANGED <<timeoutSet, crossed>>
        /\ LoopTurn(<<StartReconnect>>) \/ LoopTurn(DisconnectPosts \o <<StartReconnect>>)
    BY <2>1, <1>p
  <2>3. QED BY <1>1, <1>d, <2>2
<1>10. ASSUME NEW t \in ReconnectTimers, ReconnectFires(t) PROVE StopsAnswered'
  <2>1. m_host \in Hosts /\ t \in Timers
    BY <1>10, <1>a DEF ReconnectFires, TypeInv, HostSet, TypeOK, Timers
  <2>2. ConnectTask(m_host) \in Task /\ ConnectTask(m_host) # StopTimeout
    BY <2>1, TaskKinds DEF ConnectTask, StopTimeout
  <2>3. /\ When(m_state = "DISCONNECTED", ConnectTask(m_host)) \in Seq(Task)
        /\ StopTimeout \notin Elements(When(m_state = "DISCONNECTED", ConnectTask(m_host)))
    BY <1>b, <1>c, <2>2 DEF When
  <2>4. QED BY <1>1, <1>10, <2>3 DEF ReconnectFires, Event, Callback, appVars, history
<1>11. ASSUME NEW t \in TimeoutTimers, TimeoutFires(t) PROVE StopsAnswered'
    BY <1>1, <1>11, <1>d DEF TimeoutFires, Event, Callback, appVars, history
<1>12. CASE UNCHANGED vars
    BY <1>4, <1>12 DEF vars, taskVars, appVars, history
<1>16. QED
    BY <1>5, <1>6, <1>7, <1>8, <1>9, <1>10, <1>11, <1>12, <1>13, <1>14, <1>15 DEF Next, Answered

\* What Watched is about: the connection that has to be watched ...
MustWatch ==
    timeoutSet /\ m_state = "CONNECTED" /\ m_tcpHandle # Null /\ tcp[m_tcpHandle] = "reading"

\* ... and the watchdog.
Armed == m_receiveTimeoutTimer # Null /\ timer[m_receiveTimeoutTimer] = "armed"

\* The histories of the threads that got into each other's way only grow.
LEMMA CrossedStays == [Next]_vars => (crossed => crossed')
BY DEF vars, appVars, history, Next, AppNext, AppConnect, AppSend, AppSetReceiveTimeout,
       AppSetReconnectInterval, AppDestroy, AppDisconnect, DisconnectLoad, DisconnectNext,
       DisconnectStore, DisconnectCopyTcp, DisconnectCopyTimeout, DisconnectCopyReconnect,
       DisconnectCopy, DisconnectClearTcp, DisconnectClearTimeout, DisconnectClearReconnect,
       DisconnectPost, TaskNext, ConnectRefused, ConnectBadAddress, ConnectStarts,
       ConnectFailsAtOnce, RunClose, RunStartReconnect, RunStartTimeout, RunStopTimeout, RunSend,
       RunSendOverflow, CloseCallbacks, HandleClosed, TimerClosed, Answered, ConnectSucceeds,
       ConnectFails, ConnectCancelled, DataArrives, ConnectionEnds, ReconnectFires, TimeoutFires,
       Event, Callback

LEMMA WatchedStep ==
    ASSUME TypeInv, Ownership, StopsAnswered, Watched, [Next]_vars
    PROVE  Watched'
<1> SUFFICES ASSUME MustWatch', ~crossed', (m_receiveTimeoutTimer \notin torn)'
             PROVE  Armed' \/ StartTimeout \in QueuedTasks'
    BY DEF Watched, MustWatch, Armed
<1>a. /\ TypeOK /\ Queues(Task) /\ ~crossed /\ torn \subseteq torn'
      /\ backlog \in [Callers -> Seq(Task)] /\ "loop" \in Callers
    BY CrossedStays, TornStays DEF TypeInv, Queues, Callers
<1>b. /\ tcp \in [Handles -> TcpLife] /\ timer \in [Timers -> TimerLife]
      /\ m_tcpHandle \in Handles \cup {Null}
      /\ m_reconnectTimer \in ReconnectTimers \cup {Null}
      /\ m_receiveTimeoutTimer \in TimeoutTimers \cup {Null} /\ Null \notin Timers
      /\ ReconnectTimers \cap TimeoutTimers = {} /\ Timers = ReconnectTimers \cup TimeoutTimers
    BY <1>a, ClientAssumption DEF TypeOK, Timers
<1>c. UNCHANGED m_receiveTimeoutTimer /\ MustWatch => Armed \/ StartTimeout \in QueuedTasks
    BY <1>a DEF Watched, MustWatch, Armed
<1>d. m_state' = "CONNECTED" /\ timeoutSet' /\ m_tcpHandle' # Null /\ tcp'[m_tcpHandle'] = "reading"
    BY DEF MustWatch
\* A closure that starts the watchdog stays queued until it runs.
<1>e. ASSUME NEW tasks \in Seq(Task),
             (\E c \in Callers : backlog' = Posted(c, tasks)) \/ LoopTurn(tasks)
      PROVE  QueuedTasks' = QueuedTasks \cup Elements(tasks)
    BY <1>e, <1>a, PostTypes, TurnTypes
<1>f. ASSUME NEW c \in Callers, NEW op, op # "startTimeout", NEW tasks \in Seq(Task),
             RunTask(c, op, tasks)
      PROVE  StartTimeout \in QueuedTasks => StartTimeout \in QueuedTasks'
  <2>1. Head(backlog[c]).op = op /\ QueuedTasks \ {Head(backlog[c])} \subseteq QueuedTasks'
    BY <1>f, <1>a, RunQueues
  <2>2. QED BY <1>f, <2>1 DEF StartTimeout
<1>g. UNCHANGED backlog => QueuedTasks' = QueuedTasks
    BY DEF QueuedTasks
<1>h. <<>> \in Seq(Task)
    OBVIOUS
\* Nothing that matters changes.
<1>1. ASSUME UNCHANGED <<timeoutSet, m_state, m_tcpHandle, tcp, m_receiveTimeoutTimer, timer>>,
             StartTimeout \in QueuedTasks => StartTimeout \in QueuedTasks'
      PROVE  Armed' \/ StartTimeout \in QueuedTasks'
    BY <1>1, <1>c, <1>d DEF MustWatch, Armed
<1>2. ASSUME NEW c \in Callers, AppNext(c) PROVE Armed' \/ StartTimeout \in QueuedTasks'
  <2>1. ASSUME NEW host \in Hosts, AppConnect(c, host) PROVE Armed' \/ StartTimeout \in QueuedTasks'
    <3>1. <<ConnectTask(host)>> \in Seq(Task)
      BY TaskKinds
    <3>2. QueuedTasks \subseteq QueuedTasks'
      BY <1>e, <2>1, <3>1 DEF AppConnect
    <3>3. QED BY <1>1, <2>1, <3>2 DEF AppConnect, pointers
  <2>2. CASE AppSend(c)
    <3>1. <<SendTask>> \in Seq(Task)
      BY TaskKinds
    <3>2. QueuedTasks \subseteq QueuedTasks'
      BY <1>e, <2>2, <3>1 DEF AppSend
    <3>3. QED BY <1>1, <2>2, <3>2 DEF AppSend, pointers
  <2>3. ASSUME NEW on \in BOOLEAN, AppSetReceiveTimeout(c, on) PROVE StartTimeout \in QueuedTasks'
    <3>1. on = TRUE
      BY <1>d, <2>3 DEF AppSetReceiveTimeout
    <3>2. backlog' = Posted(c, StopTimeoutTimer \o StartTimeoutTimer(TRUE))
      BY <2>3, <3>1 DEF AppSetReceiveTimeout
    <3>3. QED BY <1>a, <1>e, <3>2, StopAndStart
  <2>4. ASSUME NEW s \in Settings, AppSetReconnectInterval(c, s[1], s[2])
        PROVE  Armed' \/ StartTimeout \in QueuedTasks'
    BY <1>1, <1>g, <2>4 DEF AppSetReconnectInterval, pointers
  <2>5. CASE AppDestroy(c)
    BY <1>d, <2>5 DEF AppDestroy
  <2>6. QED BY <1>2, <2>1, <2>2, <2>3, <2>4, <2>5 DEF AppNext
\* The other thread's disconnect() clears the handle before the watchdog.
<1>16. CASE AppDisconnect \/ DisconnectStore \/ DisconnectClearTcp
    BY <1>d, <1>16 DEF AppDisconnect, Disconnect, DisconnectStore, DisconnectClearTcp
<1>17. CASE DisconnectClearTimeout
  <2>1. m_state = "CONNECTED"
    BY <1>d, <1>17 DEF DisconnectClearTimeout, DisconnectClear
  <2>2. QED BY <1>17, <2>1 DEF DisconnectClearTimeout
<1>18. CASE \/ DisconnectLoad \/ DisconnectCopyTcp \/ DisconnectCopyTimeout
            \/ DisconnectCopyReconnect \/ DisconnectClearReconnect
    BY <1>1, <1>g, <1>18
       DEF DisconnectLoad, DisconnectCopyTcp, DisconnectCopyTimeout, DisconnectCopyReconnect,
           DisconnectCopy, DisconnectClearReconnect, DisconnectClear, pointers, taskVars
<1>19. CASE DisconnectPost
  <2>1. taken.tcp \in Handles \cup {Null} /\ taken.timers \in SUBSET (Timers \cup {Null})
    BY <1>a DEF TypeOK
  <2>2. <<CloseTask(taken.tcp, taken.timers)>> \in Seq(Task) /\ "app" \in Callers
    BY <2>1, TaskKinds DEF Callers
  <2>3. QueuedTasks \subseteq QueuedTasks'
    BY <1>e, <1>19, <2>2 DEF DisconnectPost
  <2>4. QED BY <1>1, <1>19, <2>3 DEF DisconnectPost, pointers
<1>3. ASSUME NEW c \in Callers, ConnectRefused(c) \/ RunSend(c)
      PROVE  Armed' \/ StartTimeout \in QueuedTasks'
  <2>1. StartTimeout \in QueuedTasks => StartTimeout \in QueuedTasks'
    BY <1>3, <1>f, <1>h DEF ConnectRefused, RunSend
  <2>2. QED BY <1>1, <1>3, <2>1 DEF ConnectRefused, RunSend, pointers
<1>4. ASSUME NEW c \in Callers,
             \/ ConnectBadAddress(c) \/ ConnectStarts(c) \/ ConnectFailsAtOnce(c)
             \/ RunSendOverflow(c)
      PROVE  FALSE
    BY <1>d, <1>4
       DEF ConnectBadAddress, ConnectStarts, ConnectFailsAtOnce, RunSendOverflow, Disconnect
\* The handles that a closure closes are not the client's.
<1>5. ASSUME NEW c \in Callers, RunClose(c) PROVE Armed' \/ StartTimeout \in QueuedTasks'
  <2> DEFINE task == Head(backlog[c])
  <2>1. StartTimeout \in QueuedTasks => StartTimeout \in QueuedTasks'
    BY <1>5, <1>f, <1>h DEF RunClose
  <2>2. /\ tcp' = [h \in Handles |-> IF h = task.tcp THEN Closed(tcp[h]) ELSE tcp[h]]
        /\ timer' = [t \in Timers |-> IF t \in task.timers THEN "closing" ELSE timer[t]]
        /\ UNCHANGED <<timeoutSet, m_state, m_tcpHandle, m_receiveTimeoutTimer>>
    BY <1>5 DEF RunClose, pointers
  <2>3. MustWatch
    BY <1>b, <1>d, <2>2 DEF MustWatch, Closed
  <2>4. task \in Task /\ task.op = "close" /\ task \in QueuedTasks
    BY <1>5, <1>a, <1>h, RunTypes DEF RunClose
  <2>5. m_receiveTimeoutTimer # Null => task \notin Closers(m_receiveTimeoutTimer)
    <3>1. m_receiveTimeoutTimer # Null =>
            Kept(m_receiveTimeoutTimer) /\ Owned(m_receiveTimeoutTimer)
      BY <1>a, <1>b, <2>2 DEF Ownership, Objects, Owned
    <3>2. QED BY <2>4, <3>1 DEF Kept, Closing
  <2>6. m_receiveTimeoutTimer # Null => m_receiveTimeoutTimer \notin task.timers
    BY <2>4, <2>5 DEF Closers
  <2>7. Armed => Armed'
    BY <1>b, <2>2, <2>6 DEF Armed
  <2>8. QED BY <1>c, <2>1, <2>2, <2>3, <2>7
<1>6. ASSUME NEW c \in Callers, RunStartReconnect(c) PROVE Armed' \/ StartTimeout \in QueuedTasks'
  <2>1. StartTimeout \in QueuedTasks => StartTimeout \in QueuedTasks'
    BY <1>6, <1>f, <1>h DEF RunStartReconnect
  <2>2. m_state # "DISCONNECTED"
    BY <1>d, <1>6 DEF RunStartReconnect
  <2>3. QED BY <1>1, <1>6, <2>1, <2>2 DEF RunStartReconnect
<1>7. ASSUME NEW c \in Callers, RunStartTimeout(c) PROVE Armed'
  <2>1. m_state = "CONNECTED"
    BY <1>d, <1>7 DEF RunStartTimeout
  <2>2. PICK t \in OwnOrNew(m_receiveTimeoutTimer, TimeoutTimers, timer) :
           m_receiveTimeoutTimer' = t /\ timer' = Started(t)
    BY <1>7, <2>1 DEF RunStartTimeout
  <2>3. t \in Timers
    BY <1>b, <2>2 DEF OwnOrNew, New
  <2>4. QED BY <1>b, <2>2, <2>3 DEF Armed, Started
\* The closure that stops the watchdog is followed by one that starts it.
<1>8. ASSUME NEW c \in Callers, RunStopTimeout(c) PROVE StartTimeout \in QueuedTasks'
  <2>1. RunTask(c, "stopTimeout", <<>>) /\ UNCHANGED timeoutSet
    BY <1>8 DEF RunStopTimeout
  <2>2. backlog[c] # <<>> /\ backlog[c] \in Seq(Task)
    BY <1>a, <2>1 DEF RunTask
  <2>3. Head(backlog[c]) = StopTimeout
    BY <1>a, <1>h, <2>1, RunTypes, TaskFields
  <2>4. StartTimeout \in Elements(Tail(backlog[c]))
    BY <1>a, <1>d, <2>1, <2>2, <2>3, TailRestarted DEF StopsAnswered
  <2>5. Elements(backlog[c]) = {Head(backlog[c])} \cup Elements(Tail(backlog[c]))
    BY <2>2, TailElements
  <2>6. StartTimeout \in QueuedTasks
    BY <2>4, <2>5, BothQueues DEF Callers
  <2>7. QED BY <1>f, <1>h, <2>1, <2>6
\* What a callback of libuv posts joins the loop's own queue.
<1>9. ASSUME NEW h \in Handles, ConnectSucceeds(h) \/ DataArrives(h)
      PROVE  StartTimeout \in QueuedTasks'
  <2>1. LoopTurn(StopTimeoutTimer \o StartTimeoutTimer(timeoutSet)) /\ UNCHANGED timeoutSet
    BY <1>9 DEF ConnectSucceeds, DataArrives, Event, Callback
  <2>2. timeoutSet = TRUE
    BY <1>a, <1>d, <2>1 DEF TypeOK
  <2>3. QED BY <1>a, <1>e, <2>1, <2>2, StopAndStart
<1>10. ASSUME NEW h \in Handles, ConnectFails(h) \/ ConnectCancelled(h) \/ ConnectionEnds(h)
       PROVE  FALSE
    BY <1>10, <1>d DEF ConnectFails, ConnectCancelled, ConnectFailed, ConnectionEnds, Disconnect
<1>11. ASSUME NEW h \in Handles, HandleClosed(h) PROVE Armed' \/ StartTimeout \in QueuedTasks'
  <2>1. QueuedTasks \subseteq QueuedTasks'
    BY <1>11, <1>e, <1>h DEF HandleClosed, Callback
  <2>2. /\ tcp' = [tcp EXCEPT ![h] = "free"]
        /\ UNCHANGED <<timeoutSet, m_state, m_tcpHandle, m_receiveTimeoutTimer, timer>>
    BY <1>11 DEF HandleClosed, Callback, pointers
  <2>3. MustWatch
    BY <1>b, <1>d, <2>2 DEF MustWatch
  <2>4. QED BY <1>c, <2>1, <2>2, <2>3 DEF Armed
<1>12. ASSUME NEW t \in Timers, TimerClosed(t) \/ (t \in ReconnectTimers /\ ReconnectFires(t))
       PROVE  Armed' \/ StartTimeout \in QueuedTasks'
  <2>1. /\ UNCHANGED <<timeoutSet, m_state, m_tcpHandle, m_receiveTimeoutTimer, tcp>>
        /\ \E v : timer' = [timer EXCEPT ![t] = v]
        /\ timer[t] = "closing" \/ t \in ReconnectTimers
    BY <1>12 DEF TimerClosed, ReconnectFires, Event, Callback, pointers
  <2>2. MustWatch
    BY <1>d, <2>1 DEF MustWatch
  <2>3. Armed => Armed'
    BY <1>b, <2>1 DEF Armed
  <2>4. QueuedTasks \subseteq QueuedTasks'
    <3>1. CASE TimerClosed(t)
      BY <1>e, <1>h, <3>1 DEF TimerClosed, Callback
    <3>2. CASE ReconnectFires(t)
      <4>1. m_state # "DISCONNECTED"
        BY <1>d, <2>1
      <4>2. LoopTurn(<<>>)
        BY <3>2, <4>1 DEF ReconnectFires, Event, Callback, When
      <4>3. QED BY <1>e, <1>h, <4>2
    <3>3. QED BY <1>12, <3>1, <3>2
  <2>5. QED BY <1>c, <2>1, <2>2, <2>3, <2>4
<1>13. ASSUME NEW t \in TimeoutTimers, TimeoutFires(t) PROVE FALSE
    BY <1>13, <1>d DEF TimeoutFires, Disconnect
<1>14. CASE UNCHANGED vars
    BY <1>1, <1>g, <1>14 DEF vars, taskVars, pointers
<1>15. QED
    BY <1>b, <1>2, <1>3, <1>4, <1>5, <1>6, <1>7, <1>8, <1>9, <1>10, <1>11, <1>12, <1>13, <1>14,
       <1>16, <1>17, <1>18, <1>19
       DEF Next, DisconnectNext, TaskNext, CloseCallbacks, Answered

\* With a receive timeout set, a connection that carries data is watched, or
\* is about to be, by whatever threads the API is called, unless two threads
\* got into each other's way over the watchdog.
THEOREM ConnectionIsWatched == Spec => []Watched
<1>1. Init => StopsAnswered /\ Watched
    BY DEF Init, TasksInit, StopsAnswered, Watched
<1>2. TypeInv /\ Ownership /\ [Next]_vars => Ownership'
    BY OwnershipStep
<1>3. TypeInv /\ Ownership /\ StopsAnswered /\ [Next]_vars => StopsAnswered'
    BY StopsAnsweredStep
<1>4. TypeInv /\ Ownership /\ StopsAnswered /\ Watched /\ [Next]_vars => Watched'
    BY WatchedStep
<1>5. QED
    BY TypeInit, TypeStep, OwnershipInit, <1>1, <1>2, <1>3, <1>4, PTL DEF Spec
=============================================================================
