--------------------------- MODULE TcpServer_proofs ---------------------------
(***************************************************************************)
(* Theorems about TcpServer, for any number of addresses, listeners and    *)
(* connections and any number of calls.                                    *)
(***************************************************************************)
EXTENDS TcpServer, LoopTasks_proofs

(***************************************************************************)
(* The closures.                                                           *)
(***************************************************************************)
LEMMA TaskKinds ==
    /\ ListenTask \in Task
    /\ \A on \in BOOLEAN : IntervalTask(on) \in Task /\ IntervalTask(on).op = "interval"
    /\ \A a \in Addrs : SendTask(a) \in Task /\ SendTask(a).op = "send"
    /\ \A l \in Listeners \cup {Null}, conns \in SUBSET Conns :
          /\ StopTask(l, conns) \in Task
          /\ StopTask(l, conns).op = "stop"
          /\ StopTask(l, conns).listener = l
          /\ StopTask(l, conns).conns = conns
    /\ ListenTask.op = "listen"
<1>1. /\ ListenTask \in Task
      /\ \A on \in BOOLEAN : IntervalTask(on) \in Task
      /\ \A a \in Addrs : SendTask(a) \in Task
    BY DEF Task
<1>2. \A l \in Listeners \cup {Null}, conns \in SUBSET Conns : StopTask(l, conns) \in Task
    BY DEF Task
<1>3. QED BY <1>1, <1>2 DEF ListenTask, IntervalTask, SendTask, StopTask

LEMMA TaskFields ==
    ASSUME NEW task \in Task
    PROVE  /\ task.op = "interval" => task.on \in BOOLEAN
           /\ task.op = "send" => task.addr \in Addrs
           /\ task.op = "stop" => /\ task.listener \in Listeners \cup {Null}
                                  /\ task.conns \in SUBSET Conns
                                  /\ task = StopTask(task.listener, task.conns)
<1>1. CASE task = ListenTask
    BY <1>1 DEF ListenTask
<1>2. ASSUME NEW on \in BOOLEAN, task = IntervalTask(on) PROVE task.op = "interval" /\ task.on = on
    BY <1>2 DEF IntervalTask
<1>3. ASSUME NEW a \in Addrs, task = SendTask(a) PROVE task.op = "send" /\ task.addr = a
    BY <1>3 DEF SendTask
<1>4. ASSUME NEW l \in Listeners \cup {Null}, NEW conns \in SUBSET Conns, task = StopTask(l, conns)
      PROVE  task.op = "stop" /\ task.listener = l /\ task.conns = conns
    BY <1>4 DEF StopTask
<1>5. QED BY <1>1, <1>2, <1>3, <1>4 DEF Task

(***************************************************************************)
(* Type correctness.                                                       *)
(***************************************************************************)
TypeInv == TypeOK /\ Queues(Task)

LEMMA TypeInit == Init => TypeInv
<1> SUFFICES ASSUME Init PROVE TypeInv
    OBVIOUS
<1>1. Queues(Task)
    BY DEF Init, TasksInit, Queues
<1>2. QueuedTasks = {}
    BY DEF Init, TasksInit, QueuedTasks
<1>3. /\ listener \in [Listeners -> {"free", "open", "listening", "closing"}]
      /\ tcp \in [Conns -> {"free", "reading", "closing", "deleting"}]
      /\ watchdog \in [Conns -> {"free", "armed", "stopped", "closing"}]
      /\ ctx \in [Conns -> Addrs \cup {Null}]
      /\ m_clients \in [Addrs -> Conns \cup {Null}]
    BY DEF Init, NoClients
<1>4. /\ taken \in [listener : Listeners \cup {Null}, conns : SUBSET Conns]
      /\ calls \in 0..MaxCalls
    BY ServerAssumption DEF Init, NothingTaken
<1>5. QED
    BY <1>1, <1>2, <1>3, <1>4
       DEF Init, TasksInit, TypeInv, TypeOK, ServerState

\* Closures are posted by a thread, or one of them runs.
LEMMA PostTypes ==
    ASSUME Queues(Task), NEW c \in Callers, NEW tasks \in Seq(Task), backlog' = Posted(c, tasks)
    PROVE  Queues(Task)' /\ QueuedTasks' \subseteq Task /\ DOMAIN backlog' = Callers
<1>1. Queues(Task)'
    BY PostQueues
<1>2. QED BY <1>1 DEF Queues, QueuedTasks

LEMMA RunTypes ==
    ASSUME Queues(Task), NEW c \in Callers, NEW op, Run(c, op)
    PROVE  /\ Queues(Task)' /\ QueuedTasks' \subseteq Task /\ DOMAIN backlog' = Callers
           /\ draining' \in BOOLEAN
           /\ Head(backlog[c]) \in Task /\ Head(backlog[c]).op = op
<1>1. RunTask(c, op, <<>>) /\ <<>> \in Seq(Task)
    BY DEF Run
<1>2. Queues(Task)' /\ Head(backlog[c]) \in Task /\ Head(backlog[c]).op = op
    BY <1>1, RunQueues
<1>3. QueuedTasks' \subseteq Task /\ DOMAIN backlog' = Callers
    BY <1>2 DEF Queues, QueuedTasks
<1>4. draining' \in BOOLEAN
    BY <1>1 DEF RunTask
<1>5. QED BY <1>2, <1>3, <1>4

LEMMA KnownConns == TypeOK => Known \in SUBSET Conns
BY DEF TypeOK, Known

LEMMA HandleIsListener == TypeOK => ServerHandle \in SUBSET Listeners
BY DEF TypeOK, ServerHandle

\* A callback of libuv posts nothing.
LEMMA EventQueues == Queues(Task) /\ Callback => UNCHANGED <<backlog, draining>>
<1> SUFFICES ASSUME Queues(Task), Callback PROVE UNCHANGED <<backlog, draining>>
    OBVIOUS
<1>1. backlog["loop"] \o <<>> = backlog["loop"]
    BY DEF Queues, Callers
<1>2. QED BY <1>1 DEF Callback, LoopTurn, Posted, Queues, Callers

LEMMA TypeStep == TypeInv /\ [Next]_vars => TypeInv'
<1> SUFFICES ASSUME TypeInv, [Next]_vars PROVE TypeInv'
    OBVIOUS
<1> USE DEF TypeInv, TypeOK, ServerState, stateVars, connVars, history, appVars, taskVars
<1>a. Queues(Task) /\ QueuedTasks \subseteq Task /\ DOMAIN backlog = Callers
    OBVIOUS
<1>b. UNCHANGED backlog => (Queues(Task) /\ QueuedTasks \subseteq Task /\ DOMAIN backlog = Callers)'
    BY <1>a DEF Queues, QueuedTasks
<1>c. "app" \in Callers /\ "loop" \in Callers
    BY DEF Callers
<1>d. MaxCalls \in Nat
    BY ServerAssumption
<1>1. ASSUME NEW thread \in Callers, Listen(thread) PROVE TypeInv'
  <2>1. When(m_state = "STOPPED", ListenTask) \in Seq(Task)
    BY TaskKinds DEF When
  <2>2. Queues(Task)' /\ QueuedTasks' \subseteq Task /\ DOMAIN backlog' = Callers
    BY <1>1, <2>1, PostTypes DEF Listen
  <2>3. QED BY <1>1, <1>d, <2>2 DEF Listen, Call
<1>2. ASSUME NEW thread \in Callers, NEW a \in Addrs, Send(thread, a) PROVE TypeInv'
  <2>1. <<SendTask(a)>> \in Seq(Task)
    BY TaskKinds
  <2>2. Queues(Task)' /\ QueuedTasks' \subseteq Task /\ DOMAIN backlog' = Callers
    BY <1>2, <2>1, PostTypes DEF Send
  <2>3. QED BY <1>2, <1>d, <2>2 DEF Send, Call
<1>3. ASSUME NEW thread \in Callers, NEW on \in BOOLEAN, SetReceiveTimeoutInterval(thread, on)
      PROVE  TypeInv'
  <2>1. <<IntervalTask(on)>> \in Seq(Task)
    BY TaskKinds
  <2>2. Queues(Task)' /\ QueuedTasks' \subseteq Task /\ DOMAIN backlog' = Callers
    BY <1>3, <2>1, PostTypes DEF SetReceiveTimeoutInterval
  <2>3. QED BY <1>3, <1>d, <2>2 DEF SetReceiveTimeoutInterval, Call
<1>4. CASE Stop
  <2>a. /\ calls' \in 0..MaxCalls
        /\ {timeoutSet, draining, starting, wanted, overrun}' \subseteq BOOLEAN
    <3>1. calls' \in 0..MaxCalls
      BY <1>4, <1>d DEF Stop, Call
    <3>2. wanted' \in BOOLEAN
      BY <1>4 DEF Stop
    <3>3. QED BY <1>4, <3>1, <3>2 DEF Stop
  <2>1. CASE StopAll
    <3>1. <<StopTask(m_serverHandle, Known)>> \in Seq(Task)
      BY KnownConns, TaskKinds
    <3>2. Queues(Task)' /\ QueuedTasks' \subseteq Task /\ DOMAIN backlog' = Callers
      BY <1>c, <2>1, <3>1, PostTypes DEF StopAll
    <3>3. m_clients' \in [Addrs -> Conns \cup {Null}]
      BY <2>1 DEF StopAll, NoClients
    <3>4. QED BY <1>4, <2>a, <2>1, <3>2, <3>3 DEF Stop, StopAll
  <2>2. CASE StopIgnored
    BY <1>4, <1>b, <2>a, <2>2 DEF Stop, StopIgnored
  <2>3. QED BY <1>4, <2>1, <2>2 DEF Stop
<1>5. CASE StopLoad
  <2>1. calls' \in 0..MaxCalls
    BY <1>5, <1>d DEF StopLoad, Call
  <2>2. QED BY <1>5, <1>b, <2>1 DEF StopLoad
<1>6. CASE StopStore \/ StopClearHandle \/ StopEnd
    BY <1>6, <1>b DEF StopStore, StopClearHandle, StopEnd, StopStep
<1>7. CASE StopCopyHandle \/ StopCopyClients
    BY <1>7, <1>b, KnownConns DEF StopCopyHandle, StopCopyClients, StopStep
<1>8. CASE StopClearClients
  <2>1. m_clients' \in [Addrs -> Conns \cup {Null}]
    BY <1>8 DEF StopClearClients, NoClients
  <2>2. QED BY <1>8, <1>b, <2>1 DEF StopClearClients, StopStep
<1>9. CASE StopPost
  <2>1. <<StopTask(taken.listener, taken.conns)>> \in Seq(Task)
    BY TaskKinds
  <2>2. Queues(Task)' /\ QueuedTasks' \subseteq Task /\ DOMAIN backlog' = Callers
    BY <1>9, <1>c, <2>1, PostTypes DEF StopPost
  <2>3. taken' \in [listener : Listeners \cup {Null}, conns : SUBSET Conns]
    BY <1>9 DEF StopPost, NothingTaken
  <2>4. QED BY <1>9, <2>2, <2>3 DEF StopPost, StopStep
<1>10. ASSUME NEW thread \in Callers, ListenRefused(thread) PROVE TypeInv'
    BY <1>10, RunTypes DEF ListenRefused, Run
<1>11. ASSUME NEW thread \in Callers,
              ListenFails(thread) \/ ListenOpens(thread) \/ ListenHasNoHandle(thread)
       PROVE  TypeInv'
  <2>1. /\ Queues(Task)' /\ QueuedTasks' \subseteq Task /\ DOMAIN backlog' = Callers
        /\ draining' \in BOOLEAN
    BY <1>11, RunTypes DEF ListenFails, ListenOpens, ListenHasNoHandle
  <2>2. CASE ListenHasNoHandle(thread)
    BY <2>1, <2>2 DEF ListenHasNoHandle, Run
  <2>3. CASE ListenFails(thread) \/ ListenOpens(thread)
    BY <2>1, <2>3, HandleIsListener DEF ListenFails, ListenOpens, Run, Exposed
  <2>4. QED BY <1>11, <2>2, <2>3
<1>12. ASSUME NEW thread \in Callers, RunStop(thread) PROVE TypeInv'
  <2>1. /\ Queues(Task)' /\ QueuedTasks' \subseteq Task /\ DOMAIN backlog' = Callers
        /\ draining' \in BOOLEAN
    BY <1>12, RunTypes DEF RunStop
  <2>2. /\ listener' \in [Listeners -> {"free", "open", "listening", "closing"}]
        /\ tcp' \in [Conns -> {"free", "reading", "closing", "deleting"}]
        /\ watchdog' \in [Conns -> {"free", "armed", "stopped", "closing"}]
    BY <1>12 DEF RunStop
  <2>3. QED BY <1>12, <2>1, <2>2 DEF RunStop, Run
<1>13. ASSUME NEW thread \in Callers, RunSend(thread) PROVE TypeInv'
  <2>1. /\ Queues(Task)' /\ QueuedTasks' \subseteq Task /\ DOMAIN backlog' = Callers
        /\ draining' \in BOOLEAN
        /\ Head(backlog[thread]).addr \in Addrs
    BY <1>13, RunTypes, TaskFields DEF RunSend
  <2>2. writing' \subseteq Conns
    BY <1>13, <2>1 DEF RunSend
  <2>3. QED BY <1>13, <2>1, <2>2 DEF RunSend, Run
<1>14. ASSUME NEW thread \in Callers, RunInterval(thread) PROVE TypeInv'
  <2>1. /\ Queues(Task)' /\ QueuedTasks' \subseteq Task /\ DOMAIN backlog' = Callers
        /\ draining' \in BOOLEAN
        /\ Head(backlog[thread]).on \in BOOLEAN
    BY <1>14, RunTypes, TaskFields DEF RunInterval
  <2>2. QED BY <1>14, <2>1 DEF RunInterval, Run
<1>15. CASE ListenDone
    BY <1>15, <1>b DEF ListenDone
<1>16. ASSUME Callback PROVE UNCHANGED <<backlog, draining>>
    BY <1>16, EventQueues
<1>17. ASSUME NEW c \in Conns, ConnNext(c) PROVE TypeInv'
    BY <1>16, <1>17, <1>b
       DEF ConnNext, Event, Callback, NewConnection, DuplicateConnection, Arrives, DataArrives,
           ConnectionEnds, ConnectionClosed, TimeoutFires, WriteDone
<1>18. ASSUME NEW c \in Conns, ConnClosed(c) PROVE TypeInv'
    BY <1>16, <1>18, <1>b
       DEF ConnClosed, Event, Callback, ClientDisconnected, ClientDeleted, WatchdogDeleted
<1>19. ASSUME NEW l \in Listeners, ListenerDeleted(l) PROVE TypeInv'
    BY <1>16, <1>19, <1>b DEF ListenerDeleted, Event, Callback
<1>20. CASE UNCHANGED vars
    BY <1>20, <1>b DEF vars
<1>21. QED
    BY <1>1, <1>2, <1>3, <1>4, <1>5, <1>6, <1>7, <1>8, <1>9, <1>10, <1>11, <1>12, <1>13, <1>14,
       <1>15, <1>17, <1>18, <1>19, <1>20 DEF Next, AppNext, StopNext, TaskNext

\* Every variable of the server keeps its type, whatever threads call it.
THEOREM TypeCorrect == Spec => []TypeOK
<1>1. TypeInv => TypeOK
    BY DEF TypeInv
<1>2. QED BY TypeInit, TypeStep, <1>1, PTL DEF Spec

(***************************************************************************)
(* The life of a connection, its watchdog, its context and its writes.     *)
(***************************************************************************)
Life(c) ==
    /\ tcp[c] = "free" => ctx[c] = Null /\ c \notin writing
    /\ tcp[c] \in {"free", "deleting"} => watchdog[c] \in {"free", "closing"}
    /\ tcp[c] = "reading" => watchdog[c] \in {"free", "armed"}
    /\ tcp[c] \in {"reading", "closing"} \/ c \in writing => ctx[c] # Null

Lives == \A c \in Conns : Life(c)

\* Only these steps touch a connection, and a callback touches only its own.
LEMMA ConnSteps ==
    ASSUME [Next]_vars
    PROVE  \/ UNCHANGED connVars
           \/ \E thread \in Callers : RunStop(thread) \/ RunSend(thread)
           \/ \E c \in Conns : ConnNext(c) \/ ConnClosed(c)
<1>1. CASE AppNext
    BY <1>1 DEF AppNext, Listen, Send, SetReceiveTimeoutInterval, Stop, StopLoad, connVars
<1>2. CASE StopNext
    BY <1>2 DEF StopNext, StopStore, StopCopyHandle, StopClearHandle, StopCopyClients,
                StopClearClients, StopPost, StopEnd, StopStep
<1>3. ASSUME NEW thread \in Callers,
             ListenRefused(thread) \/ ListenHasNoHandle(thread) \/ ListenFails(thread)
                \/ ListenOpens(thread) \/ RunInterval(thread)
      PROVE  UNCHANGED connVars
    BY <1>3 DEF ListenRefused, ListenHasNoHandle, ListenFails, ListenOpens, RunInterval
<1>4. CASE ListenDone \/ \E l \in Listeners : ListenerDeleted(l)
    BY <1>4 DEF ListenDone, ListenerDeleted
<1>5. CASE UNCHANGED vars
    BY <1>5 DEF vars
<1>6. QED BY <1>1, <1>2, <1>3, <1>4, <1>5 DEF Next, TaskNext

LEMMA LivesInit == Init => Lives
BY DEF Init, Lives, Life

LEMMA LivesStep == TypeInv /\ Lives /\ [Next]_vars => Lives'
<1> SUFFICES ASSUME TypeInv, Lives, [Next]_vars, NEW c \in Conns PROVE Life(c)'
    BY DEF Lives
<1>a. Life(c)
    BY DEF Lives
<1>b. /\ tcp \in [Conns -> {"free", "reading", "closing", "deleting"}]
      /\ watchdog \in [Conns -> {"free", "armed", "stopped", "closing"}]
      /\ ctx \in [Conns -> Addrs \cup {Null}]
      /\ Null \notin Addrs
    BY ServerAssumption DEF TypeInv, TypeOK
<1>1. CASE UNCHANGED connVars
    BY <1>a, <1>1 DEF Life, connVars
<1>2. ASSUME NEW thread \in Callers, RunStop(thread) PROVE Life(c)'
    BY <1>a, <1>b, <1>2 DEF RunStop, Life
<1>3. ASSUME NEW thread \in Callers, RunSend(thread) PROVE Life(c)'
    BY <1>a, <1>b, <1>3 DEF RunSend, Life
<1>4. ASSUME NEW d \in Conns, ConnNext(d) PROVE Life(c)'
  <2>1. ASSUME NEW a \in Addrs, NewConnection(a, d) \/ DuplicateConnection(a, d) PROVE Life(c)'
    BY <1>a, <1>b, <2>1 DEF NewConnection, DuplicateConnection, Arrives, Life
  <2>2. CASE DataArrives(d) \/ WriteDone(d)
    BY <1>a, <1>b, <2>2 DEF DataArrives, WriteDone, Life
  <2>3. CASE ConnectionEnds(d) \/ TimeoutFires(d)
    BY <1>a, <1>b, <2>3 DEF ConnectionEnds, TimeoutFires, ConnectionClosed, Life
  <2>4. QED BY <1>4, <2>1, <2>2, <2>3 DEF ConnNext
<1>5. ASSUME NEW d \in Conns, ConnClosed(d) PROVE Life(c)'
    BY <1>a, <1>b, <1>5 DEF ConnClosed, ClientDisconnected, ClientDeleted, WatchdogDeleted, Life
<1>6. QED BY <1>1, <1>2, <1>3, <1>4, <1>5, ConnSteps

\* No callback starts from a context that is gone, in whatever order the end
\* of the stream, the watchdog, stop() and the answers to writes come.
THEOREM ContextsStayAlive == Spec => []ContextAlive
<1>1. ASSUME TypeInv, Lives, NEW c \in Conns PROVE tcp[c] \in {"free", "reading", "closing", "deleting"}
    BY <1>1 DEF TypeInv, TypeOK
<1>2. TypeInv /\ Lives => ContextAlive
    BY <1>1 DEF Lives, Life, ContextAlive
<1>3. QED BY TypeInit, TypeStep, LivesInit, LivesStep, <1>2, PTL DEF Spec

\* A connection with a watchdog is watched for as long as it is read from.
THEOREM ConnectionsAreWatched == Spec => []Watched
<1>1. Lives => Watched
    BY DEF Lives, Life, Watched
<1>2. QED BY TypeInit, TypeStep, LivesInit, LivesStep, <1>1, PTL DEF Spec

(***************************************************************************)
(* The table.  Whatever a closure of stop() deletes has left the table, as *)
(* stop() clears it before it posts the closure.                           *)
(***************************************************************************)
Entries ==
    /\ NoDanglingEntry
    /\ \A task \in QueuedTasks : task.op = "stop" => \A a \in Addrs : m_clients[a] \notin task.conns
    /\ appPc = "post" => \A a \in Addrs : m_clients[a] \notin taken.conns

LEMMA EntriesInit == Init => Entries
BY DEF Init, TasksInit, QueuedTasks, NoClients, Entries, NoDanglingEntry

\* The closures of stop() that are queued are those that were, one that is
\* posted, or fewer.
LEMMA PostedStops ==
    ASSUME Queues(Task), NEW c \in Callers, NEW t \in Task, backlog' = Posted(c, <<t>>)
    PROVE  QueuedTasks' = QueuedTasks \cup {t}
BY PostQueues, ShortSequences

LEMMA RunStops ==
    ASSUME Queues(Task), NEW c \in Callers, NEW op, Run(c, op)
    PROVE  /\ Head(backlog[c]) \in QueuedTasks /\ Head(backlog[c]).op = op
           /\ Head(backlog[c]) \in Task
           /\ QueuedTasks' \subseteq QueuedTasks
           /\ QueuedTasks \ {Head(backlog[c])} \subseteq QueuedTasks'
<1>1. RunTask(c, op, <<>>) /\ <<>> \in Seq(Task) /\ Elements(<<>>) = {}
    BY DEF Run, Elements
<1>2. QED BY <1>1, RunQueues

\* A step that is not part of stop() posts no closure of stop().
LEMMA OtherSteps ==
    ASSUME TypeInv, [Next]_vars
    PROVE  \/ Stop \/ StopPost
           \/ \A task \in QueuedTasks' : task.op = "stop" => task \in QueuedTasks
<1>a. Queues(Task)
    BY DEF TypeInv
<1>b. UNCHANGED backlog => QueuedTasks' = QueuedTasks
    BY DEF QueuedTasks
<1>1. ASSUME NEW thread \in Callers, Listen(thread)
      PROVE  \A task \in QueuedTasks' : task.op = "stop" => task \in QueuedTasks
  <2>1. When(m_state = "STOPPED", ListenTask) \in Seq(Task)
        /\ Elements(When(m_state = "STOPPED", ListenTask)) \subseteq {ListenTask}
    BY TaskKinds DEF When, Elements
  <2>2. QED BY <1>1, <1>a, <2>1, PostQueues, TaskKinds DEF Listen
<1>2. ASSUME NEW thread \in Callers, NEW a \in Addrs, Send(thread, a)
      PROVE  \A task \in QueuedTasks' : task.op = "stop" => task \in QueuedTasks
    BY <1>2, <1>a, PostedStops, TaskKinds DEF Send
<1>3. ASSUME NEW thread \in Callers, NEW on \in BOOLEAN, SetReceiveTimeoutInterval(thread, on)
      PROVE  \A task \in QueuedTasks' : task.op = "stop" => task \in QueuedTasks
    BY <1>3, <1>a, PostedStops, TaskKinds DEF SetReceiveTimeoutInterval
<1>4. CASE StopLoad \/ StopStore \/ StopCopyHandle \/ StopClearHandle \/ StopCopyClients
             \/ StopClearClients \/ StopEnd
    BY <1>4, <1>b DEF StopLoad, StopStore, StopCopyHandle, StopClearHandle, StopCopyClients,
                      StopClearClients, StopEnd, taskVars
<1>5. ASSUME NEW thread \in Callers, TaskNext(thread)
      PROVE  \A task \in QueuedTasks' : task.op = "stop" => task \in QueuedTasks
  <2>1. \E op : Run(thread, op)
    BY <1>5 DEF TaskNext, ListenRefused, ListenHasNoHandle, ListenFails, ListenOpens,
                RunStop, RunSend, RunInterval
  <2>2. QED BY <1>a, <2>1, RunStops
<1>6. CASE ListenDone
    BY <1>6, <1>b DEF ListenDone
<1>7. ASSUME Callback PROVE QueuedTasks' = QueuedTasks
    BY <1>7, <1>a, <1>b, EventQueues
<1>8. ASSUME NEW c \in Conns, ConnNext(c) \/ ConnClosed(c) PROVE Callback
    BY <1>8 DEF ConnNext, ConnClosed, NewConnection, DuplicateConnection, Arrives, DataArrives,
                ConnectionEnds, TimeoutFires, WriteDone, ClientDisconnected, ClientDeleted,
                WatchdogDeleted, Event
<1>9. ASSUME NEW l \in Listeners, ListenerDeleted(l) PROVE Callback
    BY <1>9 DEF ListenerDeleted, Event
<1>10. CASE UNCHANGED vars
    BY <1>10, <1>b DEF vars, taskVars
<1>11. QED
    BY <1>1, <1>2, <1>3, <1>4, <1>5, <1>6, <1>7, <1>8, <1>9, <1>10 DEF Next, AppNext, StopNext

\* The entries after a step that leaves the table alone, or clears it.
LEMMA EntriesStep == TypeInv /\ Lives /\ Entries /\ [Next]_vars => Entries'
<1> SUFFICES ASSUME TypeInv, Lives, Entries, [Next]_vars PROVE Entries'
    OBVIOUS
<1>a. /\ m_clients \in [Addrs -> Conns \cup {Null}]
      /\ tcp \in [Conns -> {"free", "reading", "closing", "deleting"}]
      /\ ctx \in [Conns -> Addrs \cup {Null}]
      /\ Null \notin Addrs /\ Null \notin Conns
      /\ Queues(Task) /\ QueuedTasks \subseteq Task /\ QueuedTasks' \subseteq Task
      /\ taken \in [listener : Listeners \cup {Null}, conns : SUBSET Conns]
      /\ taken' \in [listener : Listeners \cup {Null}, conns : SUBSET Conns]
    BY TypeStep, ServerAssumption DEF TypeInv, TypeOK
<1>b. \A task \in QueuedTasks' : task.op = "stop" => Null \notin task.conns
    BY <1>a, TaskFields
<1>1. ASSUME m_clients' = NoClients PROVE Entries'
  <2>1. \A a \in Addrs : m_clients'[a] = Null
    BY <1>1 DEF NoClients
  <2>2. QED BY <1>a, <1>b, <2>1 DEF Entries, NoDanglingEntry
<1>2. ASSUME UNCHANGED <<m_clients, tcp, ctx, taken>>, appPc' = "post" => appPc = "post",
             \A task \in QueuedTasks' : task.op = "stop" => task \in QueuedTasks
      PROVE  Entries'
    BY <1>2 DEF Entries, NoDanglingEntry
<1>3. CASE Stop
  <2>1. CASE StopAll
    BY <1>1, <2>1 DEF StopAll
  <2>2. CASE StopIgnored
    <3>1. QueuedTasks' = QueuedTasks
      BY <2>2 DEF StopIgnored, QueuedTasks
    <3>2. QED BY <1>2, <1>3, <2>2, <3>1 DEF Stop, StopIgnored, connVars
  <2>3. QED BY <1>3, <2>1, <2>2 DEF Stop
<1>4. CASE StopPost
  <2>1. /\ QueuedTasks' = QueuedTasks \cup {StopTask(taken.listener, taken.conns)}
        /\ StopTask(taken.listener, taken.conns).conns = taken.conns
    BY <1>4, <1>a, PostedStops, TaskKinds DEF StopPost, Callers
  <2>2. QED BY <1>4, <2>1 DEF StopPost, StopStep, connVars, Entries, NoDanglingEntry
<1>5. CASE StopClearClients
    BY <1>1, <1>5 DEF StopClearClients
<1>6. ASSUME \A task \in QueuedTasks' : task.op = "stop" => task \in QueuedTasks PROVE Entries'
  <2>1. CASE StopLoad \/ StopStore \/ StopClearHandle \/ StopEnd
    BY <1>2, <1>6, <2>1
       DEF StopLoad, StopStore, StopClearHandle, StopEnd, StopStep, stateVars, connVars
  <2>2. CASE StopCopyHandle \/ StopCopyClients
    BY <1>6, <2>2 DEF StopCopyHandle, StopCopyClients, StopStep, connVars, Entries, NoDanglingEntry
  <2>3. ASSUME NEW thread \in Callers,
               \/ Listen(thread)
               \/ \E a \in Addrs : Send(thread, a)
               \/ \E on \in BOOLEAN : SetReceiveTimeoutInterval(thread, on)
        PROVE  Entries'
    BY <1>2, <1>6, <2>3 DEF Listen, Send, SetReceiveTimeoutInterval, stateVars, connVars
  <2>4. ASSUME NEW thread \in Callers, RunStop(thread) PROVE Entries'
    <3> DEFINE task == Head(backlog[thread])
    <3>1. task \in QueuedTasks /\ task.op = "stop"
      BY <1>a, <2>4, RunStops DEF RunStop
    <3>2. \A a \in Addrs : m_clients[a] \notin task.conns
      BY <3>1 DEF Entries
    <3>3. UNCHANGED <<m_clients, ctx, taken, appPc>>
      BY <2>4 DEF RunStop, Run, stateVars
    <3>4. \A c \in Conns : c \notin task.conns => tcp'[c] = tcp[c]
      BY <2>4 DEF RunStop
    <3>5. QED BY <1>6, <1>a, <3>2, <3>3, <3>4 DEF Entries, NoDanglingEntry
  <2>5. ASSUME NEW thread \in Callers,
               \/ ListenRefused(thread) \/ ListenHasNoHandle(thread) \/ ListenFails(thread)
               \/ ListenOpens(thread) \/ RunSend(thread) \/ RunInterval(thread)
        PROVE  Entries'
    BY <1>2, <1>6, <2>5
       DEF ListenRefused, ListenHasNoHandle, ListenFails, ListenOpens, RunSend, RunInterval, Run,
           stateVars, connVars
  <2>6. CASE ListenDone
    BY <1>2, <1>6, <2>6 DEF ListenDone, connVars
  <2>7. ASSUME NEW c \in Conns, NEW a \in Addrs, NewConnection(a, c) PROVE Entries'
    <3>1. \A b \in Addrs : m_clients[b] # c
      BY <1>a, <2>7 DEF NewConnection, Arrives, Entries, NoDanglingEntry
    <3>2. /\ c \notin taken.conns
          /\ \A task \in QueuedTasks : task.op = "stop" => c \notin task.conns
          /\ UNCHANGED <<taken, appPc>>
      BY <2>7 DEF NewConnection, Arrives, Named, Callback
    <3>3. /\ m_clients' = [m_clients EXCEPT ![a] = c] /\ m_clients[a] = Null
          /\ ctx' = [ctx EXCEPT ![c] = a] /\ tcp' = [tcp EXCEPT ![c] = "reading"]
      BY <2>7 DEF NewConnection
    <3>4. NoDanglingEntry'
      BY <1>a, <3>1, <3>3 DEF Entries, NoDanglingEntry
    <3>5. QED BY <1>6, <1>a, <3>2, <3>3, <3>4 DEF Entries
  <2>8. ASSUME NEW c \in Conns, NEW a \in Addrs, DuplicateConnection(a, c) PROVE Entries'
    BY <1>6, <1>a, <2>8
       DEF DuplicateConnection, Arrives, Callback, Entries, NoDanglingEntry
  <2>9. ASSUME NEW c \in Conns, DataArrives(c) \/ WriteDone(c) \/ WatchdogDeleted(c) PROVE Entries'
    BY <1>2, <1>6, <2>9 DEF DataArrives, WriteDone, WatchdogDeleted, Event, Callback
  <2>10. ASSUME NEW c \in Conns, ConnectionEnds(c) \/ TimeoutFires(c) PROVE Entries'
    BY <1>6, <1>a, <2>10
       DEF ConnectionEnds, TimeoutFires, ConnectionClosed, Event, Callback, Entries, NoDanglingEntry
  <2>11. ASSUME NEW c \in Conns, ClientDisconnected(c) PROVE Entries'
    <3>1. /\ m_clients' = [m_clients EXCEPT ![ctx[c]] = Null]
          /\ ctx' = [ctx EXCEPT ![c] = Null] /\ tcp' = [tcp EXCEPT ![c] = "free"]
          /\ UNCHANGED <<taken, appPc>>
      BY <2>11 DEF ClientDisconnected, Event, Callback
    <3>2. \A b \in Addrs : m_clients'[b] = m_clients[b] \/ m_clients'[b] = Null
      BY <1>a, <3>1
    <3>3. \A b \in Addrs : m_clients'[b] # c
      BY <1>a, <3>1 DEF Entries, NoDanglingEntry
    <3>4. NoDanglingEntry'
      BY <1>a, <3>1, <3>2, <3>3 DEF Entries, NoDanglingEntry
    <3>5. QED BY <1>6, <1>a, <1>b, <3>1, <3>2, <3>4 DEF Entries
  <2>12. ASSUME NEW c \in Conns, ClientDeleted(c) PROVE Entries'
    <3>1. \A b \in Addrs : m_clients[b] # c
      BY <1>a, <2>12 DEF ClientDeleted, Entries, NoDanglingEntry
    <3>2. QED BY <1>6, <1>a, <2>12, <3>1 DEF ClientDeleted, Event, Callback, Entries, NoDanglingEntry
  <2>13. ASSUME NEW l \in Listeners, ListenerDeleted(l) PROVE Entries'
    BY <1>2, <1>6, <2>13 DEF ListenerDeleted, Event, Callback, connVars
  <2>14. CASE UNCHANGED vars
    BY <1>2, <1>6, <2>14 DEF vars, stateVars, connVars, appVars
  <2>15. QED
    BY <1>3, <1>4, <1>5, <2>1, <2>2, <2>3, <2>4, <2>5, <2>6, <2>7, <2>8, <2>9, <2>10, <2>11, <2>12,
       <2>13, <2>14 DEF Next, AppNext, StopNext, TaskNext, ConnNext, ConnClosed
<1>7. QED BY <1>3, <1>4, <1>6, OtherSteps

\* send() and the callbacks find in the table only handles that exist, also
\* when stop() empties it on another thread.
THEOREM TableNamesLiveHandles == Spec => []NoDanglingEntry
<1>1. Entries => NoDanglingEntry
    BY DEF Entries
<1>2. QED
    BY TypeInit, TypeStep, LivesInit, LivesStep, EntriesInit, EntriesStep, <1>1, PTL DEF Spec

(***************************************************************************)
(* No client is lost.                                                      *)
(***************************************************************************)
\* A queued closure of stop() stays queued until it runs.
LEMMA StopsStay ==
    ASSUME TypeInv, [Next]_vars
    PROVE  \/ \E thread \in Callers : RunStop(thread)
           \/ \A task \in QueuedTasks : task.op = "stop" => task \in QueuedTasks'
<1>a. Queues(Task)
    BY DEF TypeInv
<1>b. UNCHANGED backlog => QueuedTasks' = QueuedTasks
    BY DEF QueuedTasks
<1>1. ASSUME NEW thread \in Callers, Listen(thread)
      PROVE  QueuedTasks \subseteq QueuedTasks'
  <2>1. When(m_state = "STOPPED", ListenTask) \in Seq(Task)
    BY TaskKinds DEF When
  <2>2. QED BY <1>1, <1>a, <2>1, PostQueues DEF Listen
<1>2. ASSUME NEW thread \in Callers, NEW a \in Addrs, Send(thread, a)
      PROVE  QueuedTasks \subseteq QueuedTasks'
    BY <1>2, <1>a, PostedStops, TaskKinds DEF Send
<1>3. ASSUME NEW thread \in Callers, NEW on \in BOOLEAN, SetReceiveTimeoutInterval(thread, on)
      PROVE  QueuedTasks \subseteq QueuedTasks'
    BY <1>3, <1>a, PostedStops, TaskKinds DEF SetReceiveTimeoutInterval
<1>4. CASE Stop
  <2>1. StopTask(m_serverHandle, Known) \in Task
    BY KnownConns, TaskKinds DEF TypeInv, TypeOK
  <2>2. QED BY <1>4, <1>a, <1>b, <2>1, PostedStops DEF Stop, StopAll, StopIgnored, Callers
<1>5. CASE StopPost
  <2>1. StopTask(taken.listener, taken.conns) \in Task
    BY TaskKinds DEF TypeInv, TypeOK
  <2>2. QED BY <1>5, <1>a, <2>1, PostedStops DEF StopPost, Callers
<1>6. CASE StopLoad \/ StopStore \/ StopCopyHandle \/ StopClearHandle \/ StopCopyClients
             \/ StopClearClients \/ StopEnd
    BY <1>6, <1>b DEF StopLoad, StopStore, StopCopyHandle, StopClearHandle, StopCopyClients,
                      StopClearClients, StopEnd, taskVars
<1>7. ASSUME NEW thread \in Callers,
             \/ ListenRefused(thread) \/ ListenHasNoHandle(thread) \/ ListenFails(thread)
             \/ ListenOpens(thread) \/ RunSend(thread) \/ RunInterval(thread)
      PROVE  \A task \in QueuedTasks : task.op = "stop" => task \in QueuedTasks'
  <2>1. \E op \in {"listen", "send", "interval"} : Run(thread, op)
    BY <1>7 DEF ListenRefused, ListenHasNoHandle, ListenFails, ListenOpens, RunSend, RunInterval
  <2>2. PICK op \in {"listen", "send", "interval"} : Run(thread, op)
    BY <2>1
  <2>3. Head(backlog[thread]).op # "stop" /\ QueuedTasks \ {Head(backlog[thread])} \subseteq QueuedTasks'
    BY <1>a, <2>2, RunStops
  <2>4. QED BY <2>3
<1>8. CASE ListenDone
    BY <1>8, <1>b DEF ListenDone
<1>9. ASSUME Callback PROVE QueuedTasks' = QueuedTasks
    BY <1>9, <1>a, <1>b, EventQueues
<1>10. ASSUME NEW c \in Conns, ConnNext(c) \/ ConnClosed(c) PROVE Callback
    BY <1>10 DEF ConnNext, ConnClosed, NewConnection, DuplicateConnection, Arrives, DataArrives,
                 ConnectionEnds, TimeoutFires, WriteDone, ClientDisconnected, ClientDeleted,
                 WatchdogDeleted, Event
<1>11. ASSUME NEW l \in Listeners, ListenerDeleted(l) PROVE Callback
    BY <1>11 DEF ListenerDeleted, Event
<1>12. CASE UNCHANGED vars
    BY <1>12, <1>b DEF vars, taskVars
<1>13. QED
    BY <1>1, <1>2, <1>3, <1>4, <1>5, <1>6, <1>7, <1>8, <1>9, <1>10, <1>11, <1>12
       DEF Next, AppNext, StopNext, TaskNext


(***************************************************************************)
(* Nothing is in taken before the copies of stop() and after its post; a   *)
(* client whose address another handle has is exposed; and what stop() is  *)
(* about to clear from the table it has copied, or it is exposed.          *)
(***************************************************************************)
TakenInTurn ==
    /\ appPc \in {"idle", "store", "copyHandle", "end"} => taken.listener = Null
    /\ appPc \notin {"clearClients", "post"} => taken.conns = {}

OwnAddress ==
    \A c, d \in Conns : ctx[d] # Null /\ m_clients[ctx[d]] = c /\ c # d => c \in exposed

CopiedInTime == appPc = "clearClients" => Known \subseteq taken.conns \cup exposed

\* stop() has copied the client c.
Copied(c) ==
    \/ c \in taken.conns
    \/ \E task \in QueuedTasks : task.op = "stop" /\ c \in task.conns

NotLost ==
    \A c \in Conns \ exposed : tcp[c] = "reading" => m_clients[ctx[c]] = c \/ Copied(c)

Kept == TakenInTurn /\ OwnAddress /\ CopiedInTime /\ NotLost

LEMMA KeptInit == Init => Kept
BY DEF Init, Kept, TakenInTurn, OwnAddress, CopiedInTime, NotLost, NothingTaken

\* Only the steps of stop() on another thread touch what it has copied.
LEMMA StopSteps ==
    ASSUME [Next]_vars
    PROVE  StopNext \/ StopLoad \/ UNCHANGED <<appPc, taken>>
<1>1. CASE AppNext
    BY <1>1 DEF AppNext, Listen, Send, SetReceiveTimeoutInterval, Stop
<1>2. ASSUME NEW thread \in Callers, TaskNext(thread) PROVE UNCHANGED <<appPc, taken>>
    BY <1>2 DEF TaskNext, ListenRefused, ListenHasNoHandle, ListenFails, ListenOpens, RunStop,
                RunSend, RunInterval, Run
<1>3. CASE ListenDone
    BY <1>3 DEF ListenDone
<1>4. ASSUME NEW c \in Conns, ConnNext(c) \/ ConnClosed(c) PROVE UNCHANGED <<appPc, taken>>
    BY <1>4 DEF ConnNext, ConnClosed, NewConnection, DuplicateConnection, Arrives, DataArrives,
                ConnectionEnds, TimeoutFires, WriteDone, ClientDisconnected, ClientDeleted,
                WatchdogDeleted, Event, Callback
<1>5. ASSUME NEW l \in Listeners, ListenerDeleted(l) PROVE UNCHANGED <<appPc, taken>>
    BY <1>5 DEF ListenerDeleted, Event, Callback
<1>6. CASE UNCHANGED vars
    BY <1>6 DEF vars, appVars
<1>7. QED BY <1>1, <1>2, <1>3, <1>4, <1>5, <1>6 DEF Next

LEMMA TakenStep == TypeInv /\ TakenInTurn /\ [Next]_vars => TakenInTurn'
<1> SUFFICES ASSUME TypeInv, TakenInTurn, [Next]_vars PROVE TakenInTurn'
    OBVIOUS
<1>a. taken \in [listener : Listeners \cup {Null}, conns : SUBSET Conns]
    BY DEF TypeInv, TypeOK
<1>1. CASE UNCHANGED <<appPc, taken>>
    BY <1>1 DEF TakenInTurn
<1>2. CASE StopLoad
    BY <1>2 DEF StopLoad, Call, TakenInTurn
<1>3. CASE StopNext
    BY <1>a, <1>3 DEF StopNext, StopStore, StopCopyHandle, StopClearHandle, StopCopyClients,
           StopClearClients, StopPost, StopEnd, StopStep, TakenInTurn, NothingTaken
<1>4. QED BY <1>1, <1>2, <1>3, StopSteps

\* Who is in the table, under which address, and who is exposed.
LEMMA TableSteps ==
    ASSUME [Next]_vars
    PROVE  \/ UNCHANGED <<m_clients, tcp, ctx, exposed>>
           \/ m_clients' = NoClients /\ UNCHANGED <<tcp, ctx, exposed>>
           \/ UNCHANGED <<m_clients, tcp, ctx>> /\ exposed \subseteq exposed'
           \/ \E thread \in Callers : RunStop(thread)
           \/ \E c \in Conns : \E a \in Addrs : NewConnection(a, c) \/ DuplicateConnection(a, c)
           \/ \E c \in Conns : ConnectionEnds(c) \/ TimeoutFires(c)
                              \/ ClientDisconnected(c) \/ ClientDeleted(c)
<1>1. CASE AppNext
    BY <1>1 DEF AppNext, Listen, Send, SetReceiveTimeoutInterval, Stop, StopAll, StopIgnored,
                StopLoad, stateVars, connVars, history
<1>2. CASE StopNext
    BY <1>2 DEF StopNext, StopStore, StopCopyHandle, StopClearHandle, StopCopyClients,
                StopClearClients, StopPost, StopEnd, StopStep, connVars, history
<1>3. ASSUME NEW thread \in Callers,
             \/ ListenRefused(thread) \/ ListenHasNoHandle(thread)
             \/ RunSend(thread) \/ RunInterval(thread)
      PROVE  UNCHANGED <<m_clients, tcp, ctx, exposed>>
    BY <1>3 DEF ListenRefused, ListenHasNoHandle, RunSend, RunInterval, stateVars, connVars
<1>4. ASSUME NEW thread \in Callers, ListenFails(thread) \/ ListenOpens(thread)
      PROVE  UNCHANGED <<m_clients, tcp, ctx>> /\ exposed \subseteq exposed'
    BY <1>4 DEF ListenFails, ListenOpens, Exposed, connVars
<1>5. CASE ListenDone \/ \E l \in Listeners : ListenerDeleted(l)
    BY <1>5 DEF ListenDone, ListenerDeleted, Event, connVars
<1>6. ASSUME NEW c \in Conns, DataArrives(c) \/ WriteDone(c) \/ WatchdogDeleted(c)
      PROVE  UNCHANGED <<m_clients, tcp, ctx, exposed>>
    BY <1>6 DEF DataArrives, WriteDone, WatchdogDeleted, Event
<1>7. CASE UNCHANGED vars
    BY <1>7 DEF vars, stateVars, connVars, appVars, history
<1>8. QED
    BY <1>1, <1>2, <1>3, <1>4, <1>5, <1>6, <1>7 DEF Next, TaskNext, ConnNext, ConnClosed

LEMMA OwnAddressStep == TypeInv /\ Lives /\ Entries /\ OwnAddress /\ [Next]_vars => OwnAddress'
<1> SUFFICES ASSUME TypeInv, Lives, Entries, OwnAddress, [Next]_vars PROVE OwnAddress'
    OBVIOUS
<1>a. /\ m_clients \in [Addrs -> Conns \cup {Null}] /\ ctx \in [Conns -> Addrs \cup {Null}]
      /\ Null \notin Addrs /\ Null \notin Conns
    BY ServerAssumption DEF TypeInv, TypeOK
<1>1. CASE UNCHANGED <<m_clients, ctx>> /\ exposed \subseteq exposed'
    BY <1>1 DEF OwnAddress
<1>2. CASE m_clients' = NoClients /\ UNCHANGED ctx
    BY <1>a, <1>2 DEF OwnAddress, NoClients
<1>3. ASSUME NEW e \in Conns, NEW a \in Addrs, NewConnection(a, e) PROVE OwnAddress'
  <2>1. /\ m_clients' = [m_clients EXCEPT ![a] = e] /\ m_clients[a] = Null
        /\ ctx' = [ctx EXCEPT ![e] = a] /\ ctx[e] = Null
        /\ exposed \ {e} \subseteq exposed'
        /\ (\E d \in Conns : ctx[d] = a) => e \in exposed'
    BY <1>3 DEF NewConnection, Arrives, Lives, Life
  <2> SUFFICES ASSUME NEW c \in Conns, NEW d \in Conns,
                      ctx'[d] # Null, m_clients'[ctx'[d]] = c, c # d
               PROVE  c \in exposed'
    BY DEF OwnAddress
  <2>2. CASE ctx'[d] = a
    <3>1. c = e /\ ctx[d] = a
      BY <1>a, <2>1, <2>2
    <3>2. QED BY <2>1, <3>1
  <2>3. CASE ctx'[d] # a
    <3>1. d # e /\ ctx[d] = ctx'[d] /\ m_clients[ctx[d]] = c
      BY <1>a, <2>1, <2>3
    <3>2. c \in exposed
      BY <3>1 DEF OwnAddress
    <3>3. c # e
      BY <1>a, <2>1, <3>1 DEF Entries, NoDanglingEntry
    <3>4. QED BY <2>1, <3>2, <3>3
  <2>4. QED BY <2>2, <2>3
<1>4. ASSUME NEW e \in Conns, ClientDisconnected(e) PROVE OwnAddress'
    BY <1>a, <1>4 DEF ClientDisconnected, Event, OwnAddress
<1>5. ASSUME NEW e \in Conns, ClientDeleted(e) PROVE OwnAddress'
    BY <1>a, <1>5 DEF ClientDeleted, Event, OwnAddress
<1>6. ASSUME NEW e \in Conns, ConnectionEnds(e) \/ TimeoutFires(e) PROVE OwnAddress'
    BY <1>1, <1>6 DEF ConnectionEnds, TimeoutFires, Event
<1>7. ASSUME NEW e \in Conns, NEW a \in Addrs, DuplicateConnection(a, e) PROVE OwnAddress'
    BY <1>1, <1>7 DEF DuplicateConnection
<1>8. ASSUME NEW thread \in Callers, RunStop(thread) PROVE OwnAddress'
    BY <1>1, <1>8 DEF RunStop, stateVars
<1>9. QED BY <1>1, <1>2, <1>3, <1>4, <1>5, <1>6, <1>7, <1>8, TableSteps

LEMMA CopiedStep == TypeInv /\ CopiedInTime /\ [Next]_vars => CopiedInTime'
<1> SUFFICES ASSUME TypeInv, CopiedInTime, [Next]_vars, appPc' = "clearClients",
                    NEW a \in Addrs, m_clients'[a] # Null
             PROVE  m_clients'[a] \in taken'.conns \cup exposed'
    BY DEF CopiedInTime, Known
<1>a. /\ m_clients \in [Addrs -> Conns \cup {Null}]
      /\ taken \in [listener : Listeners \cup {Null}, conns : SUBSET Conns]
    BY DEF TypeInv, TypeOK
<1>1. CASE StopNext \/ StopLoad
  <2>1. StopCopyClients
    BY <1>1 DEF StopNext, StopLoad, Call, StopStore, StopCopyHandle, StopClearHandle,
                StopClearClients, StopPost, StopEnd, StopStep
  <2>2. taken'.conns = Known /\ UNCHANGED m_clients
    BY <1>a, <2>1 DEF StopCopyClients
  <2>3. QED BY <2>2 DEF Known
<1>2. CASE UNCHANGED <<appPc, taken>>
  <2>1. m_clients[a] # Null => m_clients[a] \in taken.conns \cup exposed
    BY <1>2 DEF CopiedInTime, Known
  <2>2. CASE UNCHANGED m_clients /\ exposed \subseteq exposed'
    BY <1>2, <2>1, <2>2
  <2>3. CASE m_clients' = NoClients
    BY <2>3 DEF NoClients
  <2>4. ASSUME NEW e \in Conns, NEW b \in Addrs, NewConnection(b, e)
        PROVE  m_clients'[a] \in taken'.conns \cup exposed'
    <3>1. exposed' = exposed \cup {e} /\ m_clients' = [m_clients EXCEPT ![b] = e]
      BY <1>2, <2>4 DEF NewConnection
    <3>2. QED BY <1>a, <1>2, <2>1, <3>1
  <2>5. ASSUME NEW e \in Conns, ClientDisconnected(e)
        PROVE  m_clients'[a] \in taken'.conns \cup exposed'
    BY <1>a, <1>2, <2>1, <2>5 DEF ClientDisconnected, Event
  <2>6. ASSUME NEW e \in Conns,
               \/ ClientDeleted(e) \/ ConnectionEnds(e) \/ TimeoutFires(e)
               \/ \E b \in Addrs : DuplicateConnection(b, e)
        PROVE  UNCHANGED <<m_clients, exposed>>
    BY <2>6 DEF ClientDeleted, ConnectionEnds, TimeoutFires, DuplicateConnection, Event
  <2>7. ASSUME NEW thread \in Callers, RunStop(thread) PROVE UNCHANGED <<m_clients, exposed>>
    BY <2>7 DEF RunStop, stateVars
  <2>8. QED BY <2>2, <2>3, <2>4, <2>5, <2>6, <2>7, TableSteps
<1>3. QED BY <1>1, <1>2, StopSteps

\* What stop() has copied stays named until its closure has run.
LEMMA CopiedStays ==
    ASSUME TypeInv, TakenInTurn, [Next]_vars, NEW c \in Conns, Copied(c)
    PROVE  \/ Copied(c)'
           \/ \E thread \in Callers :
                  RunStop(thread) /\ c \in Head(backlog[thread]).conns
<1>a. Queues(Task) /\ taken \in [listener : Listeners \cup {Null}, conns : SUBSET Conns]
    BY DEF TypeInv, TypeOK
<1>1. ASSUME NEW task \in QueuedTasks, task.op = "stop", c \in task.conns
      PROVE  \/ Copied(c)'
             \/ \E thread \in Callers :
                    RunStop(thread) /\ c \in Head(backlog[thread]).conns
  <2>1. CASE task \in QueuedTasks'
    BY <1>1, <2>1 DEF Copied
  <2>2. CASE task \notin QueuedTasks'
    <3>1. PICK thread \in Callers : RunStop(thread)
      BY <1>1, <2>2, StopsStay
    <3>2. task = Head(backlog[thread])
      BY <1>a, <1>1, <2>2, <3>1, RunStops DEF RunStop
    <3>3. QED BY <1>1, <3>1, <3>2
  <2>3. QED BY <2>1, <2>2
<1>2. CASE c \in taken.conns
  <2>1. CASE UNCHANGED taken
    BY <1>2, <2>1 DEF Copied
  <2>2. CASE StopPost
    <3>1. /\ StopTask(taken.listener, taken.conns) \in QueuedTasks'
          /\ StopTask(taken.listener, taken.conns).op = "stop"
          /\ StopTask(taken.listener, taken.conns).conns = taken.conns
      BY <1>a, <2>2, PostedStops, TaskKinds DEF StopPost, Callers
    <3>2. QED BY <1>2, <3>1 DEF Copied
  <2>3. CASE StopCopyHandle \/ StopCopyClients
    BY <1>2, <2>3 DEF StopCopyHandle, StopCopyClients, StopStep, TakenInTurn
  <2>4. CASE StopLoad \/ StopStore \/ StopClearHandle \/ StopClearClients \/ StopEnd
    BY <2>1, <2>4 DEF StopLoad, StopStore, StopClearHandle, StopClearClients, StopEnd, StopStep
  <2>5. QED BY <2>1, <2>2, <2>3, <2>4, StopSteps DEF StopNext
<1>3. QED BY <1>1, <1>2 DEF Copied

LEMMA LostStep == TypeInv /\ Lives /\ Entries /\ Kept /\ [Next]_vars => NotLost'
<1> SUFFICES ASSUME TypeInv, Lives, Entries, Kept, [Next]_vars,
                    NEW c \in Conns, c \notin exposed', tcp'[c] = "reading"
             PROVE  (m_clients[ctx[c]] = c \/ Copied(c))'
    BY DEF NotLost
<1>a. /\ m_clients \in [Addrs -> Conns \cup {Null}]
      /\ tcp \in [Conns -> {"free", "reading", "closing", "deleting"}]
      /\ ctx \in [Conns -> Addrs \cup {Null}]
      /\ Null \notin Addrs /\ Null \notin Conns /\ Queues(Task)
      /\ taken \in [listener : Listeners \cup {Null}, conns : SUBSET Conns]
    BY ServerAssumption DEF TypeInv, TypeOK
<1>b. tcp[c] = "reading" => ctx[c] \in Addrs
    BY <1>a DEF Lives, Life
<1>1. ASSUME NEW a \in Addrs, NewConnection(a, c) PROVE m_clients'[ctx'[c]] = c
    BY <1>a, <1>1 DEF NewConnection
<1>2. ASSUME \A a \in Addrs : ~NewConnection(a, c) PROVE tcp[c] = "reading" /\ c \notin exposed
  <2>1. ASSUME NEW e \in Conns, NEW a \in Addrs, NewConnection(a, e)
        PROVE  tcp[c] = "reading" /\ c \notin exposed
    <3>1. e # c /\ exposed \ {e} \subseteq exposed' /\ tcp' = [tcp EXCEPT ![e] = "reading"]
      BY <1>2, <2>1 DEF NewConnection
    <3>2. QED BY <1>a, <3>1
  <2>2. ASSUME NEW e \in Conns,
               \/ ConnectionEnds(e) \/ TimeoutFires(e) \/ ClientDisconnected(e)
               \/ ClientDeleted(e) \/ \E a \in Addrs : DuplicateConnection(a, e)
        PROVE  tcp[c] = "reading" /\ c \notin exposed
    BY <1>a, <2>2 DEF ConnectionEnds, TimeoutFires, ConnectionClosed, ClientDisconnected,
                      ClientDeleted, DuplicateConnection, Event
  <2>3. ASSUME NEW thread \in Callers, RunStop(thread) PROVE tcp[c] = "reading" /\ c \notin exposed
    BY <1>a, <2>3 DEF RunStop
  <2>4. QED BY <2>1, <2>2, <2>3, TableSteps
\* The client was there before: what was copied stays so, ...
<1>3. ASSUME tcp[c] = "reading", Copied(c) PROVE Copied(c)'
  <2>1. ASSUME NEW thread \in Callers, RunStop(thread), c \in Head(backlog[thread]).conns
        PROVE  FALSE
    BY <1>a, <1>3, <2>1 DEF RunStop
  <2>2. QED BY <1>3, <2>1, CopiedStays DEF Kept
\* ... and an entry of the table stays, unless stop() clears it.
<1>4. ASSUME tcp[c] = "reading", c \notin exposed, m_clients[ctx[c]] = c
      PROVE  (m_clients[ctx[c]] = c \/ Copied(c))'
  <2>1. CASE UNCHANGED <<m_clients, ctx>>
    BY <1>4, <2>1
  <2>2. CASE StopAll
    <3>1. /\ StopTask(m_serverHandle, Known) \in Task
          /\ StopTask(m_serverHandle, Known).op = "stop"
          /\ StopTask(m_serverHandle, Known).conns = Known
      BY KnownConns, TaskKinds DEF TypeInv, TypeOK
    <3>2. StopTask(m_serverHandle, Known) \in QueuedTasks'
      BY <1>a, <2>2, <3>1, PostedStops DEF StopAll, Callers
    <3>3. c \in Known
      BY <1>a, <1>b, <1>4 DEF Known
    <3>4. QED BY <3>1, <3>2, <3>3 DEF Copied
  <2>3. CASE StopClearClients
    <3>1. appPc = "clearClients" /\ taken' = taken
      BY <2>3 DEF StopClearClients, StopStep
    <3>2. c \in Known
      BY <1>a, <1>b, <1>4 DEF Known
    <3>3. c \in taken.conns
      BY <1>4, <3>1, <3>2 DEF Kept, CopiedInTime
    <3>4. QED BY <3>1, <3>3 DEF Copied
  <2>4. ASSUME NEW e \in Conns, NEW a \in Addrs, NewConnection(a, e)
        PROVE  (m_clients[ctx[c]] = c)'
    <3>1. /\ m_clients' = [m_clients EXCEPT ![a] = e] /\ m_clients[a] = Null
          /\ ctx' = [ctx EXCEPT ![e] = a] /\ tcp[e] = "free"
      BY <2>4 DEF NewConnection, Arrives
    <3>2. e # c /\ ctx[c] # a
      BY <1>a, <1>4, <3>1
    <3>3. QED BY <1>a, <1>b, <1>4, <3>1, <3>2
  <2>5. ASSUME NEW e \in Conns, ClientDisconnected(e) PROVE (m_clients[ctx[c]] = c)'
    <3>1. /\ m_clients' = [m_clients EXCEPT ![ctx[e]] = Null]
          /\ ctx' = [ctx EXCEPT ![e] = Null] /\ tcp[e] = "closing"
      BY <2>5 DEF ClientDisconnected
    <3>2. e # c /\ ctx[e] # Null
      BY <1>4, <3>1 DEF Lives, Life
    <3>3. ctx[e] # ctx[c]
      BY <1>4, <3>2 DEF Kept, OwnAddress
    <3>4. QED BY <1>a, <1>b, <1>4, <3>1, <3>2, <3>3
  <2>6. ASSUME NEW e \in Conns, ClientDeleted(e) PROVE (m_clients[ctx[c]] = c)'
    BY <1>a, <1>4, <2>6 DEF ClientDeleted
  <2>7. ASSUME m_clients' # m_clients \/ ctx' # ctx
        PROVE  \/ StopAll \/ StopClearClients
               \/ \E e \in Conns : \/ \E a \in Addrs : NewConnection(a, e)
                                   \/ ClientDisconnected(e) \/ ClientDeleted(e)
    <3>1. CASE AppNext \/ StopNext
      BY <2>7, <3>1
         DEF AppNext, Listen, Send, SetReceiveTimeoutInterval, Stop, StopIgnored, StopLoad,
             StopNext, StopStore, StopCopyHandle, StopClearHandle, StopCopyClients, StopPost,
             StopEnd, StopStep, stateVars, connVars
    <3>2. ASSUME NEW thread \in Callers, TaskNext(thread) PROVE FALSE
      BY <2>7, <3>2
         DEF TaskNext, ListenRefused, ListenHasNoHandle, ListenFails, ListenOpens, RunStop, RunSend,
             RunInterval, stateVars, connVars
    <3>3. ASSUME ListenDone \/ UNCHANGED vars \/ \E l \in Listeners : ListenerDeleted(l) PROVE FALSE
      BY <2>7, <3>3 DEF ListenDone, ListenerDeleted, vars, stateVars, connVars
    <3>4. ASSUME NEW e \in Conns,
                 \/ DataArrives(e) \/ ConnectionEnds(e) \/ TimeoutFires(e) \/ WriteDone(e)
                 \/ WatchdogDeleted(e) \/ \E a \in Addrs : DuplicateConnection(a, e)
          PROVE  FALSE
      BY <2>7, <3>4 DEF DataArrives, ConnectionEnds, TimeoutFires, WriteDone, WatchdogDeleted,
                        DuplicateConnection
    <3>5. QED BY <3>1, <3>2, <3>3, <3>4 DEF Next, ConnNext, ConnClosed
  <2>8. QED BY <2>1, <2>2, <2>3, <2>4, <2>5, <2>6, <2>7
<1>5. QED BY <1>1, <1>2, <1>3, <1>4 DEF Kept, NotLost

\* A client that is read from can be found in the table under its address or is
\* about to be deleted, on whatever thread stop() is called, save those that
\* came between its copying and clearing the table, and those whose address
\* another handle had when they came.
THEOREM ClientsAreKept == Spec => []NoClientLost
<1>1. TypeInv /\ Lives /\ Entries /\ Kept /\ [Next]_vars => Kept'
    BY TakenStep, OwnAddressStep, CopiedStep, LostStep DEF Kept
<1>2. Kept => NoClientLost
    BY DEF Kept, NotLost, NoClientLost, Copied, Named
<1>3. QED
    BY TypeInit, TypeStep, LivesInit, LivesStep, EntriesInit, EntriesStep, KeptInit, <1>1, <1>2,
       PTL DEF Spec

(***************************************************************************)
(* The listening handle: it is open, no closure of stop() that is queued   *)
(* or about to be posted closes it, and from the return of uv_listen on it *)
(* listens, unless a stop() intervenes.                                    *)
(***************************************************************************)
Open(l) == listener[l] \in {"open", "listening"}

OwnListener ==
    /\ m_serverHandle # Null => Open(m_serverHandle)
    /\ \A task \in QueuedTasks : task.op = "stop" /\ task.listener # Null =>
            task.listener # m_serverHandle
    /\ appPc # "clearHandle" /\ taken.listener # Null => taken.listener # m_serverHandle

Listens == m_serverHandle # Null /\ listener[m_serverHandle] = "listening"

Listening ==
    /\ OwnListener
    /\ starting /\ m_state = "STARTING" /\ appPc \in {"idle", "store"} => Listens
    /\ RunningListens

LEMMA ListeningInit == Init => Listening
BY DEF Init, Listening, OwnListener, RunningListens, NothingTaken, TasksInit, QueuedTasks

LEMMA ListeningStep == TypeInv /\ TakenInTurn /\ Listening /\ [Next]_vars => Listening'
<1> SUFFICES ASSUME TypeInv, TakenInTurn, Listening, [Next]_vars PROVE Listening'
    OBVIOUS
<1>a. /\ m_serverHandle \in Listeners \cup {Null} /\ Null \notin Listeners
      /\ listener \in [Listeners -> {"free", "open", "listening", "closing"}]
      /\ Queues(Task) /\ QueuedTasks \subseteq Task
      /\ taken \in [listener : Listeners \cup {Null}, conns : SUBSET Conns]
    BY ServerAssumption DEF TypeInv, TypeOK
<1> DEFINE Same == UNCHANGED <<m_serverHandle, listener>>
           NoStop == \A task \in QueuedTasks' : task.op = "stop" => task \in QueuedTasks
<1>b. NoStop \/ Stop \/ StopPost
    BY OtherSteps
<1> HIDE DEF NoStop
<1>c. NoStop => \A task \in QueuedTasks' : task.op = "stop" => task \in QueuedTasks
    BY DEF NoStop
\* Steps that leave the handle alone.
<1>1. ASSUME Same, NoStop, UNCHANGED <<appPc, taken, m_state, starting, overrun>> PROVE Listening'
    BY <1>1, <1>c DEF Listening, OwnListener, Open, Listens, RunningListens
<1>2. CASE Stop
  <2>1. CASE StopIgnored
    <3>1. UNCHANGED <<backlog, m_state, m_serverHandle>>
      BY <2>1 DEF StopIgnored
    <3>2. NoStop
      BY <3>1 DEF NoStop, QueuedTasks
    <3>3. QED BY <1>1, <1>2, <3>1, <3>2 DEF Stop
  <2>2. CASE StopAll
    <3>1. StopTask(m_serverHandle, Known) \in Task
      BY KnownConns, TaskKinds DEF TypeInv, TypeOK
    <3>2. m_serverHandle' = Null /\ m_state' = "STOPPED"
      BY <2>2 DEF StopAll
    <3>3. QED BY <3>2 DEF Listening, OwnListener, RunningListens
  <2>3. QED BY <1>2, <2>1, <2>2 DEF Stop
<1>3. CASE StopLoad
    BY <1>3, <1>a DEF StopLoad, Call, stateVars, taskVars, QueuedTasks, Listening, OwnListener,
                     Open, Listens, RunningListens
<1>4. CASE StopNext
  <2>1. CASE StopClearHandle
    BY <2>1 DEF StopClearHandle, StopStep, Listening, OwnListener, RunningListens
  <2>2. CASE StopPost
    <3>1. QueuedTasks' = QueuedTasks \cup {StopTask(taken.listener, taken.conns)}
          /\ StopTask(taken.listener, taken.conns).listener = taken.listener
      BY <1>a, <2>2, PostedStops, TaskKinds DEF StopPost, Callers
    <3>2. /\ UNCHANGED <<m_serverHandle, listener>> /\ appPc = "post" /\ appPc' = "end"
          /\ taken' = NothingTaken
      BY <2>2 DEF StopPost, StopStep
    <3>3. QED BY <3>1, <3>2 DEF NothingTaken, Listening, OwnListener, Open, RunningListens
  <2>3. CASE StopStore \/ StopCopyHandle \/ StopCopyClients \/ StopClearClients \/ StopEnd
    <3>1. QueuedTasks' = QueuedTasks /\ UNCHANGED <<m_serverHandle, listener>>
      BY <2>3 DEF StopStore, StopCopyHandle, StopCopyClients, StopClearClients, StopEnd, StopStep,
                  QueuedTasks
    <3>2. QED
      BY <1>a, <2>3, <3>1
         DEF StopStore, StopCopyHandle, StopCopyClients, StopClearClients, StopEnd, StopStep,
             TakenInTurn, Listening, OwnListener, Open, RunningListens
  <2>4. QED BY <1>4, <2>1, <2>2, <2>3 DEF StopNext
<1>5. ASSUME NEW thread \in Callers, NoStop,
             \/ Listen(thread)
             \/ \E a \in Addrs : Send(thread, a)
             \/ \E on \in BOOLEAN : SetReceiveTimeoutInterval(thread, on)
             \/ ListenRefused(thread) \/ RunSend(thread) \/ RunInterval(thread)
      PROVE  Listening'
    BY <1>1, <1>5 DEF Listen, Send, SetReceiveTimeoutInterval, ListenRefused, RunSend, RunInterval,
                      Run, stateVars, history
<1>6. ASSUME NEW thread \in Callers, NoStop, ListenHasNoHandle(thread) PROVE Listening'
    BY <1>6, <1>c DEF ListenHasNoHandle, Run, Listening, OwnListener, RunningListens
<1>7. ASSUME NEW thread \in Callers, NoStop, ListenFails(thread) \/ ListenOpens(thread)
      PROVE  Listening'
  <2>1. PICK l \in ServerHandle :
            /\ m_serverHandle' = l
            /\ \/ listener' = [listener EXCEPT ![l] = IF @ = "free" THEN "open" ELSE @]
               \/ listener' = [listener EXCEPT ![l] = "listening"]
    BY <1>7 DEF ListenFails, ListenOpens
  <2>2. /\ l \in Listeners
        /\ l = m_serverHandle \/ (m_serverHandle = Null /\ ~Named(l) /\ listener[l] = "free")
    BY <1>a, <2>1 DEF ServerHandle
  <2>3. UNCHANGED <<appPc, taken, overrun>> /\ ~starting
    BY <1>7 DEF ListenFails, ListenOpens, Run
  <2>4. OwnListener'
    <3>1. Open(l)'
      BY <1>a, <2>1, <2>2 DEF Open, Listening, OwnListener
    <3>2. \A task \in QueuedTasks' : task.op = "stop" /\ task.listener # Null => task.listener # l
      BY <1>7, <1>a, <1>c, <2>2 DEF Named, Listening, OwnListener
    <3>3. appPc # "clearHandle" /\ taken.listener # Null => taken.listener # l
      BY <2>2 DEF Named, Listening, OwnListener
    <3>4. QED BY <2>1, <2>3, <3>1, <3>2, <3>3 DEF OwnListener
  <2>5. CASE ListenFails(thread)
    BY <2>3, <2>4, <2>5 DEF ListenFails, Listening, RunningListens
  <2>6. CASE ListenOpens(thread)
    <3>1. m_state' = "STARTING" /\ \E k \in ServerHandle :
             m_serverHandle' = k /\ listener' = [listener EXCEPT ![k] = "listening"]
      BY <2>6 DEF ListenOpens
    <3>2. Listens'
      BY <1>a, <2>1, <2>2, <3>1 DEF Listens
    <3>3. QED BY <2>4, <3>1, <3>2 DEF Listening, RunningListens
  <2>7. QED BY <1>7, <2>5, <2>6
<1>8. ASSUME NEW thread \in Callers, NoStop, RunStop(thread) PROVE Listening'
  <2> DEFINE task == Head(backlog[thread])
  <2>1. task \in QueuedTasks /\ task.op = "stop"
    BY <1>a, <1>8, RunStops DEF RunStop
  <2>2. m_serverHandle # Null => m_serverHandle # task.listener
    BY <2>1 DEF Listening, OwnListener
  <2>3. /\ listener' = [l \in Listeners |->
                            IF l = task.listener /\ listener[l] # "free" THEN "closing"
                            ELSE listener[l]]
        /\ UNCHANGED <<m_state, m_serverHandle, starting, appPc, taken, overrun>>
    BY <1>8 DEF RunStop, Run, stateVars
  <2>4. m_serverHandle # Null => listener'[m_serverHandle] = listener[m_serverHandle]
    BY <1>a, <2>2, <2>3
  <2> HIDE DEF task
  <2>5. QED BY <1>8, <1>c, <2>3, <2>4 DEF Listening, OwnListener, Open, Listens, RunningListens
<1>9. CASE NoStop /\ ListenDone
  <2>1. /\ starting /\ ~starting' /\ m_state' = "RUNNING" /\ overrun' = (m_state # "STARTING")
        /\ UNCHANGED <<m_serverHandle, listener, appPc, taken>>
    BY <1>9 DEF ListenDone
  <2>2. OwnListener'
    BY <1>9, <1>c, <2>1 DEF Listening, OwnListener, Open
  <2>3. RunningListens'
    BY <2>1 DEF Listening, Listens, RunningListens
  <2>4. QED BY <2>1, <2>2, <2>3 DEF Listening
<1>10. ASSUME NEW l \in Listeners, NoStop, ListenerDeleted(l) PROVE Listening'
  <2>1. /\ listener[l] = "closing" /\ listener' = [listener EXCEPT ![l] = "free"]
        /\ UNCHANGED <<m_state, m_serverHandle, starting, appPc, taken, overrun>>
    BY <1>10 DEF ListenerDeleted, Event, Callback
  <2>2. m_serverHandle # Null => listener'[m_serverHandle] = listener[m_serverHandle]
    BY <1>a, <2>1 DEF Listening, OwnListener, Open
  <2>3. QED BY <1>10, <1>c, <2>1, <2>2 DEF Listening, OwnListener, Open, Listens, RunningListens
<1>11. ASSUME NEW c \in Conns, NoStop, ConnNext(c) \/ ConnClosed(c) PROVE Listening'
    BY <1>1, <1>11 DEF ConnNext, ConnClosed, NewConnection, DuplicateConnection, Arrives,
                DataArrives, ConnectionEnds, TimeoutFires, WriteDone, ClientDisconnected,
                ClientDeleted, WatchdogDeleted, Event, Callback
<1>12. CASE NoStop /\ UNCHANGED vars
    BY <1>1, <1>12 DEF vars, stateVars, appVars, history
<1>13. QED
    BY <1>b, <1>2, <1>3, <1>4, <1>5, <1>6, <1>7, <1>8, <1>9, <1>10, <1>11, <1>12
       DEF Next, AppNext, StopNext, TaskNext

\* A server that says it runs listens on a handle of its own, on whatever thread
\* stop() is called, once that has returned, unless listen() stored RUNNING over
\* what a stop() had stored since its uv_listen.
THEOREM RunningServerListens == Spec => []RunningListens
<1>1. Init => TakenInTurn
    BY KeptInit DEF Kept
<1>2. TypeInv /\ TakenInTurn /\ [Next]_vars => TakenInTurn'
    BY TakenStep
<1>3. Listening => RunningListens
    BY DEF Listening
<1>4. QED BY TypeInit, TypeStep, ListeningInit, ListeningStep, <1>1, <1>2, <1>3, PTL DEF Spec
=============================================================================
