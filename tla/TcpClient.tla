------------------------------ MODULE TcpClient ------------------------------
(***************************************************************************)
(* CUVTcpClient (src/src/common/network/impl/tcp/CUVTcpClient.cpp): a TCP   *)
(* client that reconnects by itself, with an optional receive watchdog.    *)
(*                                                                         *)
(* The event loop is the one UVOneloop specifies, seen through its promise *)
(* (TaskExecutor): one FIFO of posted closures per calling thread, emptied *)
(* without a pause between two loop events.  The API is called from the    *)
(* loop thread, in the client's callbacks, and from one other thread, at   *)
(* the same time.  Every closure, libuv callback and call is one action,   *)
(* but for disconnect() from the other thread, the only call there that    *)
(* writes what the loop writes: one action per access to a shared member.  *)
(*                                                                         *)
(* libuv's part is the life of its handles: a connect request is answered  *)
(* once, with UV_ECANCELED if the handle is closed first, a closed handle  *)
(* is handed to its close callback, an armed timer fires once.             *)
(***************************************************************************)
EXTENDS LoopTasks, Integers, FiniteSets

CONSTANTS
    Hosts,           \* the addresses connect() is called with
    Parseable,       \* those that uv_ip4_addr understands
    Handles,         \* uv_tcp_t objects (bounds how many exist at once)
    ReconnectTimers, \* uv_timer_t objects of the reconnect timer
    TimeoutTimers,   \* uv_timer_t objects of the receive watchdog
    Null,            \* the null pointer
    DefaultInitial,  \* the reconnect interval the constructor sets ...
    DefaultMax,      \* ... and its limit (1000 and 30000 ms, scaled down)
    Settings,        \* <<initial, max>> pairs given to setReconnectInterval
    IntMax,          \* the largest int
    Api,             \* the calls that are made: <<thread, function>> pairs
    MaxCalls,        \* bound: API calls in a behaviour
    MaxBacklog       \* bound: closures queued when a loop event happens

ApiCalls == {"connect", "disconnect", "send", "setReceiveTimeout", "setReconnectInterval",
             "destroy"}
Timers == ReconnectTimers \cup TimeoutTimers

ASSUME ClientAssumption ==
    /\ Parseable \subseteq Hosts
    /\ Null \notin Handles \cup Timers \cup Hosts
    /\ Handles \cap Timers = {} /\ ReconnectTimers \cap TimeoutTimers = {}
    /\ IntMax \in Nat \ {0}
    /\ Settings \subseteq (-IntMax - 1 .. IntMax) \X (-IntMax - 1 .. IntMax)
    /\ DefaultInitial \in 1..DefaultMax
    /\ DefaultMax \in 1..IntMax
    /\ Api \subseteq Callers \X ApiCalls
    /\ {MaxCalls, MaxBacklog} \subseteq Nat

VARIABLES
    m_state,
    m_host,
    m_tcpHandle,
    m_reconnectTimer,
    m_receiveTimeoutTimer,
    m_reconnectInterval,
    m_initialReconnectInterval,
    m_maxReconnectInterval,
    timeoutSet,      \* m_receiveTimeoutInterval > 0
    tcp,             \* tcp[h]: the life of handle h
    timer,           \* timer[t]: the life of timer t
    appPc,           \* where the other thread is inside disconnect()
    copied,          \* the pointer that call has copied and not cleared yet
    taken,           \* the objects that call has copied and cleared so far
    torn,            \* history: objects that both threads took, or neither
    crossed,         \* history: the watchdog was started on one thread and
                     \* stopped on the other
    wanted,          \* history: the last of connect/disconnect was connect
    dropped,         \* history: disconnect() was called
    calls            \* API calls made so far

pointers  == <<m_tcpHandle, m_reconnectTimer, m_receiveTimeoutTimer>>
intervals == <<m_reconnectInterval, m_initialReconnectInterval, m_maxReconnectInterval>>
history   == <<torn, crossed, wanted, dropped>>
appVars   == <<appPc, copied, taken, history, calls>>
vars == <<m_state, m_host, pointers, intervals, timeoutSet, tcp, timer, taskVars,
          appVars>>

ConnectState == {"DISCONNECTED", "CONNECTING", "CONNECTED"}
TcpLife   == {"free", "open", "connecting", "connected", "reading", "ended",
              "cancelled", "closing"}
TimerLife == {"free", "stopped", "armed", "closing"}

\* The closures handed to postTask.
ConnectTask(host)       == [op |-> "connect", host |-> host]
CloseTask(handle, some) == [op |-> "close", tcp |-> handle, timers |-> some \ {Null}]
SendTask                == [op |-> "send"]
StartReconnect          == [op |-> "startReconnect"]
StartTimeout            == [op |-> "startTimeout"]
StopTimeout             == [op |-> "stopTimeout"]

Task == [op : {"connect"}, host : Hosts]
        \cup [op : {"close"}, tcp : Handles \cup {Null}, timers : SUBSET Timers]
        \cup [op : {"send", "startReconnect", "startTimeout", "stopTimeout"}]

\* Where the other thread may be inside disconnect().
DisconnectPcs == {"store", "copyTcp", "clearTcp", "copyTimeout", "clearTimeout",
                  "copyReconnect", "clearReconnect", "post"}

TypeOK ==
    /\ m_state \in ConnectState
    /\ m_host \in Hosts \cup {Null}
    /\ m_tcpHandle \in Handles \cup {Null}
    /\ m_reconnectTimer \in ReconnectTimers \cup {Null}
    /\ m_receiveTimeoutTimer \in TimeoutTimers \cup {Null}
    /\ {m_reconnectInterval, m_initialReconnectInterval, m_maxReconnectInterval}
           \subseteq -IntMax - 1 .. IntMax
    /\ {timeoutSet, draining, crossed, wanted, dropped} \subseteq BOOLEAN
    /\ tcp \in [Handles -> TcpLife]
    /\ timer \in [Timers -> TimerLife]
    /\ DOMAIN backlog = Callers
    /\ \A c \in Callers : \A i \in DOMAIN backlog[c] : backlog[c][i] \in Task
    /\ appPc \in {"idle", "destroyed"} \cup DisconnectPcs
    /\ copied \in (CASE appPc = "clearTcp"       -> Handles
                     [] appPc = "clearTimeout"   -> TimeoutTimers
                     [] appPc = "clearReconnect" -> ReconnectTimers
                     [] OTHER                    -> {}) \cup {Null}
    /\ taken \in [tcp : Handles \cup {Null}, timers : SUBSET Timers]
    /\ torn \subseteq Handles \cup Timers
    /\ calls \in 0..MaxCalls

NothingTaken == [tcp |-> Null, timers |-> {}]

\* The constructor.
Init ==
    /\ m_state = "DISCONNECTED"
    /\ m_host = Null
    /\ m_tcpHandle = Null
    /\ m_reconnectTimer = Null
    /\ m_receiveTimeoutTimer = Null
    /\ m_reconnectInterval = DefaultInitial
    /\ m_initialReconnectInterval = DefaultInitial
    /\ m_maxReconnectInterval = DefaultMax
    /\ timeoutSet = FALSE
    /\ tcp = [h \in Handles |-> "free"]
    /\ timer = [t \in Timers |-> "free"]
    /\ TasksInit
    /\ appPc = "idle"
    /\ copied = Null
    /\ taken = NothingTaken
    /\ torn = {}
    /\ crossed = FALSE
    /\ wanted = FALSE
    /\ dropped = FALSE
    /\ calls = 0

-----------------------------------------------------------------------------
(***************************************************************************)
(* Pieces that several handlers share.                                     *)
(***************************************************************************)
\* What stopReceiveTimeoutTimer and startReceiveTimeoutTimer post.
StopTimeoutTimer     == When(m_receiveTimeoutTimer # Null, StopTimeout)
StartTimeoutTimer(on) == When(on, StartTimeout)

\* disconnect() made on the loop thread: nothing unless the client is busy.
DisconnectPosts ==
    When(m_state # "DISCONNECTED",
         CloseTask(m_tcpHandle, {m_reconnectTimer, m_receiveTimeoutTimer}))

\* Mutant: the reconnect timer is closed but not forgotten.
ForgetPointers_KeepsTimer ==
    IF m_state = "DISCONNECTED"
    THEN UNCHANGED pointers
    ELSE /\ m_tcpHandle' = Null
         /\ m_receiveTimeoutTimer' = Null
         /\ UNCHANGED m_reconnectTimer

ForgetPointers ==
    IF m_state = "DISCONNECTED"
    THEN UNCHANGED pointers
    ELSE /\ m_tcpHandle' = Null
         /\ m_reconnectTimer' = Null
         /\ m_receiveTimeoutTimer' = Null

Disconnect ==
    /\ ForgetPointers
    /\ m_state' = "DISCONNECTED"

-----------------------------------------------------------------------------
(***************************************************************************)
(* The application's calls.                                                *)
(***************************************************************************)
\* The loop thread may call while the other one is inside disconnect().
Call(c, name) ==
    /\ <<c, name>> \in Api
    /\ appPc \in IF c = "app" THEN {"idle"} ELSE {"idle"} \cup DisconnectPcs
    /\ calls < MaxCalls
    /\ calls' = calls + 1

AppConnect(c, host) ==
    /\ Call(c, "connect")
    /\ wanted' = TRUE
    /\ backlog' = Posted(c, <<ConnectTask(host)>>)
    /\ UNCHANGED <<m_state, m_host, pointers, intervals, timeoutSet, tcp, timer,
                   draining, appPc, copied, taken, torn, crossed, dropped>>

AppSend(c) ==
    /\ Call(c, "send")
    /\ backlog' = Posted(c, <<SendTask>>)
    /\ UNCHANGED <<m_state, m_host, pointers, intervals, timeoutSet, tcp, timer,
                   draining, appPc, copied, taken, history>>

\* Every closure of q that stops the watchdog is followed by one that starts it.
Restarted(q) ==
    \A i \in DOMAIN q : q[i] = StopTimeout => \E j \in DOMAIN q : j > i /\ q[j] = StartTimeout

AppSetReceiveTimeout(c, on) ==
    /\ Call(c, "setReceiveTimeout")
    /\ timeoutSet' = on
    /\ backlog' = Posted(c, StopTimeoutTimer \o StartTimeoutTimer(on))
    /\ crossed' = (crossed \/ (on /\ \E d \in Callers \ {c} : ~Restarted(backlog[d])))
    /\ UNCHANGED <<m_state, m_host, pointers, intervals, tcp, timer, draining,
                   appPc, copied, taken, torn, wanted, dropped>>

AppSetReconnectInterval(c, initial, max) ==
    /\ Call(c, "setReconnectInterval")
    /\ IF initial > 0 /\ max >= initial
       THEN /\ m_initialReconnectInterval' = initial
            /\ m_maxReconnectInterval' = max
            /\ m_reconnectInterval' = initial
       ELSE UNCHANGED intervals
    /\ UNCHANGED <<m_state, m_host, pointers, timeoutSet, tcp, timer, backlog,
                   draining, appPc, copied, taken, history>>

\* What the histories record of any disconnect().
Dropped ==
    /\ wanted' = FALSE
    /\ dropped' = TRUE

\* disconnect() from a callback of the client, on the loop thread.
AppDisconnect ==
    /\ Call("loop", "disconnect")
    /\ Dropped
    /\ backlog' = Posted("loop", DisconnectPosts)
    /\ Disconnect
    /\ UNCHANGED <<m_host, intervals, timeoutSet, tcp, timer, draining, appPc, copied,
                   taken, torn, crossed>>

\* disconnect() from the other thread: load the state, ...
DisconnectLoad ==
    /\ Call("app", "disconnect")
    /\ Dropped
    /\ appPc' = IF m_state = "DISCONNECTED" THEN "idle" ELSE "store"
    /\ UNCHANGED <<m_state, m_host, pointers, intervals, timeoutSet, tcp, timer,
                   taskVars, copied, taken, torn, crossed>>

\* ... store the new one, ...
DisconnectStore ==
    /\ appPc = "store"
    /\ m_state' = "DISCONNECTED"
    /\ appPc' = "copyTcp"
    /\ UNCHANGED <<m_host, pointers, intervals, timeoutSet, tcp, timer, backlog,
                   draining, copied, taken, history, calls>>

\* ... copy each pointer ...
DisconnectCopy(at, pointer, next) ==
    /\ appPc = at
    /\ copied' = pointer
    /\ appPc' = next
    /\ UNCHANGED <<m_state, m_host, pointers, intervals, timeoutSet, tcp, timer,
                   taskVars, taken, history, calls>>

DisconnectCopyTcp       == DisconnectCopy("copyTcp", m_tcpHandle, "clearTcp")
DisconnectCopyTimeout   == DisconnectCopy("copyTimeout", m_receiveTimeoutTimer, "clearTimeout")
DisconnectCopyReconnect == DisconnectCopy("copyReconnect", m_reconnectTimer, "clearReconnect")

\* ... and reset it.  If the loop thread has taken the object or made a new
\* one in between, the one is in two hands now and the other in none.
DisconnectClear(at, pointer, next) ==
    /\ appPc = at
    /\ torn' = IF pointer = copied THEN torn ELSE torn \cup ({pointer, copied} \ {Null})
    /\ copied' = Null
    /\ appPc' = next
    /\ UNCHANGED <<m_state, m_host, intervals, timeoutSet, tcp, timer, taskVars,
                   wanted, dropped, calls>>

DisconnectClearTcp ==
    /\ DisconnectClear("clearTcp", m_tcpHandle, "copyTimeout")
    /\ taken' = [taken EXCEPT !.tcp = copied]
    /\ m_tcpHandle' = Null
    /\ UNCHANGED <<m_reconnectTimer, m_receiveTimeoutTimer, crossed>>

DisconnectClearTimeout ==
    /\ DisconnectClear("clearTimeout", m_receiveTimeoutTimer, "copyReconnect")
    /\ taken' = [taken EXCEPT !.timers = @ \cup ({copied} \ {Null})]
    /\ m_receiveTimeoutTimer' = Null
    /\ crossed' = (crossed \/ m_state = "CONNECTED")
    /\ UNCHANGED <<m_tcpHandle, m_reconnectTimer>>

\* Mutant: a timer that was never made is closed as well.
DisconnectClearReconnect_NoNullCheck ==
    /\ DisconnectClear("clearReconnect", m_reconnectTimer, "post")
    /\ taken' = [taken EXCEPT !.timers = @ \cup {copied}]
    /\ m_reconnectTimer' = Null
    /\ UNCHANGED <<m_tcpHandle, m_receiveTimeoutTimer, crossed>>

DisconnectClearReconnect ==
    /\ DisconnectClear("clearReconnect", m_reconnectTimer, "post")
    /\ taken' = [taken EXCEPT !.timers = @ \cup ({copied} \ {Null})]
    /\ m_reconnectTimer' = Null
    /\ UNCHANGED <<m_tcpHandle, m_receiveTimeoutTimer, crossed>>

\* Then it posts the closure that closes what was copied.
DisconnectPost ==
    /\ appPc = "post"
    /\ backlog' = Posted("app", <<CloseTask(taken.tcp, taken.timers)>>)
    /\ taken' = NothingTaken
    /\ appPc' = "idle"
    /\ UNCHANGED <<m_state, m_host, pointers, intervals, timeoutSet, tcp, timer,
                   draining, copied, history, calls>>

\* Nothing under way refers to the client: no closure, request or callback.
Quiet ==
    /\ QueuedTasks = {}
    /\ \A h \in Handles : tcp[h] \in {"free", "open"}
    /\ \A t \in Timers : timer[t] \in {"free", "stopped"}

\* The destructor posts one closure per object.  The class leaves it to its
\* user that nothing refers to the client any more; the model takes it so.
AppDestroy(c) ==
    /\ Quiet /\ appPc = "idle"
    /\ Call(c, "destroy")
    /\ m_tcpHandle' = Null
    /\ m_reconnectTimer' = Null
    /\ m_receiveTimeoutTimer' = Null
    /\ backlog' = Posted(c, When(m_tcpHandle # Null, CloseTask(m_tcpHandle, {}))
                            \o When(m_reconnectTimer # Null, CloseTask(Null, {m_reconnectTimer}))
                            \o When(m_receiveTimeoutTimer # Null,
                                    CloseTask(Null, {m_receiveTimeoutTimer})))
    /\ appPc' = "destroyed"
    /\ UNCHANGED <<m_state, m_host, intervals, timeoutSet, tcp, timer, draining, copied,
                   taken, history>>

-----------------------------------------------------------------------------
(***************************************************************************)
(* The closures, on the loop thread.                                       *)
(***************************************************************************)
ConnectRefused(c) ==
    /\ m_state # "DISCONNECTED"
    /\ RunTask(c, "connect", <<>>)
    /\ UNCHANGED <<m_state, m_host, pointers, intervals, timeoutSet, tcp, timer, appVars>>

\* new: an object of the pool that does not exist yet (none, if the pool of
\* the instance is exhausted; libuv has no such limit).
New(pool, life) ==
    LET free == {x \in pool : life[x] = "free"}
    IN  IF free = {} THEN {} ELSE {CHOOSE x \in free : TRUE}

\* Mutant: a timer or handle is made each time.
OwnOrNew_AlwaysNew(pointer, pool, life) == New(pool, life)

\* The object a closure works with: the client's own or a new one.
OwnOrNew(pointer, pool, life) == IF pointer # Null THEN {pointer} ELSE New(pool, life)

ConnectHandle == OwnOrNew(m_tcpHandle, Handles, tcp)

\* uv_ip4_addr fails: the client stays disconnected, with an unused handle.
ConnectBadAddress(c) ==
    /\ m_state = "DISCONNECTED"
    /\ RunTask(c, "connect", <<>>)
    /\ Head(backlog[c]).host \notin Parseable
    /\ m_host' = Head(backlog[c]).host
    /\ \E h \in ConnectHandle :
        /\ m_tcpHandle' = h
        /\ tcp' = [tcp EXCEPT ![h] = IF @ = "free" THEN "open" ELSE @]
    /\ UNCHANGED <<m_state, m_reconnectTimer, m_receiveTimeoutTimer, intervals,
                   timeoutSet, timer, appVars>>

\* uv_tcp_connect takes the request.
ConnectStarts(c) ==
    /\ m_state = "DISCONNECTED"
    /\ RunTask(c, "connect", <<>>)
    /\ Head(backlog[c]).host \in Parseable
    /\ m_state' = "CONNECTING"
    /\ m_host' = Head(backlog[c]).host
    /\ \E h \in ConnectHandle :
        /\ tcp[h] \in {"free", "open"}
        /\ m_tcpHandle' = h
        /\ tcp' = [tcp EXCEPT ![h] = "connecting"]
    /\ UNCHANGED <<m_reconnectTimer, m_receiveTimeoutTimer, intervals, timeoutSet,
                   timer, appVars>>

\* Mutant: no further attempt after this failure.
ConnectFailsAtOnce_GivesUp(c) ==
    /\ m_state = "DISCONNECTED"
    /\ RunTask(c, "connect", <<>>)
    /\ Head(backlog[c]).host \in Parseable
    /\ m_host' = Head(backlog[c]).host
    /\ \E h \in ConnectHandle :
        /\ m_tcpHandle' = h
        /\ tcp' = [tcp EXCEPT ![h] = IF @ = "free" THEN "open" ELSE @]
    /\ UNCHANGED <<m_state, m_reconnectTimer, m_receiveTimeoutTimer, intervals,
                   timeoutSet, timer, appVars>>

\* uv_tcp_connect fails at once, as it must on a handle already in use.
ConnectFailsAtOnce(c) ==
    /\ m_state = "DISCONNECTED"
    /\ RunTask(c, "connect", <<StartReconnect>>)
    /\ Head(backlog[c]).host \in Parseable
    /\ m_host' = Head(backlog[c]).host
    /\ \E h \in ConnectHandle :
        /\ m_tcpHandle' = h
        /\ tcp' = [tcp EXCEPT ![h] = IF @ = "free" THEN "open" ELSE @]
    /\ UNCHANGED <<m_state, m_reconnectTimer, m_receiveTimeoutTimer, intervals,
                   timeoutSet, timer, appVars>>

Closed(life) == IF life = "connecting" THEN "cancelled" ELSE "closing"

RunClose(c) ==
    /\ RunTask(c, "close", <<>>)
    /\ LET task == Head(backlog[c])
       IN  /\ tcp' = [h \in Handles |-> IF h = task.tcp THEN Closed(tcp[h]) ELSE tcp[h]]
           /\ timer' = [t \in Timers |-> IF t \in task.timers THEN "closing" ELSE timer[t]]
    /\ UNCHANGED <<m_state, m_host, pointers, intervals, timeoutSet, appVars>>

\* startTimer on a timer that exists by now.
Started(t) == [timer EXCEPT ![t] = "armed"]

RunStartReconnect(c) ==
    /\ RunTask(c, "startReconnect", <<>>)
    /\ IF m_state = "DISCONNECTED"
       THEN \E t \in OwnOrNew(m_reconnectTimer, ReconnectTimers, timer) :
                /\ m_reconnectTimer' = t
                /\ timer' = Started(t)
       ELSE UNCHANGED <<m_reconnectTimer, timer>>
    /\ UNCHANGED <<m_state, m_host, m_tcpHandle, m_receiveTimeoutTimer, intervals,
                   timeoutSet, tcp, appVars>>

RunStartTimeout(c) ==
    /\ RunTask(c, "startTimeout", <<>>)
    /\ IF m_state = "CONNECTED"
       THEN \E t \in OwnOrNew(m_receiveTimeoutTimer, TimeoutTimers, timer) :
                /\ m_receiveTimeoutTimer' = t
                /\ timer' = Started(t)
       ELSE UNCHANGED <<m_receiveTimeoutTimer, timer>>
    /\ UNCHANGED <<m_state, m_host, m_tcpHandle, m_reconnectTimer, intervals,
                   timeoutSet, tcp, appVars>>

RunStopTimeout(c) ==
    /\ RunTask(c, "stopTimeout", <<>>)
    /\ timer' = [t \in Timers |->
                    IF t = m_receiveTimeoutTimer THEN "stopped" ELSE timer[t]]
    /\ UNCHANGED <<m_state, m_host, pointers, intervals, timeoutSet, tcp, appVars>>

\* The closure of send() has nothing to do with the connection's life ...
RunSend(c) ==
    /\ RunTask(c, "send", <<>>)
    /\ UNCHANGED <<m_state, m_host, pointers, intervals, timeoutSet, tcp, timer, appVars>>

\* ... unless more than 1 MiB waits to be written.
RunSendOverflow(c) ==
    /\ m_state = "CONNECTED"
    /\ RunTask(c, "send", DisconnectPosts \o <<StartReconnect>>)
    /\ Disconnect
    /\ UNCHANGED <<m_host, intervals, timeoutSet, tcp, timer, appVars>>

-----------------------------------------------------------------------------
(***************************************************************************)
(* The loop's events, between two runs of the work callback.               *)
(***************************************************************************)
Callback(posts) ==
    /\ LoopTurn(posts)
    /\ UNCHANGED <<m_host, timeoutSet, appVars>>

\* A network or timer event.  It waits for the close callbacks that are due,
\* which only delete objects nobody refers to, so their order with other
\* events makes no difference.  Bound: it waits while the queue is long.
Event(posts) ==
    /\ Callback(posts)
    /\ Len(backlog["loop"]) <= MaxBacklog
    /\ \A h \in Handles : tcp[h] # "closing"
    /\ \A t \in Timers : timer[t] # "closing"

\* libuv reports a cancelled request before it answers later requests.
NoCancellationDue == \A h \in Handles : tcp[h] # "cancelled"

\* 2 * interval in an int, which wraps around.
Doubled(interval) ==
    CASE 2 * interval > IntMax      -> 2 * interval - 2 * (IntMax + 1)
      [] 2 * interval < -IntMax - 1 -> 2 * interval + 2 * (IntMax + 1)
      [] OTHER                      -> 2 * interval

ConnectSucceeds(h) ==
    /\ tcp[h] = "connecting"
    /\ NoCancellationDue
    /\ Event(StopTimeoutTimer \o StartTimeoutTimer(timeoutSet))
    /\ m_state' = "CONNECTED"
    /\ m_reconnectInterval' = m_initialReconnectInterval
    \* uv_read_start is given m_tcpHandle, whichever handle that is by now.
    /\ tcp' = [tcp EXCEPT ![h] = IF h = m_tcpHandle THEN "reading" ELSE "connected"]
    /\ UNCHANGED <<pointers, m_initialReconnectInterval, m_maxReconnectInterval, timer>>

\* Mutant: the cap is forgotten.
BackOff_NoCap(interval) == Doubled(interval)

BackOff(interval) ==
    IF Doubled(interval) < m_maxReconnectInterval
    THEN Doubled(interval) ELSE m_maxReconnectInterval

ConnectFailed ==
    /\ m_state' = "DISCONNECTED"
    /\ m_reconnectInterval' = BackOff(m_reconnectInterval)
    /\ UNCHANGED <<pointers, m_initialReconnectInterval, m_maxReconnectInterval, timer>>

ConnectFails(h) ==
    /\ tcp[h] = "connecting"
    /\ NoCancellationDue
    /\ tcp' = [tcp EXCEPT ![h] = "open"]
    /\ Event(<<StartReconnect>>)
    /\ ConnectFailed

\* The handle was closed first: onConnect is called with UV_ECANCELED.
ConnectCancelled(h) ==
    /\ tcp[h] = "cancelled"
    /\ tcp' = [tcp EXCEPT ![h] = "closing"]
    /\ Callback(<<StartReconnect>>)
    /\ ConnectFailed

\* The close callbacks delete the handle.
HandleClosed(h) ==
    /\ tcp[h] = "closing"
    /\ tcp' = [tcp EXCEPT ![h] = "free"]
    /\ Callback(<<>>)
    /\ UNCHANGED <<m_state, pointers, intervals, timer>>

TimerClosed(t) ==
    /\ timer[t] = "closing"
    /\ timer' = [timer EXCEPT ![t] = "free"]
    /\ Callback(<<>>)
    /\ UNCHANGED <<m_state, pointers, intervals, tcp>>

ReconnectFires(t) ==
    /\ timer[t] = "armed"
    /\ timer' = [timer EXCEPT ![t] = "stopped"]
    /\ Event(When(m_state = "DISCONNECTED", ConnectTask(m_host)))
    /\ UNCHANGED <<m_state, pointers, intervals, tcp>>

\* Mutant: the watchdog disconnects for good.
TimeoutFires_NoRetry(t) ==
    /\ timer[t] = "armed"
    /\ timer' = [timer EXCEPT ![t] = "stopped"]
    /\ Event(DisconnectPosts)
    /\ Disconnect
    /\ UNCHANGED <<intervals, tcp>>

TimeoutFires(t) ==
    /\ timer[t] = "armed"
    /\ timer' = [timer EXCEPT ![t] = "stopped"]
    /\ Event(DisconnectPosts \o <<StartReconnect>>)
    /\ Disconnect
    /\ UNCHANGED <<intervals, tcp>>

\* Mutant: the watchdog is started, then stopped.
DataArrives_StartsFirst(h) ==
    /\ tcp[h] = "reading"
    /\ Event(StartTimeoutTimer(timeoutSet) \o StopTimeoutTimer)
    /\ UNCHANGED <<m_state, pointers, intervals, tcp, timer>>

DataArrives(h) ==
    /\ tcp[h] = "reading"
    /\ Event(StopTimeoutTimer \o StartTimeoutTimer(timeoutSet))
    /\ UNCHANGED <<m_state, pointers, intervals, tcp, timer>>

\* onReceive with nread < 0; libuv stops reading.
ConnectionEnds(h) ==
    /\ tcp[h] = "reading"
    /\ tcp' = [tcp EXCEPT ![h] = "ended"]
    /\ Event(DisconnectPosts \o <<StartReconnect>>)
    /\ Disconnect
    /\ UNCHANGED <<intervals, timer>>

-----------------------------------------------------------------------------
AppNext(c) ==
    \/ \E host \in Hosts : AppConnect(c, host)
    \/ AppSend(c)
    \/ \E on \in BOOLEAN : AppSetReceiveTimeout(c, on)
    \/ \E s \in Settings : AppSetReconnectInterval(c, s[1], s[2])
    \/ AppDestroy(c)

DisconnectNext ==
    \/ DisconnectStore
    \/ DisconnectCopyTcp \/ DisconnectClearTcp
    \/ DisconnectCopyTimeout \/ DisconnectClearTimeout
    \/ DisconnectCopyReconnect \/ DisconnectClearReconnect
    \/ DisconnectPost

TaskNext(c) ==
    \/ ConnectRefused(c) \/ ConnectBadAddress(c)
    \/ ConnectStarts(c) \/ ConnectFailsAtOnce(c)
    \/ RunClose(c)
    \/ RunStartReconnect(c) \/ RunStartTimeout(c) \/ RunStopTimeout(c)
    \/ RunSend(c) \/ RunSendOverflow(c)

Answered(h) == ConnectSucceeds(h) \/ ConnectFails(h) \/ ConnectCancelled(h)

CloseCallbacks ==
    \/ \E h \in Handles : HandleClosed(h)
    \/ \E t \in Timers : TimerClosed(t)

Next ==
    \/ \E c \in Callers : AppNext(c) \/ TaskNext(c)
    \/ AppDisconnect
    \/ DisconnectLoad \/ DisconnectNext
    \/ CloseCallbacks
    \/ \E h \in Handles : Answered(h) \/ DataArrives(h) \/ ConnectionEnds(h)
    \/ \E t \in ReconnectTimers : ReconnectFires(t)
    \/ \E t \in TimeoutTimers : TimeoutFires(t)

Spec == Init /\ [][Next]_vars

(***************************************************************************)
(* Closures keep being run, and each turn of the loop looks at due timers, *)
(* answered requests and closed handles, so none of these waits for ever.  *)
(* The operating system answers every connect request, one way or another. *)
(***************************************************************************)
Fairness ==
    /\ WF_vars(DisconnectNext)
    /\ WF_vars(\E c \in Callers : TaskNext(c))
    /\ SF_vars(\E h \in Handles : Answered(h))
    /\ SF_vars(\E t \in ReconnectTimers : ReconnectFires(t))
    /\ SF_vars(CloseCallbacks)

\* The network accepts some of the attempts that are made.
NetworkFairness ==
    /\ SF_vars(\E c \in Callers : ConnectStarts(c))
    /\ SF_vars(\E h \in Handles : ConnectSucceeds(h))

FairSpec == Spec /\ Fairness
NetworkSpec == FairSpec /\ NetworkFairness

-----------------------------------------------------------------------------
(***************************************************************************)
(* Properties.                                                             *)
(***************************************************************************)

\* The places of the queued closures that will close x ...
QueuedCloses(x) ==
    UNION {{c} \X {i \in DOMAIN backlog[c] :
                    /\ backlog[c][i].op = "close"
                    /\ x = backlog[c][i].tcp \/ x \in backlog[c][i].timers} :
           c \in Callers}

\* ... and of one that a disconnect() on the other thread is going to post.
CloseTasksFor(x) ==
    QueuedCloses(x) \cup IF x = taken.tcp \/ x \in taken.timers THEN {<<"app", 0>>} ELSE {}

\* A libuv handle is closed once: no two closures close it, and none closes
\* a handle that is closing or deleted (uv_close aborts, or works on freed
\* memory), on whatever threads connect(), disconnect() and the others are
\* called, except the objects of a disconnect() between whose copy of the
\* pointer and whose reset the loop thread has changed it
\* (CUVTcpClient.cpp:191-220 and 24-31).
ClosedOnce ==
    /\ \A h \in Handles \ torn :
        /\ Cardinality(CloseTasksFor(h)) <= 1
        /\ CloseTasksFor(h) # {} => tcp[h] \notin {"free", "closing", "cancelled"}
    /\ \A t \in Timers \ torn :
        /\ Cardinality(CloseTasksFor(t)) <= 1
        /\ CloseTasksFor(t) # {} => timer[t] \notin {"free", "closing"}

\* No handle is lost: what exists and is not closing is pointed to by the
\* client, or a closure is about to close it, with the same exception
\* (CUVTcpClient.cpp:118-132, 200-220 and 498-511).
NoHandleLost ==
    /\ \A h \in Handles \ torn :
        tcp[h] \notin {"free", "closing", "cancelled"} =>
            h = m_tcpHandle \/ CloseTasksFor(h) # {}
    /\ \A t \in Timers \ torn :
        timer[t] \notin {"free", "closing"} =>
            \/ t \in {m_reconnectTimer, m_receiveTimeoutTimer}
            \/ CloseTasksFor(t) # {}

\* The wait before the next attempt stays between the limits in force
\* (CUVTcpClient.cpp:349-356, 540-541 and 546).
BackoffInRange ==
    /\ m_initialReconnectInterval <= m_reconnectInterval
    /\ m_reconnectInterval <= m_maxReconnectInterval

\* The connection that carries data is watched: if a receive timeout is set,
\* the watchdog runs or the closure that starts it is queued, whatever mix
\* of stop and start closures the callbacks and setReceiveTimeout have posted
\* from either thread.  Two threads may undo each other's work: when the
\* timeout is set while the other thread's closure that stops the watchdog is
\* queued, or a disconnect() clears the watchdog of a later connection
\* (CUVTcpClient.cpp:359-371, 422-472, 558-559 and 612-613).
Watched ==
    /\ ~crossed /\ m_receiveTimeoutTimer \notin torn
    /\ timeoutSet
    /\ m_state = "CONNECTED"
    /\ m_tcpHandle # Null
    /\ tcp[m_tcpHandle] = "reading"
    => \/ m_receiveTimeoutTimer # Null /\ timer[m_receiveTimeoutTimer] = "armed"
       \/ StartTimeout \in QueuedTasks

\* A client that is CONNECTED has the connection's handle: disconnect acts as
\* one step on the loop thread, as the comments at CUVTcpClient.cpp:183 and
\* 207 have it.
ConnectedHasHandle == m_state = "CONNECTED" /\ appPc = "idle" => m_tcpHandle # Null

\* After disconnect() the client posts no attempt to connect of its own accord
\* until connect() is called again: "stop the reconnect timer, avoid connecting
\* again" (CUVTcpClient.cpp:212).
NoAttemptAfterDisconnect ==
    [][\A host \in Hosts :
        ConnectTask(host) \in QueuedTasks' => ConnectTask(host) \in QueuedTasks \/ wanted']_vars

Connected ==
    /\ m_state = "CONNECTED"
    /\ m_tcpHandle # Null
    /\ tcp[m_tcpHandle] = "reading"

\* connect() works again after any disconnect(): a client whose last
\* disconnect() has returned and left it DISCONNECTED, with no connect request
\* of its own or of an earlier connection waiting for its answer, gets a
\* connection that it reads from (CUVTcpClient.cpp:102-177, 375-405, 537-543
\* and 614-616).
GetsConnection ==
    /\ wanted
    /\ m_state = "DISCONNECTED" /\ appPc = "idle" /\ torn = {}
    /\ \A h \in Handles : tcp[h] \notin {"connecting", "cancelled"}
    ~> Connected \/ ~wanted

\* A client that was never told to disconnect gets its connection, and gets
\* it back after the peer has closed it, the write queue has overflown or the
\* watchdog has fired (CUVTcpClient.cpp:281-292, 443-454 and 614-616).
ConnectsAgain == wanted /\ ~dropped ~> Connected \/ dropped
=============================================================================
