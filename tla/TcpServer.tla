------------------------------ MODULE TcpServer ------------------------------
(***************************************************************************)
(* CUVTcpServer (src/src/common/network/impl/tcp/CUVTcpServer.cpp): a TCP   *)
(* server with a table of its clients and a receive watchdog per client.   *)
(*                                                                         *)
(* Closures, libuv callbacks and calls made on the loop thread are one     *)
(* action each, save the closure of listen(), which calls the start        *)
(* callback before it stores RUNNING.  stop() called from another thread   *)
(* is one action per access to the shared members.                         *)
(*                                                                         *)
(* A connection c stands for its uv_tcp_t; watchdog[c] is the life of its  *)
(* uv_timer_t and ctx[c] its ClientContext, of which the address matters.  *)
(***************************************************************************)
EXTENDS LoopTasks, Naturals, FiniteSets

CONSTANTS
    Addrs,           \* the answers of getAddress: peers' addresses and {"", 0}
    Listeners,       \* uv_tcp_t objects that listen (bounds how many exist)
    Conns,           \* uv_tcp_t objects of clients (bounds how many exist)
    Null,            \* the null pointer
    MaxCalls         \* bound: API calls in a behaviour

ASSUME ServerAssumption ==
    /\ Null \notin Addrs \cup Listeners \cup Conns
    /\ MaxCalls \in Nat

VARIABLES
    m_state,
    m_serverHandle,
    m_clients,       \* m_clients[a]: the handle in the entry of a, or Null
    timeoutSet,      \* m_receiveTimeoutInterval > 0
    listener,        \* listener[l]: the life of handle l
    tcp,             \* tcp[c]: the life of c; "closing" with the callback
                     \* onClientDisconnect, "deleting" with a bare delete
    watchdog,        \* watchdog[c]: the life of c's timer
    ctx,             \* ctx[c]: the address in c's ClientContext, or Null
    writing,         \* the connections with an unanswered uv_write
    starting,        \* the loop is inside the start callback
    appPc,           \* where the application's thread is inside stop()
    taken,           \* what that call has copied so far
    wanted,          \* history: the last of listen/stop was listen
    exposed,         \* history: the handles made while stop() on another thread
                     \* was between copying and clearing what holds them, and
                     \* the clients accepted while a handle had their address
    overrun,         \* history: RUNNING was stored over what a stop() had set
    calls            \* API calls made so far

connVars  == <<tcp, watchdog, ctx, writing>>
stateVars == <<m_state, m_serverHandle, m_clients, timeoutSet>>
history   == <<wanted, exposed, overrun>>
appVars   == <<appPc, taken, history, calls>>
vars == <<stateVars, listener, connVars, taskVars, starting, appVars>>

ServerState == {"STOPPED", "STARTING", "RUNNING", "STOPPING"}

\* The closures handed to postTask.
ListenTask          == [op |-> "listen"]
StopTask(l, conns)  == [op |-> "stop", listener |-> l, conns |-> conns]
SendTask(a)         == [op |-> "send", addr |-> a]
IntervalTask(on)    == [op |-> "interval", on |-> on]

Task == {ListenTask} \cup {IntervalTask(on) : on \in BOOLEAN}
        \cup {SendTask(a) : a \in Addrs}
        \cup {StopTask(l, conns) : l \in Listeners \cup {Null}, conns \in SUBSET Conns}

TypeOK ==
    /\ m_state \in ServerState
    /\ m_serverHandle \in Listeners \cup {Null}
    /\ m_clients \in [Addrs -> Conns \cup {Null}]
    /\ listener \in [Listeners -> {"free", "open", "listening", "closing"}]
    /\ tcp \in [Conns -> {"free", "reading", "closing", "deleting"}]
    /\ watchdog \in [Conns -> {"free", "armed", "stopped", "closing"}]
    /\ ctx \in [Conns -> Addrs \cup {Null}]
    /\ writing \subseteq Conns
    /\ {timeoutSet, draining, starting, wanted, overrun} \subseteq BOOLEAN
    /\ exposed \subseteq Listeners \cup Conns
    /\ DOMAIN backlog = Callers
    /\ QueuedTasks \subseteq Task
    /\ appPc \in {"idle", "store", "copyHandle", "clearHandle", "copyClients",
                  "clearClients", "post", "end"}
    /\ taken \in [listener : Listeners \cup {Null}, conns : SUBSET Conns]
    /\ calls \in 0..MaxCalls

NothingTaken == [listener |-> Null, conns |-> {}]
NoClients    == [a \in Addrs |-> Null]

Init ==
    /\ m_state = "STOPPED"
    /\ m_serverHandle = Null
    /\ m_clients = NoClients
    /\ timeoutSet = FALSE
    /\ listener = [l \in Listeners |-> "free"]
    /\ tcp = [c \in Conns |-> "free"]
    /\ watchdog = [c \in Conns |-> "free"]
    /\ ctx = [c \in Conns |-> Null]
    /\ writing = {}
    /\ TasksInit
    /\ starting = FALSE
    /\ appPc = "idle"
    /\ taken = NothingTaken
    /\ wanted = FALSE
    /\ exposed = {}
    /\ overrun = FALSE
    /\ calls = 0

-----------------------------------------------------------------------------
(***************************************************************************)
(* The application's calls, by either thread.                              *)
(***************************************************************************)
Call(thread) ==
    /\ thread = "app" => appPc = "idle"
    /\ calls < MaxCalls
    /\ calls' = calls + 1

Listen(thread) ==
    /\ Call(thread)
    /\ wanted' = TRUE
    /\ backlog' = Posted(thread, When(m_state = "STOPPED", ListenTask))
    /\ UNCHANGED <<stateVars, listener, connVars, draining, starting, appPc, taken, exposed,
                   overrun>>

Send(thread, a) ==
    /\ Call(thread)
    /\ backlog' = Posted(thread, <<SendTask(a)>>)
    /\ UNCHANGED <<stateVars, listener, connVars, draining, starting, appPc, taken,
                   history>>

SetReceiveTimeoutInterval(thread, on) ==
    /\ Call(thread)
    /\ backlog' = Posted(thread, <<IntervalTask(on)>>)
    /\ UNCHANGED <<stateVars, listener, connVars, draining, starting, appPc, taken,
                   history>>

\* Mutant: an address without an entry is given one by the lookup.
Known_WithHoles == {m_clients[a] : a \in Addrs}

\* The handles in the table.
Known == {m_clients[a] : a \in Addrs} \ {Null}

StopIgnored ==
    /\ m_state = "STOPPED"
    /\ UNCHANGED <<m_state, m_serverHandle, m_clients, backlog>>

\* Mutant: the table is cleared before it is copied.
StopAll_ClearsFirst ==
    /\ m_state # "STOPPED"
    /\ m_state' = "STOPPED"
    /\ m_serverHandle' = Null
    /\ m_clients' = NoClients
    /\ backlog' = Posted("loop", <<StopTask(m_serverHandle, {})>>)

StopAll ==
    /\ m_state # "STOPPED"
    /\ m_state' = "STOPPED"
    /\ m_serverHandle' = Null
    /\ m_clients' = NoClients
    /\ backlog' = Posted("loop", <<StopTask(m_serverHandle, Known)>>)

\* stop() on the loop thread, from a callback of the server.
Stop ==
    /\ Call("loop")
    /\ wanted' = FALSE
    /\ StopIgnored \/ StopAll
    /\ UNCHANGED <<timeoutSet, listener, connVars, draining, starting, appPc, taken,
                   exposed, overrun>>

\* stop() on another thread: load the state, ...
StopLoad ==
    /\ Call("app")
    /\ wanted' = FALSE
    /\ appPc' = IF m_state = "STOPPED" THEN "idle" ELSE "store"
    /\ UNCHANGED <<stateVars, listener, connVars, taskVars, starting, taken, exposed,
                   overrun>>

StopStep(from, to) ==
    /\ appPc = from
    /\ appPc' = to
    /\ UNCHANGED <<timeoutSet, listener, connVars, draining, starting, history, calls>>

\* ... store STOPPING, copy and clear the handle, copy and clear the table
\* (each of these two taken to be atomic), post the closure, store STOPPED.
StopStore ==
    /\ StopStep("store", "copyHandle")
    /\ m_state' = "STOPPING"
    /\ UNCHANGED <<m_serverHandle, m_clients, backlog, taken>>

StopCopyHandle ==
    /\ StopStep("copyHandle", "clearHandle")
    /\ taken' = [taken EXCEPT !.listener = m_serverHandle]
    /\ UNCHANGED <<m_state, m_serverHandle, m_clients, backlog>>

StopClearHandle ==
    /\ StopStep("clearHandle", "copyClients")
    /\ m_serverHandle' = Null
    /\ UNCHANGED <<m_state, m_clients, backlog, taken>>

StopCopyClients ==
    /\ StopStep("copyClients", "clearClients")
    /\ taken' = [taken EXCEPT !.conns = Known]
    /\ UNCHANGED <<m_state, m_serverHandle, m_clients, backlog>>

StopClearClients ==
    /\ StopStep("clearClients", "post")
    /\ m_clients' = NoClients
    /\ UNCHANGED <<m_state, m_serverHandle, backlog, taken>>

StopPost ==
    /\ StopStep("post", "end")
    /\ backlog' = Posted("app", <<StopTask(taken.listener, taken.conns)>>)
    /\ taken' = NothingTaken
    /\ UNCHANGED <<m_state, m_serverHandle, m_clients>>

StopEnd ==
    /\ StopStep("end", "idle")
    /\ m_state' = "STOPPED"
    /\ UNCHANGED <<m_serverHandle, m_clients, backlog, taken>>

-----------------------------------------------------------------------------
(***************************************************************************)
(* The closures, on the loop thread.                                       *)
(***************************************************************************)
Run(thread, op) ==
    /\ ~starting
    /\ RunTask(thread, op, <<>>)
    /\ UNCHANGED <<appPc, taken, wanted, overrun, calls>>

ListenRefused(thread) ==
    /\ m_state # "STOPPED"
    /\ Run(thread, "listen")
    /\ UNCHANGED <<stateVars, listener, connVars, starting, exposed>>

\* stop() has copied x, in a call under way or for its queued closure.
Named(x) ==
    \/ x = taken.listener \/ x \in taken.conns
    \/ \E task \in QueuedTasks : task.op = "stop" /\ (x = task.listener \/ x \in task.conns)

\* Mutant: a handle is made each time.
ServerHandle_New ==
    LET free == {l \in Listeners : listener[l] = "free" /\ ~Named(l)}
    IN  IF free = {} THEN {} ELSE {CHOOSE l \in free : TRUE}

\* The handle to listen on: the one left by an earlier attempt or a new one.
ServerHandle ==
    LET free == {l \in Listeners : listener[l] = "free" /\ ~Named(l)}
    IN  CASE m_serverHandle # Null -> {m_serverHandle}
          [] free = {}             -> {}
          [] OTHER                 -> {CHOOSE l \in free : TRUE}

\* A new handle that stop() on another thread clears without having copied it.
Exposed(l) ==
    IF m_serverHandle = Null /\ appPc = "clearHandle" THEN exposed \cup {l} ELSE exposed

\* uv_tcp_init fails: the state is left at STARTING.
ListenHasNoHandle(thread) ==
    /\ m_state = "STOPPED" /\ m_serverHandle = Null
    /\ Run(thread, "listen")
    /\ m_state' = "STARTING"
    /\ UNCHANGED <<m_serverHandle, m_clients, timeoutSet, listener, connVars, starting,
                   exposed>>

\* Mutant: the return statement is missing.
ListenFails_NoReturn(thread) ==
    /\ m_state = "STOPPED"
    /\ Run(thread, "listen")
    /\ m_state' = "RUNNING"
    /\ \E l \in ServerHandle :
        /\ m_serverHandle' = l
        /\ listener' = [listener EXCEPT ![l] = IF @ = "free" THEN "open" ELSE @]
        /\ exposed' = Exposed(l)
    /\ UNCHANGED <<m_clients, timeoutSet, connVars, starting>>

\* The address cannot be parsed, bound or listened on.
ListenFails(thread) ==
    /\ m_state = "STOPPED"
    /\ Run(thread, "listen")
    /\ \E l \in ServerHandle :
        /\ m_serverHandle' = l
        /\ listener' = [listener EXCEPT ![l] = IF @ = "free" THEN "open" ELSE @]
        /\ exposed' = Exposed(l)
    /\ UNCHANGED <<m_state, m_clients, timeoutSet, connVars, starting>>

\* uv_listen succeeds, on a handle that is not bound yet: the start callback
\* is called ...
ListenOpens(thread) ==
    /\ m_state = "STOPPED"
    /\ Run(thread, "listen")
    /\ m_state' = "STARTING"
    /\ \E l \in ServerHandle :
        /\ listener[l] \in {"free", "open"}
        /\ m_serverHandle' = l
        /\ listener' = [listener EXCEPT ![l] = "listening"]
        /\ exposed' = Exposed(l)
    /\ starting' = TRUE
    /\ UNCHANGED <<m_clients, timeoutSet, connVars>>

\* ... and has returned.
ListenDone ==
    /\ starting
    /\ starting' = FALSE
    /\ m_state' = "RUNNING"
    /\ overrun' = (m_state # "STARTING")
    /\ draining' = (QueuedTasks # {})
    /\ UNCHANGED <<m_serverHandle, m_clients, timeoutSet, listener, connVars, backlog,
                   appPc, taken, wanted, exposed, calls>>

\* uv_close aborts or does nothing on a handle that is closing already, and
\* works on freed memory once that is deleted: left alone here.
RunStop(thread) ==
    /\ Run(thread, "stop")
    /\ LET task == Head(backlog[thread])
       IN  /\ listener' = [l \in Listeners |->
                            IF l = task.listener /\ listener[l] # "free" THEN "closing"
                            ELSE listener[l]]
           /\ tcp' = [c \in Conns |->
                        IF c \in task.conns /\ tcp[c] = "reading" THEN "deleting" ELSE tcp[c]]
           /\ watchdog' = [c \in Conns |->
                        IF c \in task.conns /\ watchdog[c] # "free" THEN "closing"
                        ELSE watchdog[c]]
    /\ UNCHANGED <<stateVars, ctx, writing, starting, exposed>>

RunSend(thread) ==
    /\ Run(thread, "send")
    /\ LET c == m_clients[Head(backlog[thread]).addr]
       IN  \/ UNCHANGED writing
           \/ c # Null /\ tcp[c] = "reading" /\ writing' = writing \cup {c}
    /\ UNCHANGED <<stateVars, listener, tcp, watchdog, ctx, starting, exposed>>

RunInterval(thread) ==
    /\ Run(thread, "interval")
    /\ timeoutSet' = Head(backlog[thread]).on
    /\ UNCHANGED <<m_state, m_serverHandle, m_clients, listener, connVars, starting, exposed>>

-----------------------------------------------------------------------------
(***************************************************************************)
(* libuv's callbacks.                                                      *)
(***************************************************************************)
Callback ==
    /\ ~starting
    /\ LoopTurn(<<>>)
    /\ UNCHANGED <<m_state, m_serverHandle, timeoutSet, starting, appPc, taken, wanted,
                   overrun, calls>>

Event == Callback /\ UNCHANGED exposed

\* A peer connects, for which getAddress answers a, and is given the handle c,
\* which no closure names any more.  Another handle may still have the address:
\* the connection it was for has broken and libuv has not said so yet, or
\* getAddress fails for both.
Arrives(a, c) ==
    /\ Callback
    /\ \E l \in Listeners : listener[l] = "listening"
    /\ tcp[c] = "free" /\ watchdog[c] = "free" /\ ~Named(c)

\* onNewConnection.
NewConnection(a, c) ==
    /\ Arrives(a, c)
    /\ m_clients[a] = Null
    /\ tcp' = [tcp EXCEPT ![c] = "reading"]
    /\ ctx' = [ctx EXCEPT ![c] = a]
    /\ m_clients' = [m_clients EXCEPT ![a] = c]
    /\ watchdog' = [watchdog EXCEPT ![c] = IF timeoutSet THEN "armed" ELSE "free"]
    /\ exposed' = IF appPc = "clearClients" \/ \E d \in Conns : ctx[d] = a
                  THEN exposed \cup {c} ELSE exposed \ {c}
    /\ UNCHANGED <<listener, writing>>

\* onNewConnection for an address that is in the table: deleted at once.
DuplicateConnection(a, c) ==
    /\ Arrives(a, c)
    /\ m_clients[a] # Null
    /\ tcp' = [tcp EXCEPT ![c] = "deleting"]
    /\ UNCHANGED <<m_clients, listener, watchdog, ctx, writing, exposed>>

\* Mutant: the watchdog is stopped and not started again.
DataArrives_StopsOnly(c) ==
    /\ Event
    /\ tcp[c] = "reading"
    /\ watchdog' = [watchdog EXCEPT ![c] = IF @ = "free" THEN @ ELSE "stopped"]
    /\ UNCHANGED <<m_clients, listener, tcp, ctx, writing>>

\* onClientRead with data: the watchdog starts anew.
DataArrives(c) ==
    /\ Event
    /\ tcp[c] = "reading"
    /\ watchdog' = [watchdog EXCEPT ![c] = IF @ = "free" THEN @ ELSE "armed"]
    /\ UNCHANGED <<m_clients, listener, tcp, ctx, writing>>

\* closeClientConnection: a handle is not closed twice.
ConnectionClosed(c) == [tcp EXCEPT ![c] = IF @ = "reading" THEN "closing" ELSE @]

\* onClientRead with an error or the end of the stream.
ConnectionEnds(c) ==
    /\ Event
    /\ tcp[c] = "reading"
    /\ tcp' = ConnectionClosed(c)
    /\ UNCHANGED <<m_clients, listener, watchdog, ctx, writing>>

\* onReceiveTimeout.
TimeoutFires(c) ==
    /\ Event
    /\ watchdog[c] = "armed"
    /\ watchdog' = [watchdog EXCEPT ![c] = "stopped"]
    /\ tcp' = ConnectionClosed(c)
    /\ UNCHANGED <<m_clients, listener, ctx, writing>>

\* onSend; libuv answers every write before it calls the close callback.
WriteDone(c) ==
    /\ Event
    /\ c \in writing
    /\ writing' = writing \ {c}
    /\ UNCHANGED <<m_clients, listener, tcp, watchdog, ctx>>

\* Mutant: the timer is forgotten.
ClientDisconnected_KeepsTimer(c) ==
    /\ Event
    /\ tcp[c] = "closing" /\ c \notin writing
    /\ tcp' = [tcp EXCEPT ![c] = "free"]
    /\ m_clients' = [m_clients EXCEPT ![ctx[c]] = Null]
    /\ ctx' = [ctx EXCEPT ![c] = Null]
    /\ UNCHANGED <<watchdog, listener, writing>>

\* Mutant: the entry is forgotten.
ClientDisconnected_KeepsEntry(c) ==
    /\ Event
    /\ tcp[c] = "closing" /\ c \notin writing
    /\ tcp' = [tcp EXCEPT ![c] = "free"]
    /\ watchdog' = [watchdog EXCEPT ![c] = IF @ = "free" THEN @ ELSE "closing"]
    /\ ctx' = [ctx EXCEPT ![c] = Null]
    /\ UNCHANGED <<m_clients, listener, writing>>

\* onClientDisconnect.
ClientDisconnected(c) ==
    /\ Event
    /\ tcp[c] = "closing" /\ c \notin writing
    /\ tcp' = [tcp EXCEPT ![c] = "free"]
    /\ watchdog' = [watchdog EXCEPT ![c] = IF @ = "free" THEN @ ELSE "closing"]
    /\ m_clients' = [m_clients EXCEPT ![ctx[c]] = Null]
    /\ ctx' = [ctx EXCEPT ![c] = Null]
    /\ UNCHANGED <<listener, writing>>

\* The close callback of deleteClientHandle.  The context is not deleted, but
\* nothing refers to it any more.
ClientDeleted(c) ==
    /\ Event
    /\ tcp[c] = "deleting" /\ c \notin writing
    /\ tcp' = [tcp EXCEPT ![c] = "free"]
    /\ ctx' = [ctx EXCEPT ![c] = Null]
    /\ UNCHANGED <<m_clients, listener, watchdog, writing>>

WatchdogDeleted(c) ==
    /\ Event
    /\ watchdog[c] = "closing"
    /\ watchdog' = [watchdog EXCEPT ![c] = "free"]
    /\ UNCHANGED <<m_clients, listener, tcp, ctx, writing>>

ListenerDeleted(l) ==
    /\ Event
    /\ listener[l] = "closing"
    /\ listener' = [listener EXCEPT ![l] = "free"]
    /\ UNCHANGED <<m_clients, connVars>>

-----------------------------------------------------------------------------
AppNext ==
    \/ \E thread \in Callers :
        \/ Listen(thread)
        \/ \E a \in Addrs : Send(thread, a)
        \/ \E on \in BOOLEAN : SetReceiveTimeoutInterval(thread, on)
    \/ Stop
    \/ StopLoad

StopNext ==
    \/ StopStore \/ StopCopyHandle \/ StopClearHandle
    \/ StopCopyClients \/ StopClearClients \/ StopPost \/ StopEnd

TaskNext(thread) ==
    \/ ListenRefused(thread) \/ ListenHasNoHandle(thread)
    \/ ListenFails(thread) \/ ListenOpens(thread)
    \/ RunStop(thread) \/ RunSend(thread) \/ RunInterval(thread)

ConnClosed(c) == ClientDisconnected(c) \/ ClientDeleted(c) \/ WatchdogDeleted(c)

ConnNext(c) ==
    \/ \E a \in Addrs : NewConnection(a, c) \/ DuplicateConnection(a, c)
    \/ DataArrives(c) \/ ConnectionEnds(c) \/ TimeoutFires(c) \/ WriteDone(c)

Next ==
    \/ AppNext
    \/ StopNext
    \/ \E thread \in Callers : TaskNext(thread)
    \/ ListenDone
    \/ \E c \in Conns : ConnNext(c) \/ ConnClosed(c)
    \/ \E l \in Listeners : ListenerDeleted(l)

Spec == Init /\ [][Next]_vars

(***************************************************************************)
(* Closures keep being run, and each turn of the loop ends with the close  *)
(* callbacks that are due.  Nothing obliges a peer to do anything.         *)
(***************************************************************************)
Fairness ==
    /\ WF_vars(StopNext)
    /\ WF_vars(ListenDone)
    /\ WF_vars(\E thread \in Callers : TaskNext(thread))
    /\ \A c \in Conns : SF_vars(ConnClosed(c))
    /\ \A l \in Listeners : SF_vars(ListenerDeleted(l))

FairSpec == Spec /\ Fairness

-----------------------------------------------------------------------------
(***************************************************************************)
(* Properties.                                                             *)
(***************************************************************************)

\* No callback works on a ClientContext that is gone: onClientRead, onSend,
\* onReceiveTimeout and onClientDisconnect all start from it, and only the
\* last deletes it, while the others may be due (CUVTcpServer.cpp:434-529).
ContextAlive ==
    \A c \in Conns :
        tcp[c] = "reading" \/ watchdog[c] = "armed" \/ c \in writing => ctx[c] # Null

\* An entry of the table is a handle that exists, with a context of the same
\* address, so that send() never works on a deleted handle
\* (CUVTcpServer.cpp:194-195, 224-233, 404 and 447-456).
NoDanglingEntry ==
    \A a \in Addrs : m_clients[a] # Null =>
        /\ ctx[m_clients[a]] = a
        /\ tcp[m_clients[a]] \in {"reading", "closing"}

\* No client is lost: one that is read from is in the table, under its own
\* address, or a stop() has copied it and its closure is about to delete it,
\* on whatever thread stop() is called.  Two kinds of clients may be lost:
\* those accepted while stop() on another thread is between copying and
\* clearing the table, and those whose address another handle had when they
\* came, since onClientDisconnect erases by address
\* (CUVTcpServer.cpp:194-211, 354-363, 404 and 453).
NoClientLost ==
    \A c \in Conns \ exposed :
        tcp[c] = "reading" => m_clients[ctx[c]] = c \/ Named(c)

\* A server that says it runs does listen, on whatever thread stop() is called,
\* once it has returned, unless RUNNING was stored when listen() had a stop()
\* made in or during its start callback to overwrite
\* (CUVTcpServer.cpp:109-173 and 186-213).
RunningListens ==
    m_state = "RUNNING" /\ ~overrun /\ appPc \in {"idle", "store"} =>
        m_serverHandle # Null /\ listener[m_serverHandle] = "listening"

\* A client that has a watchdog is watched until it is closed, whatever
\* setReceiveTimeoutInterval is given meanwhile (CUVTcpServer.cpp:407-412
\* and 473-479).
Watched ==
    \A c \in Conns : tcp[c] = "reading" /\ watchdog[c] # "free" => watchdog[c] = "armed"

\* A handle that the server no longer uses is closed and its port released,
\* also after attempts to listen that failed and whatever stops overlap, unless
\* it was made while stop() on another thread was between copying and clearing
\* the pointer (CUVTcpServer.cpp:114-167 and 191-202).
PortReleased ==
    \A l \in Listeners :
        listener[l] # "free" /\ m_serverHandle # l /\ l \notin exposed
            ~> listener[l] = "free" \/ l \in exposed

\* "Stop the server" (CUVTcpServer.h:126): after stop() it does not start to
\* run until listen() is called again.
StopSticks == [][m_state # "RUNNING" /\ m_state' = "RUNNING" => wanted]_vars
=============================================================================
