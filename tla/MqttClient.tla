----------------------------- MODULE MqttClient -----------------------------
(***************************************************************************)
(* CPahoMqttClient (src/src/common/network/impl/mqttClient) on top of the  *)
(* Paho C++ async_client, which is external.  Two threads call it: "app"   *)
(* owns the client; "paho" is the thread on which the library runs the     *)
(* callbacks, one at a time, and on which it completes tokens, so that a   *)
(* token waited for inside a callback completes only by its timeout.       *)
(* message_arrived and delivery_complete run on that thread too; they call *)
(* what only prints, change no state, and are left out.                    *)
(*                                                                         *)
(* A caller works through a sequence of calls, todo[c].  A call is several *)
(* steps: the tests of m_client and m_connected, the request to Paho, and  *)
(* the wait of at most 100 ms for its token, which throws if the token was *)
(* completed with an error.  The result callbacks only print in this       *)
(* program and are left out.  Nothing in the class keeps a callback off a  *)
(* client that is being deleted: what it asks of the freed client, which   *)
(* is undefined, is taken to throw.                                        *)
(***************************************************************************)
EXTENDS Naturals, Sequences

CONSTANTS
    Topics,
    MaxClients,   \* bound: async_client objects created
    MaxUps        \* bound: connections that come up

ASSUME MqttAssumption == "" \notin Topics /\ MaxClients \in Nat /\ MaxUps \in Nat

Callers == {"app", "paho"}
Call(op, topic) == [op |-> op, topic |-> topic]
Calls == [op : {"init", "setCallbacks", "connect", "disconnect", "destroy"}, topic : {"-"}]
         \cup [op : {"subscribe", "unsubscribe"}, topic : Topics]
         \cup [op : {"publish"}, topic : Topics \cup {""}]

VARIABLES
    m_client,      \* 0 for null, else the how-manieth async_client it is;
                   \* it dangles while another one takes its place
    m_connected,
    conn,          \* the connection of that async_client
    events,        \* callbacks that the library is about to make
    requests,      \* subscriptions and unsubscriptions on their way to the broker
    session,       \* session[t]: the broker's last answer about topic t
    callbacksSet,  \* the callback members are not empty
    ups, sent,     \* connections so far; messages handed to Paho
    clobbered,     \* history: connect() threw on a connection that was up,
                   \* and no callback has stored the flag since
    todo, pc       \* per caller: the calls it has still to make, and where it
                   \* is in the first of them

netVars  == <<conn, events, requests, session, ups>>
mqttVars == <<m_client, m_connected, clobbered, netVars, callbacksSet, sent, todo, pc>>

Untouched == [t \in Topics |-> "none"]

MqttTypeOK ==
    /\ m_client \in 0..MaxClients
    /\ m_connected \in BOOLEAN
    /\ clobbered \in BOOLEAN
    /\ conn \in {"idle", "connecting", "up", "lost", "closing", "closed"}
    /\ events \in Seq({"connected", "lost"})
    /\ requests \in Seq(Calls)
    /\ session \in [Topics -> {"none", "granted", "refused", "dropped"}]
    /\ callbacksSet \in BOOLEAN
    /\ ups \in 0..MaxUps
    /\ todo \in [Callers -> Seq(Calls)]
    /\ pc \in [Callers -> {"start", "stamped", "drafted", "request", "wait", "delete", "assign"}]

MqttInit ==
    /\ m_client = 0
    /\ m_connected = FALSE
    /\ clobbered = FALSE
    /\ conn = "idle"
    /\ events = <<>> /\ requests = <<>>
    /\ session = Untouched
    /\ ups = 0
    /\ callbacksSet = FALSE
    /\ sent = {}
    /\ todo = [c \in Callers |-> <<>>]
    /\ pc = [c \in Callers |-> "start"]

At(c, ops, where) ==
    /\ todo[c] # <<>>
    /\ Head(todo[c]).op \in ops
    /\ pc[c] = where

GoTo(c, where) == pc' = [pc EXCEPT ![c] = where] /\ UNCHANGED todo

\* The call returns, and the caller goes on with `rest`.
Return(c, rest) ==
    /\ pc' = [pc EXCEPT ![c] = "start"]
    /\ todo' = [todo EXCEPT ![c] = rest]

-----------------------------------------------------------------------------
(***************************************************************************)
(* init, connect, disconnect and the destructor.                           *)
(***************************************************************************)
\* disconnect() of the async_client throws unless it is connected.
AskDisconnect == conn' = "closing" /\ UNCHANGED <<events, requests, session, ups>>

\* init() has made the new async_client, or the destructor begins: an old one
\* is disconnected, if it can be, before it is deleted.
DeleteStarts(c) ==
    /\ At(c, {"init", "destroy"}, "start")
    /\ Head(todo[c]).op = "init" => m_client < MaxClients
    /\ \/ m_client = 0 /\ GoTo(c, "assign") /\ UNCHANGED netVars
       \/ m_client # 0 /\ conn # "up" /\ GoTo(c, "delete") /\ UNCHANGED netVars
       \/ m_client # 0 /\ conn = "up" /\ GoTo(c, "wait") /\ AskDisconnect
    /\ UNCHANGED <<m_client, m_connected, clobbered, callbacksSet, sent>>

\* The async_client cannot be made: init() answers false.
InitFails(c) ==
    /\ At(c, {"init"}, "start")
    /\ Return(c, <<>>)
    /\ UNCHANGED <<m_client, m_connected, clobbered, netVars, callbacksSet, sent>>

\* The old client goes with all that it had under way; m_connected stays,
\* and m_client dangles until it is assigned to.
Delete(c) ==
    /\ At(c, {"init", "destroy"}, "delete")
    /\ conn' = "idle"
    /\ events' = <<>> /\ requests' = <<>> /\ session' = Untouched
    /\ GoTo(c, "assign")
    /\ UNCHANGED <<m_client, m_connected, clobbered, ups, callbacksSet, sent>>

Assign(c) ==
    /\ At(c, {"init", "destroy"}, "assign")
    /\ m_client' = IF Head(todo[c]).op = "init" THEN m_client + 1 ELSE 0
    /\ Return(c, Tail(todo[c]))
    /\ UNCHANGED <<m_connected, clobbered, netVars, callbacksSet, sent>>

\* The six setters, which the application calls one after the other.
SetCallbacks(c) ==
    /\ At(c, {"setCallbacks"}, "start")
    /\ callbacksSet' = TRUE
    /\ Return(c, Tail(todo[c]))
    /\ UNCHANGED <<m_client, m_connected, clobbered, netVars, sent>>

\* The connection is asked for, to no effect if it is up; nobody keeps the
\* token.
Connect(c) ==
    /\ At(c, {"connect"}, "start")
    /\ conn' = IF m_client = 0 \/ conn = "up" THEN conn ELSE "connecting"
    /\ Return(c, Tail(todo[c]))
    /\ UNCHANGED <<m_client, m_connected, clobbered, events, requests, session, ups, callbacksSet,
                   sent>>

\* The flag is cleared whatever the connection is.
ConnectThrows(c) ==
    /\ At(c, {"connect"}, "start")
    /\ m_client # 0
    /\ m_connected' = FALSE
    /\ clobbered' = (clobbered \/ conn = "up")
    /\ Return(c, Tail(todo[c]))
    /\ UNCHANGED <<m_client, netVars, callbacksSet, sent>>

Disconnect(c) ==
    /\ At(c, {"disconnect"}, "start")
    /\ m_client # 0 /\ conn = "up"
    /\ AskDisconnect
    /\ GoTo(c, "wait")
    /\ UNCHANGED <<m_client, m_connected, clobbered, callbacksSet, sent>>

\* No client, or an exception: a connection under way may still come up.
DisconnectRefused(c) ==
    /\ At(c, {"disconnect"}, "start")
    /\ m_client = 0 \/ conn # "up"
    /\ Return(c, Tail(todo[c]))
    /\ UNCHANGED <<m_client, m_connected, clobbered, netVars, callbacksSet, sent>>

-----------------------------------------------------------------------------
(***************************************************************************)
(* subscribe, unsubscribe and publish.                                     *)
(***************************************************************************)
Requests == {"subscribe", "unsubscribe", "publish"}

\* A call whose turn it is; publish comes here when its message is drafted.
Ready(c) == At(c, {"subscribe", "unsubscribe"}, "start") \/ At(c, {"publish"}, "drafted")

Check(c) ==
    /\ Ready(c)
    /\ IF m_client = 0 \/ ~m_connected THEN Return(c, Tail(todo[c])) ELSE GoTo(c, "request")
    /\ UNCHANGED <<m_client, m_connected, clobbered, netVars, callbacksSet, sent>>

\* Nothing can be asked for without a connection, and a message, whose topic
\* may be empty, may be refused also with one.
RequestThrows(c) ==
    /\ At(c, Requests, "request")
    /\ conn # "up" \/ Head(todo[c]).op = "publish"
    /\ Return(c, Tail(todo[c]))
    /\ UNCHANGED <<m_client, m_connected, clobbered, netVars, callbacksSet, sent>>

Request(c) ==
    /\ At(c, {"subscribe", "unsubscribe"}, "request")
    /\ conn = "up"
    /\ requests' = Append(requests, Head(todo[c]))
    /\ GoTo(c, "wait")
    /\ UNCHANGED <<m_client, m_connected, clobbered, conn, events, session, ups, callbacksSet, sent>>

Publish(c, message) ==
    /\ At(c, {"publish"}, "request")
    /\ conn = "up"
    /\ sent' = sent \cup {message}
    /\ Return(c, Tail(todo[c]))
    /\ UNCHANGED <<m_client, m_connected, clobbered, netVars, callbacksSet>>

\* The token is complete: it is not while its request is on its way, and it
\* cannot be completed while a callback runs.
Completed(c) ==
    /\ todo["paho"] = <<>>
    /\ Head(todo[c]).op \in Requests => \A i \in DOMAIN requests : requests[i] # Head(todo[c])
    /\ Head(todo[c]).op \notin Requests => conn # "closing"

\* Mutant: the wait has no timeout.
TimesOut_Never == FALSE
\* The 100 ms are over.
TimesOut == TRUE

AfterWait(c) ==
    /\ todo[c] # <<>>
    /\ pc[c] = "wait"
    /\ IF Head(todo[c]).op \in {"init", "destroy"} THEN GoTo(c, "delete")
       ELSE Return(c, Tail(todo[c]))
    /\ UNCHANGED <<m_client, clobbered, netVars, callbacksSet, sent>>

WaitEnds(c) ==
    /\ AfterWait(c)
    /\ Completed(c) \/ TimesOut
    /\ m_connected' = (m_connected /\ Head(todo[c]).op # "disconnect")

\* The token was completed with an error: disconnect() leaves the flag alone.
WaitThrows(c) ==
    /\ AfterWait(c)
    /\ Completed(c)
    /\ UNCHANGED m_connected

CallerStep(c) ==
    \/ DeleteStarts(c) \/ InitFails(c) \/ Delete(c) \/ Assign(c)
    \/ SetCallbacks(c) \/ Connect(c) \/ ConnectThrows(c) \/ Disconnect(c) \/ DisconnectRefused(c)
    \/ Check(c) \/ RequestThrows(c) \/ Request(c) \/ WaitEnds(c)
    \/ WaitThrows(c)

-----------------------------------------------------------------------------
(***************************************************************************)
(* The library, the network and the broker.  A session is clean: whatever  *)
(* was subscribed is forgotten with the connection.                        *)
(***************************************************************************)
Network(to, event) ==
    /\ conn' = to
    /\ events' = events \o event
    /\ requests' = <<>>
    /\ session' = Untouched
    /\ UNCHANGED <<m_client, m_connected, clobbered, callbacksSet, sent, todo, pc>>

\* The first connection, or the library's own reconnection.
ComesUp ==
    /\ conn \in {"connecting", "lost"}
    /\ ups < MaxUps
    /\ ups' = ups + 1
    /\ Network("up", <<"connected">>)

\* A first attempt that fails is reported to nobody.
AttemptFails == conn = "connecting" /\ Network("idle", <<>>) /\ UNCHANGED ups

Drops == conn = "up" /\ Network("lost", <<"lost">>) /\ UNCHANGED ups

Closes == conn = "closing" /\ Network("closed", <<>>) /\ UNCHANGED ups

\* The broker answers the oldest request.
Answer ==
    /\ conn = "up"
    /\ requests # <<>>
    /\ \E a \in IF Head(requests).op = "subscribe" THEN {"granted", "refused"} ELSE {"dropped"} :
          session' = [session EXCEPT ![Head(requests).topic] = a]
    /\ requests' = Tail(requests)
    /\ UNCHANGED <<m_client, m_connected, clobbered, conn, events, ups, callbacksSet, sent, todo, pc>>

\* Mutant: only the first connection sets the flag.
FlagAfter_FirstOnly(event) == event = "connected" /\ ups = 1
FlagAfter(event) == event = "connected"

\* MqttCallback::connected and connection_lost: the flag is stored, then the
\* user's callback, if there is one, makes the given calls.
Callback(event, calls) ==
    /\ todo["paho"] = <<>>
    /\ events # <<>>
    /\ Head(events) = event
    /\ events' = Tail(events)
    /\ m_connected' = FlagAfter(event)
    /\ clobbered' = FALSE
    /\ todo' = [todo EXCEPT !["paho"] = IF callbacksSet THEN calls ELSE <<>>]
    /\ UNCHANGED <<m_client, conn, requests, session, ups, callbacksSet, sent, pc>>
=============================================================================
