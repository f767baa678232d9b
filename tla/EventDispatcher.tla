--------------------------- MODULE EventDispatcher ---------------------------
(***************************************************************************)
(* What CEventDispatcher.cpp makes of the MQTT client: the task of         *)
(* initializeMQTTClient calls init() and connect(); the connect callback,  *)
(* on Paho's thread, subscribes to every configured topic and publishes    *)
(* every configured message; the cleanup disconnects, and the client is    *)
(* destroyed when the process ends.  Beyond that the application may make  *)
(* a few calls of its own, as the class allows.                            *)
(***************************************************************************)
EXTENDS MqttClient, BusinessData

CONSTANTS
    Subscriptions,   \* mqtt.subscriptions.subscribe: topics, "" among them
    Publications,    \* mqtt.publications.publish
    Instants,        \* the instants that the clock shows, in order
    MaxCalls         \* bound: the application's calls of its own

ASSUME DispatcherAssumption ==
    /\ Subscriptions \in Seq(Topics \cup {""}) /\ Publications \in Seq(Topics \cup {""})
    /\ DOMAIN Instants = 1..Len(Instants) /\ Len(Instants) \in Nat \ {0}
    /\ \A i \in DOMAIN Instants :
          Instants[i] \in [yyyy : Nat, MM : Nat, dd : Nat, HH : Nat, mm : Nat, ss : Nat]
    /\ MaxCalls \in Nat

VARIABLES clock, draft, phase, calls

vars == <<mqttVars, clock, draft, phase, calls>>

\* Texts and check codes of the instants, computed once.
TimeText  == [i \in DOMAIN Instants |-> TimeString(Instants[i])]
CheckCode == [i \in DOMAIN Instants |-> CcId(TimeText[i])]
TrueCode  == [i \in DOMAIN Instants |-> ExactCode(TimeText[i])]

CheckCodes == {CheckCode[i] : i \in DOMAIN Instants}
Messages == [topic : Topics \cup {""}, id : {BusinessId(t) : t \in Topics \cup {""}},
             time : DOMAIN Instants, ccId : CheckCodes]

TypeOK ==
    /\ MqttTypeOK
    /\ sent \subseteq Messages
    /\ clock \in DOMAIN Instants
    /\ draft \in [time : DOMAIN Instants, ccId : CheckCodes \cup {0}]
    /\ phase \in {"running", "cleanup", "ended"}
    /\ calls \in 0..MaxCalls

Init ==
    /\ MqttInit
    /\ clock = 1
    /\ draft = [time |-> 1, ccId |-> 0]
    /\ phase = "running"
    /\ calls = 0

\* Mutant: an entry without a topic is subscribed to as well.
NotEmpty_NotAsked(topic) == TRUE
NotEmpty(topic) == topic # ""
\* The topics of the first n entries that have one.
TopicsOf[n \in 0..Len(Subscriptions)] ==
    IF n = 0 THEN <<>>
    ELSE IF NotEmpty(Subscriptions[n]) THEN Append(TopicsOf[n - 1], Subscriptions[n])
    ELSE TopicsOf[n - 1]

CallsOf(op, topics) == [i \in DOMAIN topics |-> Call(op, topics[i])]

\* What the connect callback does, call by call.
Script == CallsOf("subscribe", TopicsOf[Len(Subscriptions)])
          \o CallsOf("publish", Publications)

Connected == Callback("connected", Script) /\ UNCHANGED <<clock, draft, phase, calls>>
ConnectionLost == Callback("lost", <<>>) /\ UNCHANGED <<clock, draft, phase, calls>>

\* generateBusinessData reads the clock once, for the text and for the code.
Stamp ==
    /\ At("paho", {"publish"}, "start")
    /\ draft' = [draft EXCEPT !.time = clock]
    /\ GoTo("paho", "stamped")
    /\ UNCHANGED <<m_client, m_connected, clobbered, netVars, callbacksSet, sent, clock, phase, calls>>

\* Mutant: the check code is made for the current time.
CodedTime_Now == clock
CodedTime == draft.time

Draft ==
    /\ At("paho", {"publish"}, "stamped")
    /\ draft' = [draft EXCEPT !.ccId = CheckCode[CodedTime]]
    /\ GoTo("paho", "drafted")
    /\ UNCHANGED <<m_client, m_connected, clobbered, netVars, callbacksSet, sent, clock, phase, calls>>

Send ==
    /\ LET t == Head(todo["paho"]).topic
       IN  Publish("paho", [topic |-> t, id |-> BusinessId(t), time |-> draft.time,
                            ccId |-> draft.ccId])
    /\ UNCHANGED <<clock, draft, phase, calls>>

Tick ==
    /\ clock < Len(Instants)
    /\ clock' = clock + 1
    /\ UNCHANGED <<mqttVars, draft, phase, calls>>

-----------------------------------------------------------------------------
AppCalls(seq) ==
    /\ todo["app"] = <<>>
    /\ todo' = [todo EXCEPT !["app"] = seq]
    /\ UNCHANGED <<m_client, m_connected, clobbered, netVars, callbacksSet, sent, pc, clock, draft>>

StartTask == <<Call("init", "-"), Call("setCallbacks", "-"), Call("connect", "-")>>

\* The task's init block, and again if the application wants another client.
AppStarts ==
    /\ phase = "running" /\ calls < MaxCalls
    /\ AppCalls(StartTask)
    /\ calls' = calls + 1 /\ UNCHANGED phase

AppCallsOne ==
    /\ phase = "running" /\ calls < MaxCalls
    /\ \E call \in {Call("connect", "-"), Call("disconnect", "-")}
                   \cup {Call(op, t) : op \in {"subscribe", "unsubscribe"}, t \in Topics} :
          AppCalls(<<call>>)
    /\ calls' = calls + 1 /\ UNCHANGED phase

\* The cleanup block, and then the destruction of the static client.
Cleanup ==
    /\ phase = "running"
    /\ phase' = "cleanup"
    /\ AppCalls(<<Call("disconnect", "-")>>)
    /\ UNCHANGED calls

ProcessEnds ==
    /\ phase = "cleanup"
    /\ phase' = "ended"
    /\ AppCalls(<<Call("destroy", "-")>>)
    /\ UNCHANGED calls

AppStep == CallerStep("app") /\ UNCHANGED <<clock, draft, phase, calls>>
PahoStep ==
    \/ CallerStep("paho") /\ UNCHANGED <<clock, draft, phase, calls>>
    \/ Stamp \/ Draft \/ Send
    \/ Connected \/ ConnectionLost
World == (ComesUp \/ AttemptFails \/ Drops \/ Closes) /\ UNCHANGED <<clock, draft, phase, calls>>
Answers == Answer /\ UNCHANGED <<clock, draft, phase, calls>>

Next ==
    \/ AppStarts \/ AppCallsOne \/ Cleanup \/ ProcessEnds \/ AppStep
    \/ PahoStep
    \/ World \/ Answers \/ Tick

\* Both threads go on, and the broker answers; nothing says that the network
\* comes up, that it stays up, or what the application wants.
Fairness ==
    WF_vars(AppStep) /\ WF_vars(PahoStep) /\ WF_vars(Answers)

Spec == Init /\ [][Next]_vars /\ Fairness

-----------------------------------------------------------------------------
\* Once the callbacks that are due have been made, a connection that is up is
\* known to be up (CPahoMqttClient.cpp:10, 20, 147, 165 store the flag on two
\* threads): subscribe and publish are not refused for ever.  The one exception
\* is a connect() that throws on a connection that is up already (line 147),
\* until the next callback.
FlagSettles == conn = "up" /\ events = <<>> /\ ~clobbered => m_connected

\* A published message carries the check code of its own time, digit for
\* digit what exact arithmetic gives, though the clock goes on between the
\* two (CBusinessDataUtil.h:136, 152).
CodeMatchesTime == \A msg \in sent : msg.ccId = TrueCode[msg.time]

\* Every connection that lasts ends with the configured topics asked for at
\* the broker, also after a reconnection, whose session is empty, and though
\* the callback waits for tokens that its own thread would have to complete
\* (CEventDispatcher.cpp:97 to 112, CPahoMqttClient.cpp:200), and
\* whichever client the callback belongs to.
Resubscribes ==
    \A t \in Topics : (conn = "up" /\ \E i \in DOMAIN Subscriptions : Subscriptions[i] = t)
                        ~> (conn # "up" \/ session[t] # "none" \/ clobbered)
=============================================================================
