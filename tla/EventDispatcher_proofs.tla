------------------------ MODULE EventDispatcher_proofs ------------------------
(***************************************************************************)
(* Proofs about the MQTT client and what the event dispatcher makes of it, *)
(* for any topics, subscriptions and publications, any number of           *)
(* connections and clients, and any clock.                                 *)
(***************************************************************************)
EXTENDS EventDispatcher, BusinessData_proofs

\* The calls that the connect callback makes.
ScriptCalls == [op : {"subscribe"}, topic : Topics] \cup [op : {"publish"}, topic : Topics \cup {""}]

\* A call of the application that is not its last is followed by the rest of
\* the task's init block.
AppPlan(plan) ==
    \A i \in 1..Len(plan) :
        /\ i < Len(plan) => plan[i].op \in {"init", "setCallbacks"}
        /\ i > 1 => plan[i].op \in {"setCallbacks", "connect"}

\* Where a caller can be in the first of its calls.
PlaceOf(c) ==
    /\ todo[c] = <<>> => pc[c] = "start"
    /\ todo[c] # <<>> =>
          LET op == Head(todo[c]).op
          IN  \/ pc[c] = "start"
              \/ pc[c] \in {"stamped", "drafted"} /\ op = "publish"
              \/ pc[c] = "request" /\ op \in Requests
              \/ pc[c] = "wait" /\ op \in {"init", "destroy", "disconnect", "subscribe", "unsubscribe"}
              \/ pc[c] \in {"delete", "assign"} /\ op \in {"init", "destroy"}

Plans ==
    /\ AppPlan(todo["app"])
    /\ todo["paho"] \in Seq(ScriptCalls)
    /\ \A c \in Callers : PlaceOf(c)

\* A draft that is complete carries the code of its time.
Drafted ==
    todo["paho"] # <<>> /\ Head(todo["paho"]).op = "publish" /\ pc["paho"] \in {"drafted", "request"}
        => draft.ccId = CheckCode[draft.time]
Coded == \A msg \in sent : msg.ccId = CheckCode[msg.time]

\* The last thing that has been or will be said about a connection that is up.
LastWord ==
    conn = "up" => IF events = <<>> THEN m_connected \/ clobbered
                   ELSE events[Len(events)] = "connected"

\* While the application waits for its connection to be closed there is none
\* any more, and a client that is being made is within the bound.
AskedFor ==
    todo["app"] # <<>> =>
        /\ Head(todo["app"]).op = "disconnect" /\ pc["app"] = "wait" => conn \in {"closing", "closed"}
        /\ Head(todo["app"]).op = "init" /\ pc["app"] # "start" => m_client < MaxClients

FlagInv == TypeOK /\ Plans /\ Drafted /\ Coded /\ LastWord /\ AskedFor

-----------------------------------------------------------------------------
(***************************************************************************)
(* Plans: a caller goes on with its call, or returns from it.              *)
(***************************************************************************)
LEMMA Tails ==
    ASSUME NEW S, NEW s \in Seq(S), s # <<>>
    PROVE  /\ Len(s) \in Nat /\ Len(s) > 0
           /\ Head(s) \in S /\ Head(s) = s[1]
           /\ Tail(s) \in Seq(S) /\ Len(Tail(s)) = Len(s) - 1
           /\ \A i \in 1..Len(Tail(s)) : Tail(s)[i] = s[i + 1]
<1>1. Len(s) \in Nat /\ Len(s) > 0
  BY EmptySeq
<1> QED BY <1>1, HeadTailProperties

Types ==
    /\ todo \in [Callers -> Seq(Calls)]
    /\ pc \in [Callers -> {"start", "stamped", "drafted", "request", "wait", "delete", "assign"}]

\* A caller returns from its first call, to the others or to none.
LEMMA ReturnKeepsPlans ==
    ASSUME Types, Plans, Drafted, NEW c \in Callers, todo[c] # <<>>,
           Return(c, Tail(todo[c])) \/ Return(c, <<>>)
    PROVE  /\ Types' /\ Plans' /\ (UNCHANGED draft => Drafted')
           /\ \A b \in Callers : b # c => todo'[b] = todo[b] /\ pc'[b] = pc[b]
           /\ pc'[c] = "start"
<1>1. PICK rest : /\ rest = <<>> \/ rest = Tail(todo[c])
                  /\ Return(c, rest)
  OBVIOUS
<1>2. /\ todo[c] \in Seq(Calls)
      /\ Len(todo[c]) \in Nat /\ Tail(todo[c]) \in Seq(Calls)
      /\ Len(Tail(todo[c])) = Len(todo[c]) - 1
      /\ \A i \in 1..Len(Tail(todo[c])) : Tail(todo[c])[i] = todo[c][i + 1]
  BY Tails DEF Types
<1>3. /\ todo'[c] = rest /\ pc'[c] = "start"
      /\ \A b \in Callers : b # c => todo'[b] = todo[b] /\ pc'[b] = pc[b]
      /\ DOMAIN todo' = Callers /\ DOMAIN pc' = Callers
      /\ todo' = [b \in Callers |-> todo'[b]] /\ pc' = [b \in Callers |-> pc'[b]]
  BY <1>1 DEF Return, Types
<1>4. rest \in Seq(Calls)
  BY <1>1, <1>2, EmptySeq
<1>5. Types'
  BY <1>3, <1>4 DEF Types
<1>6. \A b \in Callers : PlaceOf(b)'
  BY <1>3 DEF Plans, PlaceOf
<1>7. AppPlan(todo["app"])'
  <2>1. CASE c # "app"
    BY <1>3, <2>1 DEF Plans, AppPlan, Callers
  <2>2. CASE c = "app" /\ rest = <<>>
    BY <1>3, <2>2 DEF AppPlan
  <2>3. CASE c = "app" /\ rest = Tail(todo[c])
    <3> DEFINE s == todo["app"]
               t == todo'["app"]
    <3>1. /\ Len(s) \in Nat /\ Len(t) = Len(s) - 1
          /\ \A i \in 1..Len(t) : t[i] = s[i + 1]
      BY <1>2, <1>3, <2>3
    <3>2. \A i \in 1..Len(s) :
            /\ i < Len(s) => s[i].op \in {"init", "setCallbacks"}
            /\ i > 1 => s[i].op \in {"setCallbacks", "connect"}
      BY DEF Plans, AppPlan
    <3> HIDE DEF s, t
    <3>3. ASSUME NEW i \in 1..Len(t)
          PROVE  /\ i < Len(t) => t[i].op \in {"init", "setCallbacks"}
                 /\ i > 1 => t[i].op \in {"setCallbacks", "connect"}
      <4>1. PICK j \in 1..Len(s) : j = i + 1
        BY <3>1
      <4>2. t[i] = s[j] /\ j > 1 /\ (i < Len(t) => j < Len(s))
        BY <3>1, <4>1
      <4> QED BY <3>2, <4>2
    <3> QED BY <3>3 DEF AppPlan, t
  <2> QED BY <1>1, <2>1, <2>2, <2>3
<1>8. todo'["paho"] \in Seq(ScriptCalls)
  <2>1. CASE c # "paho"
    BY <1>3, <2>1 DEF Plans, Callers
  <2>2. CASE c = "paho"
    <3>1. Tail(todo[c]) \in Seq(ScriptCalls)
      BY <2>2, Tails DEF Plans
    <3> QED BY <1>1, <1>3, <2>2, <3>1, EmptySeq
  <2> QED BY <2>1, <2>2
<1>9. UNCHANGED draft => Drafted'
  BY <1>3 DEF Drafted, Callers
<1> QED BY <1>3, <1>5, <1>6, <1>7, <1>8, <1>9 DEF Plans

\* A caller goes on to another place in its first call.
LEMMA GoToKeepsPlans ==
    ASSUME Types, Plans, NEW c \in Callers, todo[c] # <<>>, NEW where,
           GoTo(c, where),
           LET op == Head(todo[c]).op
           IN  \/ where \in {"stamped", "drafted"} /\ op = "publish"
               \/ where = "request" /\ op \in Requests
               \/ where = "wait" /\ op \in {"init", "destroy", "disconnect", "subscribe", "unsubscribe"}
               \/ where \in {"delete", "assign"} /\ op \in {"init", "destroy"}
    PROVE  /\ Types' /\ Plans'
           /\ todo' = todo /\ \A b \in Callers : b # c => pc'[b] = pc[b]
           /\ pc'[c] = where
<1>1. /\ todo' = todo /\ pc'[c] = where
      /\ \A b \in Callers : b # c => pc'[b] = pc[b]
      /\ pc' = [b \in Callers |-> pc'[b]]
  BY DEF GoTo, Types
<1>2. Types'
  BY <1>1 DEF Types
<1>3. \A b \in Callers : PlaceOf(b)'
  BY <1>1 DEF Plans, PlaceOf
<1>4. AppPlan(todo["app"])'
  BY <1>1 DEF Plans, AppPlan
<1> QED BY <1>1, <1>2, <1>3, <1>4 DEF Plans

\* Where the rest of a plan is not empty the task's init block is under way.
LEMMA RestOfPlan ==
    ASSUME Types, Plans, todo["app"] # <<>>, Tail(todo["app"]) # <<>>
    PROVE  /\ Head(todo["app"]).op \in {"init", "setCallbacks"}
           /\ Head(Tail(todo["app"])).op \in {"setCallbacks", "connect"}
<1> DEFINE s == todo["app"]
           t == Tail(s)
<1>1. s \in Seq(Calls) /\ s # <<>>
  BY DEF Types, Callers
<1> HIDE DEF s
<1>2. /\ Len(s) \in Nat /\ Head(s) = s[1] /\ t \in Seq(Calls) /\ Len(t) = Len(s) - 1
      /\ \A i \in 1..Len(t) : t[i] = s[i + 1]
  BY <1>1, Tails
<1>3. t # <<>>
  BY DEF s
<1> HIDE DEF t
<1>4. Len(t) > 0 /\ Head(t) = t[1]
  BY <1>2, <1>3, Tails
<1>5. Head(t) = s[2] /\ 1 < Len(s) /\ 2 \in 1..Len(s)
  BY <1>2, <1>4
<1>6. s[1].op \in {"init", "setCallbacks"} /\ s[2].op \in {"setCallbacks", "connect"}
  BY <1>2, <1>5 DEF Plans, AppPlan, s
<1> QED BY <1>2, <1>5, <1>6 DEF s, t

-----------------------------------------------------------------------------
(***************************************************************************)
(* The script of the connect callback, by induction on the subscriptions.  *)
(***************************************************************************)
\* The topics, with one entry more: those without a topic are left out.
NextTopic(topics, topic) == IF NotEmpty(topic) THEN Append(topics, topic) ELSE topics
TopicsAre(k, g) == g = [n \in 0..k |-> IF n = 0 THEN <<>> ELSE NextTopic(g[n - 1], Subscriptions[n])]

LEMMA TopicsExist == \A k \in Nat : \E g : TopicsAre(k, g)
<1> DEFINE S == {k \in Nat : \E g : TopicsAre(k, g)}
<1>1. 0 \in S
  <2>1. TopicsAre(0, [n \in 0..0 |-> <<>>])
    BY DEF TopicsAre
  <2> QED BY <2>1
<1>2. ASSUME NEW k \in Nat, k \in S PROVE k + 1 \in S
  <2>1. PICK g : TopicsAre(k, g)
    BY <1>2
  <2> DEFINE h == [n \in 0..(k + 1) |-> IF n <= k THEN g[n] ELSE NextTopic(g[k], Subscriptions[k + 1])]
  <2>2. ASSUME NEW n \in 0..(k + 1)
        PROVE  h[n] = IF n = 0 THEN <<>> ELSE NextTopic(h[n - 1], Subscriptions[n])
    <3>1. CASE n = 0
      BY <2>1, <3>1 DEF TopicsAre
    <3>2. CASE n \in 1..k
      BY <2>1, <3>2 DEF TopicsAre
    <3>3. CASE n = k + 1
      BY <3>3
    <3> QED BY <3>1, <3>2, <3>3
  <2>3. TopicsAre(k + 1, h)
    BY <2>2 DEF TopicsAre
  <2> HIDE DEF h
  <2> QED BY <2>3
<1>3. Nat \subseteq S
  <2> HIDE DEF S
  <2> QED BY <1>1, <1>2, NatSet
<1> QED BY <1>3

LEMMA TopicsOfType == TopicsOf[Len(Subscriptions)] \in Seq(Topics)
<1>1. PICK L \in Nat : L = Len(Subscriptions)
  BY DispatcherAssumption, LenProperties
<1>2. \A n \in 1..L : Subscriptions[n] \in Topics \cup {""}
  BY <1>1, DispatcherAssumption, ElementOfSeq
<1>3. TopicsOf = CHOOSE g : TopicsAre(L, g)
  BY <1>1 DEF TopicsOf, TopicsAre, NextTopic
<1>4. PICK F : TopicsOf = F /\ TopicsAre(L, F)
  BY <1>3, TopicsExist
<1> DEFINE S == {n \in Nat : n <= L => F[n] \in Seq(Topics)}
<1>5. 0 \in S
  <2>1. F[0] = <<>>
    BY <1>4 DEF TopicsAre
  <2> QED BY <2>1, EmptySeq
<1>6. ASSUME NEW n \in Nat, n \in S PROVE n + 1 \in S
  <2>1. SUFFICES ASSUME n + 1 <= L PROVE F[n + 1] \in Seq(Topics)
    OBVIOUS
  <2>2. F[n] \in Seq(Topics)
    BY <1>6, <2>1
  <2> HIDE DEF S
  <2>3. n + 1 \in 1..L /\ n + 1 \in 0..L /\ n + 1 # 0 /\ (n + 1) - 1 = n
    BY <2>1
  <2>4. F[n + 1] = NextTopic(F[n], Subscriptions[n + 1])
    BY <1>4, <2>3 DEF TopicsAre
  <2>5. \A q \in Seq(Topics), t \in Topics : Append(q, t) \in Seq(Topics)
    BY AppendProperties
  <2>6. Subscriptions[n + 1] \in Topics \cup {""}
    BY <1>2, <2>3
  <2> QED BY <2>2, <2>4, <2>5, <2>6 DEF NextTopic, NotEmpty
<1>7. L \in S
  <2> HIDE DEF S
  <2> QED BY <1>5, <1>6, NatSet
<1> QED BY <1>1, <1>4, <1>7

LEMMA ScriptType == Script \in Seq(ScriptCalls)
<1>1. ASSUME NEW op \in {"subscribe", "publish"}, NEW T,
             op = "subscribe" => T = Topics, T \subseteq Topics \cup {""}, NEW topics \in Seq(T)
      PROVE  CallsOf(op, topics) \in Seq(ScriptCalls)
  <2>1. Len(topics) \in Nat /\ DOMAIN topics = 1..Len(topics)
    BY LenProperties
  <2>2. \A i \in 1..Len(topics) : Call(op, topics[i]) \in ScriptCalls
    <3>1. ASSUME NEW i \in 1..Len(topics) PROVE Call(op, topics[i]) \in ScriptCalls
      <4>1. topics[i] \in T
        BY <2>1, ElementOfSeq
      <4>2. CASE op = "subscribe"
        BY <1>1, <4>1, <4>2 DEF Call, ScriptCalls
      <4>3. CASE op = "publish"
        <5>1. Call(op, topics[i]) \in [op : {"publish"}, topic : Topics \cup {""}]
          BY <1>1, <4>1, <4>3 DEF Call
        <5> QED BY <5>1 DEF ScriptCalls
      <4> QED BY <4>2, <4>3
    <3> QED BY <3>1
  <2>3. CallsOf(op, topics) = [i \in 1..Len(topics) |-> Call(op, topics[i])]
    BY <2>1 DEF CallsOf
  <2>4. CallsOf(op, topics) \in [1..Len(topics) -> ScriptCalls]
    BY <2>2, <2>3
  <2> QED BY <2>1, <2>4, SeqDef
<1>2. CallsOf("subscribe", TopicsOf[Len(Subscriptions)]) \in Seq(ScriptCalls)
  BY <1>1, TopicsOfType
<1>3. CallsOf("publish", Publications) \in Seq(ScriptCalls)
  BY <1>1, DispatcherAssumption
<1> QED BY <1>2, <1>3, ConcatProperties DEF Script

-----------------------------------------------------------------------------
(***************************************************************************)
(* The steps of a call.                                                    *)
(***************************************************************************)
\* The types of what is neither a plan nor the dispatcher's own.
NetTypes ==
    /\ m_client \in 0..MaxClients
    /\ m_connected \in BOOLEAN
    /\ clobbered \in BOOLEAN
    /\ conn \in {"idle", "connecting", "up", "lost", "closing", "closed"}
    /\ events \in Seq({"connected", "lost"})
    /\ requests \in Seq(Calls)
    /\ session \in [Topics -> {"none", "granted", "refused", "dropped"}]
    /\ callbacksSet \in BOOLEAN
    /\ ups \in 0..MaxUps

OwnTypes ==
    /\ sent \subseteq Messages
    /\ clock \in DOMAIN Instants
    /\ draft \in [time : DOMAIN Instants, ccId : CheckCodes \cup {0}]
    /\ phase \in {"running", "cleanup", "ended"}
    /\ calls \in 0..MaxCalls

LEMMA TypesAre == TypeOK <=> NetTypes /\ Types /\ OwnTypes
BY DEF TypeOK, MqttTypeOK, NetTypes, Types, OwnTypes

\* On Paho's thread there are only requests.
LEMMA PahoCalls ==
    ASSUME Plans, todo["paho"] # <<>>
    PROVE  Head(todo["paho"]) \in ScriptCalls /\ Head(todo["paho"]).op \in {"subscribe", "publish"}
<1>1. Head(todo["paho"]) \in ScriptCalls
  BY Tails DEF Plans
<1> QED BY <1>1 DEF ScriptCalls

\* A step of a call that keeps the plans and leaves the dispatcher's own alone.
LEMMA CallFrame ==
    ASSUME FlagInv, Types', Plans', Drafted', NetTypes', LastWord', AskedFor',
           UNCHANGED <<sent, clock, draft, phase, calls>>
    PROVE  FlagInv'
<1>1. OwnTypes'
  BY TypesAre DEF FlagInv, OwnTypes
<1>2. TypeOK'
  BY <1>1 DEF TypeOK, MqttTypeOK, NetTypes, Types, OwnTypes
<1>3. Coded'
  BY DEF FlagInv, Coded
<1> QED BY <1>2, <1>3 DEF FlagInv

\* init, connect, disconnect and the destructor are calls of the application.
LEMMA OwnerKeepsFlag ==
    ASSUME FlagInv, NEW c \in Callers, UNCHANGED <<clock, draft, phase, calls>>,
           \/ DeleteStarts(c) \/ InitFails(c) \/ Delete(c) \/ Assign(c) \/ SetCallbacks(c)
           \/ Connect(c) \/ ConnectThrows(c) \/ Disconnect(c) \/ DisconnectRefused(c)
    PROVE  FlagInv'
<1>1. c = "app" /\ todo["app"] # <<>>
  <2>1. todo[c] # <<>> /\ Head(todo[c]).op \notin {"subscribe", "publish"}
    BY DEF DeleteStarts, InitFails, Delete, Assign, SetCallbacks, Connect, ConnectThrows, Disconnect,
           DisconnectRefused, At
  <2> QED BY <2>1, PahoCalls DEF FlagInv, Callers
<1> DEFINE op == Head(todo["app"]).op
           rest == Tail(todo["app"])
<1>2. NetTypes /\ Types /\ Plans /\ Drafted /\ LastWord /\ AskedFor
  BY TypesAre DEF FlagInv
<1>3. UNCHANGED sent
  BY DEF DeleteStarts, InitFails, Delete, Assign, SetCallbacks, Connect, ConnectThrows, Disconnect, DisconnectRefused
<1>4. op \notin {"init", "setCallbacks"} => rest = <<>>
  BY <1>1, <1>2, RestOfPlan
<1>5. rest # <<>> => Head(rest).op \in {"setCallbacks", "connect"}
  BY <1>1, <1>2, RestOfPlan
<1>6. ASSUME Return("app", rest) \/ Return("app", <<>>)
      PROVE  Types' /\ Plans' /\ Drafted' /\ pc'["app"] = "start"
  BY <1>1, <1>2, <1>6, ReturnKeepsPlans DEF Callers
<1>7. Return("app", rest) => todo'["app"] = rest
  BY <1>2 DEF Return, Types, Callers
<1>8. Return("app", <<>>) => todo'["app"] = <<>>
  BY <1>2 DEF Return, Types, Callers
<1>9. ASSUME NEW where, GoTo("app", where),
             \/ (where = "wait" /\ op \in {"init", "destroy", "disconnect"})
             \/ (where \in {"delete", "assign"} /\ op \in {"init", "destroy"})
      PROVE  Types' /\ Plans' /\ Drafted' /\ todo' = todo /\ pc'["app"] = where
  <2>1. Types' /\ Plans' /\ todo' = todo /\ pc'["app"] = where /\ pc'["paho"] = pc["paho"]
    BY <1>1, <1>2, <1>9, GoToKeepsPlans DEF Callers
  <2> QED BY <1>2, <2>1 DEF Drafted
<1>10. CASE DeleteStarts(c)
  <2>1. /\ At("app", {"init", "destroy"}, "start")
        /\ op = "init" => m_client < MaxClients
        /\ AskDisconnect \/ UNCHANGED netVars
        /\ \E where \in {"wait", "delete", "assign"} : GoTo("app", where)
        /\ UNCHANGED <<m_client, m_connected, clobbered, callbacksSet, sent>>
    BY <1>1, <1>10 DEF DeleteStarts
  <2>2. op \in {"init", "destroy"}
    BY <2>1 DEF At
  <2>3. Types' /\ Plans' /\ Drafted' /\ todo' = todo
    BY <1>9, <2>1, <2>2
  <2>4. NetTypes' /\ LastWord'
    BY <1>2, <2>1 DEF NetTypes, LastWord, AskDisconnect, netVars
  <2>5. AskedFor'
    BY <2>1, <2>2, <2>3 DEF AskedFor
  <2> QED BY <1>3, <2>3, <2>4, <2>5, CallFrame
<1>11. CASE InitFails(c)
  <2>1. Return("app", <<>>) /\ UNCHANGED <<m_client, m_connected, clobbered, netVars, callbacksSet, sent>>
    BY <1>1, <1>11 DEF InitFails
  <2>2. NetTypes' /\ LastWord'
    BY <1>2, <2>1 DEF NetTypes, LastWord, netVars
  <2>3. AskedFor'
    BY <1>8, <2>1 DEF AskedFor
  <2> QED BY <1>3, <1>6, <2>1, <2>2, <2>3, CallFrame
<1>12. CASE Delete(c)
  <2>1. /\ op \in {"init", "destroy"} /\ pc["app"] = "delete"
        /\ conn' = "idle" /\ events' = <<>> /\ requests' = <<>> /\ session' = Untouched
        /\ UNCHANGED <<m_client, m_connected, clobbered, ups, callbacksSet, sent>>
    BY <1>1, <1>12 DEF Delete, At
  <2>2. PICK where : where = "assign" /\ GoTo("app", where)
    BY <1>1, <1>12 DEF Delete
  <2>3. Types' /\ Plans' /\ Drafted' /\ todo' = todo
    BY <1>9, <2>1, <2>2
  <2>4. NetTypes' /\ LastWord'
    BY <1>2, <2>1, EmptySeq DEF NetTypes, LastWord, Untouched
  <2>5. AskedFor'
    BY <1>1, <1>2, <2>1, <2>3 DEF AskedFor
  <2> QED BY <1>3, <2>3, <2>4, <2>5, CallFrame
<1>18. CASE Assign(c)
  <2>1. /\ op \in {"init", "destroy"} /\ pc["app"] = "assign"
        /\ m_client' = IF op = "init" THEN m_client + 1 ELSE 0
        /\ Return("app", rest)
        /\ UNCHANGED <<m_connected, clobbered, netVars, callbacksSet, sent>>
    BY <1>1, <1>18 DEF Assign, At
  <2>2. m_client' \in 0..MaxClients
    <3>1. MaxClients \in Nat /\ m_client \in 0..MaxClients
      BY <1>2, MqttAssumption DEF NetTypes
    <3>2. op = "init" => m_client < MaxClients
      BY <1>1, <1>2, <2>1 DEF AskedFor
    <3> QED BY <2>1, <3>1, <3>2
  <2>3. NetTypes' /\ LastWord'
    BY <1>2, <2>1, <2>2 DEF NetTypes, LastWord, netVars
  <2>4. AskedFor'
    BY <1>5, <1>6, <1>7, <2>1 DEF AskedFor
  <2> QED BY <1>3, <1>6, <2>1, <2>3, <2>4, CallFrame
<1>13. CASE SetCallbacks(c)
  <2>1. /\ op = "setCallbacks" /\ callbacksSet' = TRUE
        /\ Return("app", rest) /\ UNCHANGED <<m_client, m_connected, clobbered, netVars, sent>>
    BY <1>1, <1>13 DEF SetCallbacks, At
  <2>2. NetTypes' /\ LastWord'
    BY <1>2, <2>1 DEF NetTypes, LastWord, netVars
  <2>4. AskedFor'
    BY <1>5, <1>6, <1>7, <2>1 DEF AskedFor
  <2> QED BY <1>3, <1>6, <2>1, <2>2, <2>4, CallFrame
<1>14. CASE Connect(c)
  <2>1. /\ op = "connect" /\ conn' = (IF m_client = 0 \/ conn = "up" THEN conn ELSE "connecting")
        /\ Return("app", rest)
        /\ UNCHANGED <<m_client, m_connected, clobbered, events, requests, session, ups, callbacksSet, sent>>
    BY <1>1, <1>14 DEF Connect, At
  <2>2. NetTypes' /\ LastWord'
    BY <1>2, <2>1 DEF NetTypes, LastWord
  <2>3. AskedFor'
    BY <1>4, <1>7, <2>1 DEF AskedFor
  <2> QED BY <1>3, <1>6, <2>1, <2>2, <2>3, CallFrame
<1>15. CASE ConnectThrows(c)
  <2>1. /\ op = "connect" /\ m_connected' = FALSE
        /\ clobbered' = (clobbered \/ conn = "up")
        /\ Return("app", rest) /\ UNCHANGED <<m_client, netVars, callbacksSet, sent>>
    BY <1>1, <1>15 DEF ConnectThrows, At
  <2>3. NetTypes' /\ LastWord'
    BY <1>2, <2>1 DEF NetTypes, LastWord, netVars
  <2>4. AskedFor'
    BY <1>4, <1>7, <2>1 DEF AskedFor
  <2> QED BY <1>3, <1>6, <2>1, <2>3, <2>4, CallFrame
<1>16. CASE Disconnect(c)
  <2>1. /\ op = "disconnect" /\ AskDisconnect
        /\ GoTo("app", "wait") /\ UNCHANGED <<m_client, m_connected, clobbered, callbacksSet, sent>>
    BY <1>1, <1>16 DEF Disconnect, At
  <2>2. NetTypes' /\ LastWord'
    BY <1>2, <2>1 DEF NetTypes, LastWord, AskDisconnect
  <2>3. Types' /\ Plans' /\ Drafted' /\ todo' = todo /\ pc'["app"] = "wait"
    <3>1. PICK where : where = "wait" /\ GoTo("app", where)
      BY <2>1
    <3>2. where = "wait" /\ op \in {"init", "destroy", "disconnect"}
      BY <2>1, <3>1
    <3>3. Types' /\ Plans' /\ Drafted' /\ todo' = todo /\ pc'["app"] = where
      BY <1>9, <3>1, <3>2
    <3> QED BY <3>1, <3>3
  <2>4. AskedFor'
    BY <2>1, <2>3 DEF AskedFor, AskDisconnect
  <2> QED BY <1>3, <2>2, <2>3, <2>4, CallFrame
<1>17. CASE DisconnectRefused(c)
  <2>1. /\ op = "disconnect"
        /\ Return("app", rest) /\ UNCHANGED <<m_client, m_connected, clobbered, netVars, callbacksSet, sent>>
    BY <1>1, <1>17 DEF DisconnectRefused, At
  <2>2. NetTypes' /\ LastWord'
    BY <1>2, <2>1 DEF NetTypes, LastWord, netVars
  <2>3. AskedFor'
    BY <1>4, <1>7, <2>1 DEF AskedFor
  <2> QED BY <1>3, <1>6, <2>1, <2>2, <2>3, CallFrame
<1> QED BY <1>10, <1>11, <1>12, <1>13, <1>14, <1>15, <1>16, <1>17, <1>18

\* What a return does to the application's questions, and a step of Paho's.
LEMMA ReturnKeepsAsked ==
    ASSUME Types, Plans, Drafted, AskedFor, NEW c \in Callers, todo[c] # <<>>,
           Return(c, Tail(todo[c])), conn' = conn, m_client' = m_client,
           Head(todo[c]).op \notin {"init", "setCallbacks"}
    PROVE  AskedFor'
<1>1. /\ todo'[c] = Tail(todo[c]) /\ pc'[c] = "start"
      /\ \A b \in Callers : b # c => todo'[b] = todo[b] /\ pc'[b] = pc[b]
  BY DEF Return, Types
<1>2. CASE c = "app"
  <2>1. todo'["app"] = <<>>
    BY <1>1, <1>2, RestOfPlan
  <2> QED BY <2>1 DEF AskedFor
<1>3. CASE c # "app"
  BY <1>1, <1>3 DEF AskedFor, Callers
<1> QED BY <1>2, <1>3

LEMMA RequestsKeepFlag ==
    ASSUME FlagInv, NEW c \in Callers, UNCHANGED <<clock, draft, phase, calls>>,
           Check(c) \/ RequestThrows(c) \/ Request(c) \/ WaitEnds(c) \/ WaitThrows(c)
    PROVE  FlagInv'
<1> DEFINE op == Head(todo[c]).op
           rest == Tail(todo[c])
<1>1. NetTypes /\ Types /\ Plans /\ Drafted /\ LastWord /\ AskedFor
  BY TypesAre DEF FlagInv
<1>2. todo[c] # <<>> /\ UNCHANGED sent
  BY DEF Check, Ready, RequestThrows, Request, WaitEnds, WaitThrows, AfterWait, At
<1>3. Head(todo[c]) \in Calls
  <2>1. todo[c] \in Seq(Calls)
    BY <1>1 DEF Types
  <2> QED BY <1>2, <2>1, Tails
<1>4. ASSUME Return(c, rest) PROVE Types' /\ Plans' /\ Drafted'
  BY <1>1, <1>2, <1>4, ReturnKeepsPlans
<1>5. ASSUME Return(c, rest), UNCHANGED <<conn, m_client>>, op \notin {"init", "setCallbacks"}
      PROVE  AskedFor'
  BY <1>1, <1>2, <1>5, ReturnKeepsAsked
<1>6. ASSUME Ready(c) \/ At(c, Requests, "request") PROVE op \in Requests
  BY <1>6 DEF Ready, At, Requests
<1>7. CASE Check(c)
  <2>1. /\ Ready(c)
        /\ Return(c, rest) \/ GoTo(c, "request")
        /\ UNCHANGED <<m_client, m_connected, clobbered, netVars, callbacksSet, sent>>
    BY <1>7 DEF Check
  <2>2. op \in Requests
    BY <1>6, <2>1
  <2>3. NetTypes' /\ LastWord'
    BY <1>1, <2>1 DEF NetTypes, LastWord, netVars
  <2>4. CASE Return(c, rest)
    <3>1. AskedFor'
      BY <1>5, <2>1, <2>2, <2>4 DEF Requests, netVars
    <3> QED BY <1>2, <1>4, <2>3, <2>4, <3>1, CallFrame
  <2>5. CASE GoTo(c, "request")
    <3>0. PICK where : where = "request" /\ GoTo(c, where)
      BY <2>5
    <3>1. /\ Types' /\ Plans' /\ todo' = todo /\ pc'[c] = "request"
          /\ \A b \in Callers : b # c => pc'[b] = pc[b]
      BY <1>1, <1>2, <2>2, <3>0, GoToKeepsPlans
    <3>2. op = "publish" => pc[c] = "drafted"
      BY <2>1 DEF Ready, At
    <3>3. Drafted'
      BY <1>1, <3>1, <3>2 DEF Drafted, Callers
    <3>4. AskedFor'
      BY <1>1, <2>1, <2>2, <3>1 DEF AskedFor, Callers, Requests, netVars
    <3> QED BY <1>2, <2>3, <3>1, <3>3, <3>4, CallFrame
  <2> QED BY <2>1, <2>4, <2>5
<1>8. CASE RequestThrows(c)
  <2>1. /\ At(c, Requests, "request") /\ Return(c, rest)
        /\ UNCHANGED <<m_client, m_connected, clobbered, netVars, callbacksSet, sent>>
    BY <1>8 DEF RequestThrows
  <2>2. NetTypes' /\ LastWord'
    BY <1>1, <2>1 DEF NetTypes, LastWord, netVars
  <2>3. AskedFor'
    BY <1>5, <1>6, <2>1 DEF Requests, netVars
  <2> QED BY <1>2, <1>4, <2>1, <2>2, <2>3, CallFrame
<1>9. CASE Request(c)
  <2>1. /\ op \in {"subscribe", "unsubscribe"} /\ GoTo(c, "wait")
        /\ requests' = Append(requests, Head(todo[c]))
        /\ UNCHANGED <<m_client, m_connected, clobbered, conn, events, session, ups, callbacksSet, sent>>
    BY <1>9 DEF Request, At
  <2>2. requests' \in Seq(Calls)
    BY <1>1, <1>3, <2>1, AppendProperties DEF NetTypes
  <2>3. NetTypes' /\ LastWord'
    BY <1>1, <2>1, <2>2 DEF NetTypes, LastWord
  <2>4. PICK where : where = "wait" /\ GoTo(c, where)
    BY <2>1
  <2>5. /\ Types' /\ Plans' /\ todo' = todo /\ pc'[c] = "wait"
        /\ \A b \in Callers : b # c => pc'[b] = pc[b]
    BY <1>1, <1>2, <2>1, <2>4, GoToKeepsPlans
  <2>6. Drafted' /\ AskedFor'
    BY <1>1, <2>1, <2>5 DEF Drafted, AskedFor, Callers
  <2> QED BY <1>2, <2>3, <2>5, <2>6, CallFrame
<1>10. CASE WaitEnds(c) \/ WaitThrows(c)
  <2>1. /\ pc[c] = "wait"
        /\ IF op \in {"init", "destroy"} THEN GoTo(c, "delete") ELSE Return(c, rest)
        /\ m_connected' = (m_connected /\ op # "disconnect") \/ m_connected' = m_connected
        /\ UNCHANGED <<m_client, clobbered, netVars, callbacksSet, sent>>
    BY <1>10 DEF WaitEnds, WaitThrows, AfterWait
  <2>2. op \in {"init", "destroy", "disconnect", "subscribe", "unsubscribe"}
    BY <1>1, <1>2, <2>1 DEF Plans, PlaceOf
  <2>3. NetTypes' /\ LastWord'
    <3>1. op = "disconnect" => conn \in {"closing", "closed"}
      <4>1. op = "disconnect" => c = "app"
        BY <1>1, <1>2, PahoCalls DEF Callers
      <4> QED BY <1>1, <1>2, <2>1, <4>1 DEF AskedFor
    <3>2. m_connected' \in BOOLEAN /\ (op # "disconnect" => m_connected' = m_connected)
      BY <1>1, <2>1 DEF NetTypes
    <3> QED BY <1>1, <2>1, <3>1, <3>2 DEF NetTypes, LastWord, netVars
  <2>4. CASE op \in {"init", "destroy"}
    <3>0. PICK where : where = "delete" /\ GoTo(c, where)
      BY <2>1, <2>4
    <3>1. /\ Types' /\ Plans' /\ todo' = todo /\ pc'[c] = "delete"
          /\ \A b \in Callers : b # c => pc'[b] = pc[b]
      BY <1>1, <1>2, <2>4, <3>0, GoToKeepsPlans
    <3>2. Drafted' /\ AskedFor'
      BY <1>1, <2>1, <2>4, <3>1 DEF Drafted, AskedFor, Callers, netVars
    <3> QED BY <1>2, <2>3, <3>1, <3>2, CallFrame
  <2>5. CASE op \notin {"init", "destroy"}
    <3>1. Return(c, rest)
      BY <2>1, <2>5
    <3>2. AskedFor'
      BY <1>5, <2>1, <2>2, <2>5, <3>1 DEF netVars
    <3> QED BY <1>2, <1>4, <2>3, <3>1, <3>2, CallFrame
  <2> QED BY <2>4, <2>5
<1> QED BY <1>7, <1>8, <1>9, <1>10

-----------------------------------------------------------------------------
(***************************************************************************)
(* A message that is stamped, drafted and sent.                            *)
(***************************************************************************)
LEMMA CodesAreCheckCodes ==
    ASSUME NEW i \in DOMAIN Instants
    PROVE  CheckCode[i] \in CheckCodes
BY DEF CheckCode, CheckCodes

LEMMA PublishingKeepsFlag ==
    ASSUME FlagInv, Stamp \/ Draft \/ Send
    PROVE  FlagInv'
<1> DEFINE call == Head(todo["paho"])
<1>1. /\ NetTypes /\ Types /\ OwnTypes /\ Plans /\ Drafted /\ Coded /\ LastWord /\ AskedFor
  BY TypesAre DEF FlagInv
<1>2. /\ todo["paho"] # <<>> /\ call.op = "publish"
      /\ UNCHANGED <<m_client, m_connected, clobbered, netVars, callbacksSet, clock, phase, calls>>
  BY DEF Stamp, Draft, Send, Publish, At
<1>3. call.topic \in Topics \cup {""}
  BY <1>1, <1>2, PahoCalls DEF ScriptCalls
<1>4. NetTypes' /\ LastWord'
  BY <1>1, <1>2 DEF NetTypes, LastWord, netVars
<1>5. draft.time \in DOMAIN Instants /\ draft.ccId \in CheckCodes \cup {0}
  BY <1>1 DEF OwnTypes
<1>6. ASSUME NEW where \in {"stamped", "drafted"}, GoTo("paho", where)
      PROVE  /\ Types' /\ Plans' /\ AskedFor' /\ todo' = todo /\ pc'["paho"] = where
  <2>1. /\ Types' /\ Plans' /\ todo' = todo /\ pc'["paho"] = where
        /\ \A b \in Callers : b # "paho" => pc'[b] = pc[b]
    BY <1>1, <1>2, <1>6, GoToKeepsPlans DEF Callers
  <2>2. AskedFor'
    BY <1>1, <1>2, <2>1 DEF AskedFor, Callers, netVars
  <2> QED BY <2>1, <2>2
<1>7. CASE Stamp
  <2>1. PICK where \in {"stamped", "drafted"} : where = "stamped" /\ GoTo("paho", where)
    BY <1>7 DEF Stamp
  <2>2. draft' = [draft EXCEPT !.time = clock] /\ UNCHANGED sent
    BY <1>7 DEF Stamp
  <2>3. Types' /\ Plans' /\ AskedFor' /\ pc'["paho"] = "stamped"
    BY <1>6, <2>1
  <2>4. Drafted'
    BY <2>3 DEF Drafted
  <2>5. OwnTypes'
    BY <1>1, <1>2, <2>2 DEF OwnTypes
  <2>6. Coded'
    BY <1>1, <2>2 DEF Coded
  <2> QED BY <1>4, <2>3, <2>4, <2>5, <2>6 DEF FlagInv, TypeOK, MqttTypeOK, NetTypes, Types, OwnTypes
<1>8. CASE Draft
  <2>1. PICK where \in {"stamped", "drafted"} : where = "drafted" /\ GoTo("paho", where)
    BY <1>8 DEF Draft
  <2>2. draft' = [draft EXCEPT !.ccId = CheckCode[draft.time]] /\ UNCHANGED sent
    BY <1>8 DEF Draft, CodedTime
  <2>3. Types' /\ Plans' /\ AskedFor' /\ pc'["paho"] = "drafted"
    BY <1>6, <2>1
  <2>4. draft'.time = draft.time /\ draft'.ccId = CheckCode[draft.time]
    BY <1>1, <2>2 DEF OwnTypes
  <2>5. Drafted'
    BY <2>4 DEF Drafted
  <2>6. CheckCode[draft.time] \in CheckCodes
    BY <1>5, CodesAreCheckCodes
  <2>7. OwnTypes'
    BY <1>1, <1>2, <2>2, <2>6 DEF OwnTypes
  <2>8. Coded'
    BY <1>1, <2>2 DEF Coded
  <2> QED BY <1>4, <2>3, <2>5, <2>7, <2>8 DEF FlagInv, TypeOK, MqttTypeOK, NetTypes, Types, OwnTypes
<1>9. CASE Send
  <2> DEFINE msg == [topic |-> call.topic, id |-> BusinessId(call.topic), time |-> draft.time,
                     ccId |-> draft.ccId]
  <2>1. /\ pc["paho"] = "request" /\ Return("paho", Tail(todo["paho"]))
        /\ sent' = sent \cup {msg} /\ UNCHANGED draft
    BY <1>9 DEF Send, Publish, At
  <2>2. Types' /\ Plans' /\ Drafted'
    BY <1>1, <1>2, <2>1, ReturnKeepsPlans DEF Callers
  <2>3. AskedFor'
    BY <1>1, <1>2, <2>1, ReturnKeepsAsked DEF Callers, netVars
  <2>4. draft.ccId = CheckCode[draft.time]
    BY <1>1, <1>2, <2>1 DEF Drafted
  <2>5. msg \in Messages
    BY <1>3, <1>5, <2>4, CodesAreCheckCodes DEF Messages
  <2>6. OwnTypes'
    BY <1>1, <1>2, <2>1, <2>5 DEF OwnTypes
  <2>7. Coded'
    BY <1>1, <2>1, <2>4 DEF Coded
  <2> QED BY <1>4, <2>2, <2>3, <2>6, <2>7 DEF FlagInv, TypeOK, MqttTypeOK, NetTypes, Types, OwnTypes
<1> QED BY <1>7, <1>8, <1>9

-----------------------------------------------------------------------------
(***************************************************************************)
(* The callbacks, the network, and what the application asks for.          *)
(***************************************************************************)
\* A callback takes the oldest event, and the flag says what it was.
LEMMA CallbackKeepsFlag ==
    ASSUME FlagInv, NEW event, NEW script \in Seq(ScriptCalls), Callback(event, script),
           UNCHANGED <<clock, draft, phase, calls>>
    PROVE  FlagInv'
<1>1. NetTypes /\ Types /\ OwnTypes /\ Plans /\ Drafted /\ Coded /\ LastWord /\ AskedFor
  BY TypesAre DEF FlagInv
<1>3. /\ todo["paho"] = <<>> /\ events # <<>> /\ Head(events) = event
      /\ events' = Tail(events) /\ m_connected' = (event = "connected") /\ clobbered' = FALSE
      /\ UNCHANGED <<m_client, conn, requests, session, ups, callbacksSet, sent, pc>>
  BY DEF Callback, FlagAfter
<1>4. PICK plan \in Seq(ScriptCalls) : todo' = [todo EXCEPT !["paho"] = plan]
  BY EmptySeq DEF Callback
<1>5. ScriptCalls \subseteq Calls
  BY DEF ScriptCalls, Calls
<1>6. plan \in Seq(Calls)
  BY <1>4, <1>5
<1>7. /\ todo'["paho"] = plan /\ todo'["app"] = todo["app"]
      /\ todo' \in [Callers -> Seq(Calls)]
  BY <1>1, <1>4, <1>6 DEF Types, Callers
<1>8. Types'
  BY <1>1, <1>3, <1>7 DEF Types
<1>9. pc'["paho"] = "start" /\ pc'["app"] = pc["app"]
  BY <1>1, <1>3 DEF Plans, PlaceOf, Callers
<1>10. Plans'
  <2>1. PlaceOf("app")'
    BY <1>1, <1>7, <1>9 DEF Plans, PlaceOf, Callers
  <2>2. PlaceOf("paho")'
    BY <1>9 DEF PlaceOf
  <2> QED BY <1>1, <1>7, <2>1, <2>2 DEF Plans, Callers, AppPlan
<1>11. Drafted'
  BY <1>9 DEF Drafted
<1>12. events \in Seq({"connected", "lost"})
  BY <1>1 DEF NetTypes
<1>13. /\ Len(events) \in Nat /\ Len(events) > 0 /\ Head(events) = events[1]
       /\ Tail(events) \in Seq({"connected", "lost"}) /\ Len(Tail(events)) = Len(events) - 1
       /\ \A i \in 1..Len(Tail(events)) : Tail(events)[i] = events[i + 1]
  BY <1>3, <1>12, Tails
<1>14. NetTypes'
  BY <1>1, <1>3, <1>13 DEF NetTypes
<1>15. LastWord'
  <2>1. SUFFICES ASSUME conn = "up"
                 PROVE  IF events' = <<>> THEN m_connected' \/ clobbered' ELSE events'[Len(events')] = "connected"
    BY <1>3 DEF LastWord
  <2>2. events[Len(events)] = "connected"
    BY <1>1, <1>3, <2>1 DEF LastWord
  <2>3. CASE Tail(events) = <<>>
    <3>1. Len(events) = 1
      <4>1. \A q \in Seq({"connected", "lost"}) : q = <<>> => Len(q) = 0
        BY EmptySeq
      <4>2. Len(Tail(events)) = 0
        BY <1>13, <2>3, <4>1, Zenon
      <4>3. Len(events) \in Nat /\ Len(events) - 1 = 0
        <5>1. \A m : Len(Tail(events)) = m /\ Len(Tail(events)) = 0 => m = 0
          OBVIOUS
        <5>2. Len(Tail(events)) = Len(events) - 1 /\ Len(events) \in Nat
          BY <1>13, Zenon
        <5> QED BY <4>2, <5>1, <5>2, Zenon
      <4> QED BY <4>3
    <3> QED BY <1>3, <1>13, <2>2, <2>3, <3>1
  <2>4. CASE Tail(events) # <<>>
    <3>1. Len(Tail(events)) > 0
      BY <1>13, <2>4, EmptySeq
    <3>2. PICK n : n = Len(Tail(events)) /\ n \in 1..Len(Tail(events)) /\ n + 1 = Len(events)
      BY <1>13, <3>1
    <3>3. Tail(events)[n] = events[n + 1]
      BY <1>13, <3>2
    <3> QED BY <1>3, <2>2, <2>4, <3>2, <3>3
  <2> QED BY <2>3, <2>4
<1>16. AskedFor'
  BY <1>1, <1>3, <1>7, <1>9 DEF AskedFor
<1>17. OwnTypes'
  BY <1>1, <1>3 DEF OwnTypes
<1>18. Coded'
  BY <1>1, <1>3 DEF Coded
<1> QED BY <1>8, <1>10, <1>11, <1>14, <1>15, <1>16, <1>17, <1>18
        DEF FlagInv, TypeOK, MqttTypeOK, NetTypes, Types, OwnTypes

\* A step of the network is followed by the event that tells of it.
LEMMA WorldKeepsFlag ==
    ASSUME FlagInv, World \/ Answers
    PROVE  FlagInv'
<1>1. NetTypes /\ Types /\ Plans /\ Drafted /\ LastWord /\ AskedFor
  BY TypesAre DEF FlagInv
<1>2. UNCHANGED <<m_client, m_connected, clobbered, callbacksSet, sent, todo, pc, clock, draft, phase, calls>>
  BY DEF World, Answers, Answer, ComesUp, AttemptFails, Drops, Closes, Network
<1>3. Types' /\ Plans' /\ Drafted'
  BY <1>1, <1>2 DEF Types, Plans, PlaceOf, AppPlan, Drafted
<1>4. CASE Answers
  <2>1. /\ requests # <<>> /\ requests' = Tail(requests)
        /\ \E a \in {"granted", "refused", "dropped"} :
              session' = [session EXCEPT ![Head(requests).topic] = a]
        /\ UNCHANGED <<conn, events, ups>>
    BY <1>4 DEF Answers, Answer
  <2>2. requests' \in Seq(Calls)
    BY <1>1, <2>1, Tails DEF NetTypes
  <2>3. session' \in [Topics -> {"none", "granted", "refused", "dropped"}]
    BY <1>1, <2>1 DEF NetTypes
  <2>4. NetTypes' /\ LastWord' /\ AskedFor'
    BY <1>1, <1>2, <2>1, <2>2, <2>3 DEF NetTypes, LastWord, AskedFor
  <2> QED BY <1>2, <1>3, <2>4, CallFrame
<1>5. CASE World
  <2>1. PICK to, event :
           /\ \/ conn \in {"connecting", "lost"} /\ ups < MaxUps /\ ups' = ups + 1
                 /\ to = "up" /\ event = <<"connected">>
              \/ conn = "connecting" /\ to = "idle" /\ event = <<>> /\ UNCHANGED ups
              \/ conn = "up" /\ to = "lost" /\ event = <<"lost">> /\ UNCHANGED ups
              \/ conn = "closing" /\ to = "closed" /\ event = <<>> /\ UNCHANGED ups
           /\ conn' = to /\ events' = events \o event
           /\ requests' = <<>> /\ session' = Untouched
    <3>1. ComesUp \/ AttemptFails \/ Drops \/ Closes
      BY <1>5 DEF World
    <3> QED BY <3>1 DEF ComesUp, AttemptFails, Drops, Closes, Network
  <2>2. event \in Seq({"connected", "lost"})
    <3>1. \A e \in {"connected", "lost"} : <<e>> \in Seq({"connected", "lost"})
      OBVIOUS
    <3>2. event = <<>> \/ \E e \in {"connected", "lost"} : event = <<e>>
      BY <2>1
    <3> QED BY <3>1, <3>2, EmptySeq
  <2>3. events \in Seq({"connected", "lost"}) /\ Len(events) \in Nat
    BY <1>1 DEF NetTypes
  <2>4. events' \in Seq({"connected", "lost"})
    BY <2>1, <2>2, <2>3
  <2>5. ups' \in 0..MaxUps
    <3>1. ups \in 0..MaxUps /\ MaxUps \in Nat
      BY <1>1, MqttAssumption DEF NetTypes
    <3>2. ups' = ups \/ (ups' = ups + 1 /\ ups < MaxUps)
      BY <2>1
    <3> QED BY <3>1, <3>2
  <2>6. NetTypes'
    BY <1>1, <1>2, <2>1, <2>4, <2>5, EmptySeq DEF NetTypes, Untouched
  <2>7. LastWord'
    <3>1. CASE to = "up"
      <4>1. event = <<"connected">>
        BY <2>1, <3>1
      <4>2. Len(events') = Len(events) + 1 /\ events'[Len(events) + 1] = "connected"
        BY <2>1, <2>3, <4>1
      <4>3. events' # <<>>
        BY <2>3, <4>2
      <4> QED BY <4>2, <4>3 DEF LastWord
    <3>2. CASE to # "up"
      BY <2>1, <3>2 DEF LastWord
    <3> QED BY <3>1, <3>2
  <2>8. AskedFor'
    BY <1>1, <1>2, <2>1 DEF AskedFor
  <2> QED BY <1>2, <1>3, <2>6, <2>7, <2>8, CallFrame
<1> QED BY <1>4, <1>5

\* What the application asks for with a plan of its own.
PlansAre(plan) ==
    /\ plan \in Seq(Calls) /\ plan # <<>> /\ AppPlan(plan)

LEMMA KindsOfCalls ==
    /\ \A call \in [op : {"init", "setCallbacks", "connect", "disconnect", "destroy"}, topic : {"-"}] :
          call \in Calls
    /\ \A call \in [op : {"subscribe", "unsubscribe"}, topic : Topics] : call \in Calls
<1> DEFINE A == [op : {"init", "setCallbacks", "connect", "disconnect", "destroy"}, topic : {"-"}]
           B == [op : {"subscribe", "unsubscribe"}, topic : Topics]
           C == [op : {"publish"}, topic : Topics \cup {""}]
<1>1. Calls = A \cup B \cup C
  BY DEF Calls
<1> HIDE DEF A, B, C
<1>2. (\A call \in A : call \in Calls) /\ \A call \in B : call \in Calls
  BY <1>1
<1> QED BY <1>2 DEF A, B

LEMMA PlansOfTheApplication ==
    ASSUME NEW call \in {Call("init", "-"), Call("connect", "-"), Call("disconnect", "-"),
                         Call("destroy", "-")}
                        \cup {Call(op, t) : op \in {"subscribe", "unsubscribe"}, t \in Topics}
    PROVE  PlansAre(<<call>>)
<1>1. call \in Calls
  <2>1. CASE call \in {Call("init", "-"), Call("connect", "-"), Call("disconnect", "-"), Call("destroy", "-")}
    <3>1. PICK op \in {"init", "connect", "disconnect", "destroy"} : call = Call(op, "-")
      BY <2>1
    <3>2. call \in [op : {"init", "setCallbacks", "connect", "disconnect", "destroy"}, topic : {"-"}]
      BY <3>1 DEF Call
    <3> QED BY <3>2, KindsOfCalls
  <2>2. CASE \E op \in {"subscribe", "unsubscribe"}, t \in Topics : call = Call(op, t)
    <3>1. PICK op \in {"subscribe", "unsubscribe"}, t \in Topics : call = Call(op, t)
      BY <2>2
    <3>2. call \in [op : {"subscribe", "unsubscribe"}, topic : Topics]
      BY <3>1 DEF Call
    <3> QED BY <3>2, KindsOfCalls
  <2> QED BY <2>1, <2>2
<1> QED BY <1>1 DEF AppPlan, PlansAre

LEMMA PlanOfTheTask ==
    /\ StartTask \in Seq(Calls) /\ StartTask # <<>> /\ Head(StartTask).op = "init"
    /\ AppPlan(StartTask)
<1> DEFINE a == Call("init", "-")
           b == Call("setCallbacks", "-")
           d == Call("connect", "-")
<1>1. /\ a \in Calls /\ b \in Calls /\ d \in Calls
      /\ a.op = "init" /\ b.op = "setCallbacks" /\ d.op = "connect"
  BY DEF Call, Calls
<1>2. StartTask = <<a, b, d>>
  BY DEF StartTask
<1> HIDE DEF a, b, d
<1>3. /\ Len(<<a, b, d>>) = 3 /\ <<a, b, d>>[1] = a /\ <<a, b, d>>[2] = b /\ <<a, b, d>>[3] = d
      /\ <<a, b, d>> \in Seq(Calls) /\ Head(<<a, b, d>>) = a /\ <<a, b, d>> # <<>>
  BY <1>1
<1> QED BY <1>1, <1>2, <1>3 DEF AppPlan

\* The application makes a plan when it has none.
LEMMA AppKeepsFlag ==
    ASSUME FlagInv, AppStarts \/ AppCallsOne \/ Cleanup \/ ProcessEnds
    PROVE  FlagInv'
<1>1. NetTypes /\ Types /\ OwnTypes /\ Plans /\ Drafted /\ Coded /\ LastWord /\ AskedFor
  BY TypesAre DEF FlagInv
<1>2. PICK plan :
         /\ AppCalls(plan)
         /\ PlansAre(plan)
  <2>1. CASE AppStarts
    <3>1. AppCalls(StartTask) /\ PlansAre(StartTask)
      BY <2>1, PlanOfTheTask DEF AppStarts, PlansAre
    <3> QED BY <3>1, Zenon
  <2>2. CASE AppCallsOne
    <3>1. PICK call \in {Call("connect", "-"), Call("disconnect", "-")}
                        \cup {Call(op, t) : op \in {"subscribe", "unsubscribe"}, t \in Topics} :
             AppCalls(<<call>>)
      BY <2>2 DEF AppCallsOne
    <3>2. PlansAre(<<call>>)
      BY <3>1, PlansOfTheApplication
    <3>3. AppCalls(<<call>>) /\ PlansAre(<<call>>)
      BY <3>1, <3>2
    <3> WITNESS <<call>>
    <3> QED BY <3>3
  <2>3. CASE Cleanup
    <3>1. PICK call : call = Call("disconnect", "-") /\ AppCalls(<<call>>)
      BY <2>3 DEF Cleanup
    <3>3. PlansAre(<<call>>)
      BY <3>1, PlansOfTheApplication
    <3> QED BY <3>1, <3>3, Zenon
  <2>4. CASE ProcessEnds
    <3>1. PICK call : call = Call("destroy", "-") /\ AppCalls(<<call>>)
      BY <2>4 DEF ProcessEnds
    <3>3. PlansAre(<<call>>)
      BY <3>1, PlansOfTheApplication
    <3> QED BY <3>1, <3>3, Zenon
  <2> QED BY <2>1, <2>2, <2>3, <2>4
<1>3. /\ todo["app"] = <<>> /\ todo' = [todo EXCEPT !["app"] = plan]
      /\ UNCHANGED <<m_client, m_connected, clobbered, netVars, callbacksSet, sent, pc, clock, draft>>
  BY <1>2 DEF AppCalls
<1>4. /\ todo'["app"] = plan /\ todo'["paho"] = todo["paho"]
      /\ todo' \in [Callers -> Seq(Calls)]
  BY <1>1, <1>2, <1>3 DEF Types, Callers, PlansAre
<1>5. Types'
  BY <1>1, <1>3, <1>4 DEF Types
<1>6. pc'["app"] = "start" /\ pc'["paho"] = pc["paho"]
  BY <1>1, <1>3 DEF Plans, PlaceOf, Callers
<1>7. Plans'
  <2>1. PlaceOf("app")'
    BY <1>6 DEF PlaceOf
  <2>2. PlaceOf("paho")'
    BY <1>1, <1>4, <1>6 DEF Plans, PlaceOf, Callers
  <2>3. AppPlan(todo["app"])'
    BY <1>2, <1>4 DEF AppPlan, PlansAre
  <2> QED BY <1>1, <1>4, <2>1, <2>2, <2>3 DEF Plans, Callers
<1>8. Drafted' /\ Coded' /\ LastWord' /\ NetTypes'
  BY <1>1, <1>3, <1>4 DEF Drafted, Coded, LastWord, NetTypes, netVars
<1>9. AskedFor'
  BY <1>2, <1>3, <1>4, <1>6 DEF AskedFor, PlansAre, netVars
<1>10. calls' \in 0..MaxCalls /\ phase' \in {"running", "cleanup", "ended"}
  <2>1. calls \in 0..MaxCalls /\ MaxCalls \in Nat /\ phase \in {"running", "cleanup", "ended"}
    BY <1>1, DispatcherAssumption DEF OwnTypes
  <2>2. /\ calls' = calls \/ (calls' = calls + 1 /\ calls < MaxCalls)
        /\ phase' = phase \/ phase' = "cleanup" \/ phase' = "ended"
    BY DEF AppStarts, AppCallsOne, Cleanup, ProcessEnds
  <2> QED BY <2>1, <2>2
<1>11. OwnTypes'
  BY <1>1, <1>3, <1>10 DEF OwnTypes
<1> QED BY <1>5, <1>7, <1>8, <1>9, <1>11 DEF FlagInv, TypeOK, MqttTypeOK, NetTypes, Types, OwnTypes

-----------------------------------------------------------------------------
(***************************************************************************)
(* The invariant of every run, and what it says about the properties.      *)
(***************************************************************************)
LEMMA FlagInvInit == Init => FlagInv
<1> SUFFICES ASSUME Init PROVE FlagInv
  OBVIOUS
<1>1. /\ m_client = 0 /\ m_connected = FALSE /\ clobbered = FALSE /\ conn = "idle" /\ events = <<>> /\ requests = <<>>
      /\ session = [t \in Topics |-> "none"] /\ ups = 0 /\ callbacksSet = FALSE /\ sent = {}
      /\ todo = [c \in Callers |-> <<>>] /\ pc = [c \in Callers |-> "start"]
      /\ clock = 1 /\ draft = [time |-> 1, ccId |-> 0] /\ phase = "running" /\ calls = 0
  BY DEF Init, MqttInit, Untouched
<1>2. NetTypes
  <2>0. \A n \in Nat : 0 \in 0..n
    OBVIOUS
  <2>1. 0 \in 0..MaxClients /\ 0 \in 0..MaxUps
    BY <2>0, MqttAssumption, Zenon
  <2>2. <<>> \in Seq(Calls) /\ <<>> \in Seq({"connected", "lost"})
    BY EmptySeq
  <2>3. [t \in Topics |-> "none"] \in [Topics -> {"none", "granted", "refused", "dropped"}]
    OBVIOUS
  <2> QED BY <1>1, <2>1, <2>2, <2>3 DEF NetTypes
<1>3. Types
  BY <1>1, EmptySeq DEF Types
<1>4. 1 \in DOMAIN Instants
  <2>1. \A n \in Nat \ {0} : 1 \in 1..n
    OBVIOUS
  <2> QED BY <2>1, DispatcherAssumption, Zenon
<1>5. OwnTypes
  <2>0. \A n \in Nat : 0 \in 0..n
    OBVIOUS
  <2>1. 0 \in 0..MaxCalls
    BY <2>0, DispatcherAssumption, Zenon
  <2> QED BY <1>1, <1>4, <2>1 DEF OwnTypes
<1>6. Plans
  <2>1. todo["app"] = <<>> /\ todo["paho"] = <<>> /\ \A c \in Callers : todo[c] = <<>> /\ pc[c] = "start"
    BY <1>1 DEF Callers
  <2>2. AppPlan(<<>>)
    BY DEF AppPlan
  <2> QED BY <2>1, <2>2, EmptySeq DEF Plans, PlaceOf
<1>7. Drafted /\ Coded /\ LastWord /\ AskedFor
  BY <1>1 DEF Drafted, Coded, LastWord, AskedFor, Callers
<1> QED BY <1>2, <1>3, <1>5, <1>6, <1>7, TypesAre DEF FlagInv

LEMMA FlagInvNext == FlagInv /\ [Next]_vars => FlagInv'
<1> SUFFICES ASSUME FlagInv, [Next]_vars PROVE FlagInv'
  OBVIOUS
<1>1. CASE AppStarts \/ AppCallsOne \/ Cleanup \/ ProcessEnds
  BY <1>1, AppKeepsFlag
<1>2. ASSUME NEW c \in Callers, CallerStep(c), UNCHANGED <<clock, draft, phase, calls>> PROVE FlagInv'
  BY <1>2, OwnerKeepsFlag, RequestsKeepFlag DEF CallerStep
<1>3. CASE AppStep
  BY <1>2, <1>3 DEF AppStep, Callers
<1>4. CASE PahoStep
  <2>1. CASE CallerStep("paho") /\ UNCHANGED <<clock, draft, phase, calls>>
    BY <1>2, <2>1 DEF Callers
  <2>2. CASE Stamp \/ Draft \/ Send
    BY <2>2, PublishingKeepsFlag
  <2>3. CASE Connected
    <3>1. PICK event : event = "connected" /\ Callback(event, Script)
      BY <2>3 DEF Connected
    <3> QED BY <2>3, <3>1, ScriptType, CallbackKeepsFlag DEF Connected
  <2>4. CASE ConnectionLost
    <3>1. PICK event : event = "lost" /\ Callback(event, <<>>)
      BY <2>4 DEF ConnectionLost
    <3>2. <<>> \in Seq(ScriptCalls)
      BY EmptySeq
    <3> QED BY <2>4, <3>1, <3>2, CallbackKeepsFlag DEF ConnectionLost
  <2> QED BY <1>4, <2>1, <2>2, <2>3, <2>4 DEF PahoStep
<1>5. CASE World \/ Answers
  BY <1>5, WorldKeepsFlag
<1>6. CASE Tick
  <2>1. /\ clock < Len(Instants) /\ clock' = clock + 1
        /\ UNCHANGED <<m_client, m_connected, clobbered, conn, events, requests, session, ups, callbacksSet, sent,
                       todo, pc, draft, phase, calls>>
    BY <1>6 DEF Tick, mqttVars, netVars
  <2>2. clock' \in DOMAIN Instants
    <3>1. PICK n : n = Len(Instants) /\ n \in Nat /\ DOMAIN Instants = 1..n
      BY DispatcherAssumption, Zenon
    <3>2. clock \in 1..n /\ clock < n
      BY <2>1, <3>1, Zenon DEF FlagInv, TypeOK
    <3> QED BY <2>1, <3>1, <3>2
  <2>3. TypeOK'
    BY <2>1, <2>2 DEF FlagInv, TypeOK, MqttTypeOK
  <2> QED BY <2>1, <2>3 DEF FlagInv, Plans, PlaceOf, AppPlan, Drafted, Coded, LastWord, AskedFor
<1>7. CASE UNCHANGED vars
  BY <1>7 DEF FlagInv, TypeOK, MqttTypeOK, Plans, PlaceOf, AppPlan, Drafted, Coded, LastWord, AskedFor,
              vars, mqttVars, netVars
<1> QED BY <1>1, <1>3, <1>4, <1>5, <1>6, <1>7 DEF Next

LEMMA FlagInvAlways == Spec => []FlagInv
BY FlagInvInit, FlagInvNext, PTL DEF Spec

\* The client's state is of its type whatever the application asks for, and
\* whatever the network does (CPahoMqttClient.h, CEventDispatcher.cpp).
THEOREM TypeCorrect == Spec => []TypeOK
<1>1. FlagInv => TypeOK
  BY DEF FlagInv
<1> QED BY <1>1, FlagInvAlways, PTL

\* The flag that two threads store says TRUE of a connection that is up as
\* soon as no callback is due (CPahoMqttClient.cpp:10, 20, 147, 165).
THEOREM FlagIsRight == Spec => []FlagSettles
<1>1. FlagInv => FlagSettles
  BY DEF FlagInv, LastWord, FlagSettles
<1> QED BY <1>1, FlagInvAlways, PTL

\* A message carries the code of its own time, digit for digit what exact
\* arithmetic gives, however the clock goes on between the text and the code,
\* for every width of the code and every time (CBusinessDataUtil.h:94 to 121,
\* 136, 152).
THEOREM CodesMatchTimes == Spec => []CodeMatchesTime
<1>1. ASSUME NEW i \in DOMAIN Instants PROVE CheckCode[i] = TrueCode[i]
  <2>1. IsText(TimeString(Instants[i]), 19)
    BY TimeText19, DispatcherAssumption
  <2>2. IsText(TimeText[i], 19)
    BY <2>1 DEF TimeText
  <2>3. Bytes(XorResult(TimeText[i]), 14)
    BY <2>2, FourteenBytes
  <2>4. CcId(TimeText[i]) = ExactCode(TimeText[i])
    BY <2>3, CodeIsExact
  <2> QED BY <2>4 DEF CheckCode, TrueCode
<1>2. FlagInv => CodeMatchesTime
  BY <1>1 DEF FlagInv, TypeOK, Messages, Coded, CodeMatchesTime
<1> QED BY <1>2, FlagInvAlways, PTL
=============================================================================
