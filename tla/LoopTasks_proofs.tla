--------------------------- MODULE LoopTasks_proofs ---------------------------
(***************************************************************************)
(* What the steps of LoopTasks do to the queues of closures: lemmas for    *)
(* the proofs about the TCP modules.                                       *)
(***************************************************************************)
EXTENDS LoopTasks, Naturals, TLAPS

Queues(T) == backlog \in [Callers -> Seq(T)]

\* The elements of a sequence.
Elements(q) == {q[i] : i \in DOMAIN q}

\* What a concatenation consists of.
LEMMA ConcatParts ==
    ASSUME NEW T, NEW p \in Seq(T), NEW q \in Seq(T)
    PROVE  /\ p \o q \in Seq(T)
           /\ DOMAIN (p \o q) = 1..(Len(p) + Len(q))
           /\ DOMAIN p = 1..Len(p) /\ DOMAIN q = 1..Len(q) /\ Len(p) \in Nat /\ Len(q) \in Nat
           /\ \A i \in DOMAIN p : (p \o q)[i] = p[i] /\ i \in DOMAIN (p \o q)
           /\ \A i \in DOMAIN q : (p \o q)[Len(p) + i] = q[i] /\ Len(p) + i \in DOMAIN (p \o q)
           /\ \A i \in DOMAIN (p \o q) :
                \/ i \in DOMAIN p /\ (p \o q)[i] = p[i]
                \/ i - Len(p) \in DOMAIN q /\ (p \o q)[i] = q[i - Len(p)] /\ i > Len(p)
OBVIOUS

\* What a tail consists of.
LEMMA TailParts ==
    ASSUME NEW T, NEW q \in Seq(T), q # <<>>
    PROVE  /\ Tail(q) \in Seq(T) /\ Head(q) = q[1] /\ 1 \in DOMAIN q /\ Head(q) \in T
           /\ DOMAIN q \subseteq Nat /\ DOMAIN Tail(q) \subseteq Nat
           /\ \A i \in DOMAIN Tail(q) : Tail(q)[i] = q[i + 1] /\ i + 1 \in DOMAIN q
           /\ \A i \in DOMAIN q : i # 1 => i - 1 \in DOMAIN Tail(q) /\ q[i] = Tail(q)[i - 1]
OBVIOUS

LEMMA ConcatElements ==
    ASSUME NEW T, NEW p \in Seq(T), NEW q \in Seq(T)
    PROVE  Elements(p \o q) = Elements(p) \cup Elements(q)
<1>1. ASSUME NEW x \in Elements(p \o q) PROVE x \in Elements(p) \cup Elements(q)
    BY ConcatParts DEF Elements
<1>2. ASSUME NEW x \in Elements(p) PROVE x \in Elements(p \o q)
    BY ConcatParts DEF Elements
<1>3. ASSUME NEW x \in Elements(q) PROVE x \in Elements(p \o q)
  <2>1. PICK i \in DOMAIN q : x = q[i]
    BY DEF Elements
  <2>2. x = (p \o q)[Len(p) + i] /\ Len(p) + i \in DOMAIN (p \o q)
    BY <2>1, ConcatParts
  <2>3. QED BY <2>2 DEF Elements
<1>4. QED BY <1>1, <1>2, <1>3

LEMMA TailElements ==
    ASSUME NEW T, NEW q \in Seq(T), q # <<>>
    PROVE  Elements(q) = {Head(q)} \cup Elements(Tail(q))
<1>1. ASSUME NEW x \in Elements(q), x # Head(q) PROVE x \in Elements(Tail(q))
  <2>1. PICK i \in DOMAIN q : x = q[i]
    BY DEF Elements
  <2>2. i # 1
    BY <1>1, <2>1, TailParts
  <2>3. i - 1 \in DOMAIN Tail(q) /\ x = Tail(q)[i - 1]
    BY <2>1, <2>2, TailParts
  <2>4. QED BY <2>3 DEF Elements
<1>2. ASSUME NEW x \in Elements(Tail(q)) PROVE x \in Elements(q)
  <2>1. PICK i \in DOMAIN Tail(q) : x = Tail(q)[i]
    BY DEF Elements
  <2>2. i + 1 \in DOMAIN q /\ x = q[i + 1]
    BY <2>1, TailParts
  <2>3. QED BY <2>2 DEF Elements
<1>3. Head(q) \in Elements(q)
    BY TailParts DEF Elements
<1>4. QED BY <1>1, <1>2, <1>3

(***************************************************************************)
(* The closures that are queued, after some are posted and after one runs. *)
(***************************************************************************)
LEMMA BothQueues == QueuedTasks = Elements(backlog["app"]) \cup Elements(backlog["loop"])
BY DEF QueuedTasks, Elements, Callers

LEMMA PostQueues ==
    ASSUME NEW T, Queues(T), NEW c \in Callers, NEW tasks \in Seq(T), backlog' = Posted(c, tasks)
    PROVE  /\ Queues(T)'
           /\ QueuedTasks' = QueuedTasks \cup Elements(tasks)
<1>1. /\ backlog' \in [Callers -> Seq(T)]
      /\ backlog'[c] = backlog[c] \o tasks
      /\ \A d \in Callers : d # c => backlog'[d] = backlog[d]
    BY DEF Queues, Posted
<1>2. Elements(backlog[c] \o tasks) = Elements(backlog[c]) \cup Elements(tasks)
    BY ConcatElements DEF Queues
<1>3. QueuedTasks' = Elements(backlog'["app"]) \cup Elements(backlog'["loop"])
    BY DEF QueuedTasks, Elements, Callers
<1>4. QED BY <1>1, <1>2, <1>3, BothQueues DEF Queues, Callers

LEMMA RunQueues ==
    ASSUME NEW T, Queues(T), NEW c \in Callers, NEW op, NEW posts \in Seq(T),
           RunTask(c, op, posts)
    PROVE  /\ Queues(T)'
           /\ Head(backlog[c]) \in QueuedTasks /\ Head(backlog[c]).op = op
           /\ Head(backlog[c]) \in T
           /\ QueuedTasks \ {Head(backlog[c])} \subseteq QueuedTasks'
           /\ QueuedTasks' \subseteq QueuedTasks \cup Elements(posts)
           /\ Elements(posts) \subseteq QueuedTasks'
<1> DEFINE rest == [backlog EXCEPT ![c] = Tail(@)]
           after == [rest EXCEPT !["loop"] = @ \o posts]
<1>1. /\ backlog[c] \in Seq(T) /\ backlog[c] # <<>> /\ backlog' = after
      /\ Head(backlog[c]).op = op
    BY DEF Queues, RunTask
<1>2. /\ Elements(backlog[c]) = {Head(backlog[c])} \cup Elements(Tail(backlog[c]))
      /\ Head(backlog[c]) \in T /\ Tail(backlog[c]) \in Seq(T)
    BY <1>1, TailElements, TailParts
<1>3. /\ rest \in [Callers -> Seq(T)] /\ rest[c] = Tail(backlog[c])
      /\ \A d \in Callers : d # c => rest[d] = backlog[d]
    BY <1>2 DEF Queues
<1>4. "loop" \in Callers /\ "app" \in Callers /\ (c = "app" \/ c = "loop")
    BY DEF Callers
<1> HIDE DEF rest
<1>5. rest["loop"] \in Seq(T) /\ rest["loop"] \o posts \in Seq(T)
    BY <1>3, <1>4
<1>6. /\ after \in [Callers -> Seq(T)]
      /\ after["loop"] = rest["loop"] \o posts /\ after["app"] = rest["app"]
    BY <1>3, <1>4, <1>5
<1> HIDE DEF after
<1>7. Elements(after["loop"]) = Elements(rest["loop"]) \cup Elements(posts)
    BY <1>5, <1>6, ConcatElements
<1>8. QueuedTasks' = Elements(backlog'["app"]) \cup Elements(backlog'["loop"])
    BY DEF QueuedTasks, Elements, Callers
<1>9. Queues(T)'
    BY <1>1, <1>6 DEF Queues
<1>10. QED BY <1>1, <1>2, <1>3, <1>4, <1>6, <1>7, <1>8, <1>9, BothQueues

(***************************************************************************)
(* Closures of a kind S of which no more than one may be queued.           *)
(***************************************************************************)
\* No more than one element of q is in S.
OneIn(q, S) == \A i, j \in DOMAIN q : q[i] \in S /\ q[j] \in S => i = j

AtMostOne(S) ==
    /\ OneIn(backlog["app"], S) /\ OneIn(backlog["loop"], S)
    /\ Elements(backlog["app"]) \cap S = {} \/ Elements(backlog["loop"]) \cap S = {}

\* The tasks can join the queues: they bring none of S, or the only one.
CanJoin(tasks, S) ==
    \/ Elements(tasks) \cap S = {}
    \/ QueuedTasks \cap S = {} /\ OneIn(tasks, S)

LEMMA ConcatOne ==
    ASSUME NEW T, NEW p \in Seq(T), NEW q \in Seq(T), NEW S,
           \/ OneIn(p, S) /\ Elements(q) \cap S = {}
           \/ OneIn(q, S) /\ Elements(p) \cap S = {}
    PROVE  OneIn(p \o q, S)
<1> SUFFICES ASSUME NEW i \in DOMAIN (p \o q), NEW j \in DOMAIN (p \o q),
                    (p \o q)[i] \in S, (p \o q)[j] \in S
             PROVE  i = j
    BY DEF OneIn
<1>1. /\ \/ i \in DOMAIN p /\ (p \o q)[i] = p[i]
         \/ i - Len(p) \in DOMAIN q /\ (p \o q)[i] = q[i - Len(p)]
      /\ \/ j \in DOMAIN p /\ (p \o q)[j] = p[j]
         \/ j - Len(p) \in DOMAIN q /\ (p \o q)[j] = q[j - Len(p)]
      /\ i \in Nat /\ j \in Nat /\ Len(p) \in Nat
    BY ConcatParts
<1>2. CASE OneIn(p, S) /\ Elements(q) \cap S = {}
    BY <1>1, <1>2 DEF OneIn, Elements
<1>3. CASE OneIn(q, S) /\ Elements(p) \cap S = {}
  <2>1. /\ i - Len(p) \in DOMAIN q /\ q[i - Len(p)] \in S
        /\ j - Len(p) \in DOMAIN q /\ q[j - Len(p)] \in S
    BY <1>1, <1>3 DEF Elements
  <2>2. i - Len(p) = j - Len(p)
    BY <1>3, <2>1 DEF OneIn
  <2>3. QED BY <1>1, <2>2
<1>4. QED BY <1>2, <1>3

LEMMA TailOne ==
    ASSUME NEW T, NEW q \in Seq(T), q # <<>>, NEW S, OneIn(q, S)
    PROVE  /\ OneIn(Tail(q), S)
           /\ Head(q) \in S => Elements(Tail(q)) \cap S = {}
<1>1. ASSUME NEW i \in DOMAIN Tail(q), Tail(q)[i] \in S
      PROVE  i + 1 \in DOMAIN q /\ q[i + 1] \in S /\ i \in Nat
    BY <1>1, TailParts
<1>2. ASSUME NEW i \in DOMAIN Tail(q), NEW j \in DOMAIN Tail(q), Tail(q)[i] \in S, Tail(q)[j] \in S
      PROVE  i = j
    BY <1>1, <1>2 DEF OneIn
<1>3. ASSUME Head(q) \in S, NEW i \in DOMAIN Tail(q), Tail(q)[i] \in S PROVE FALSE
  <2>1. i + 1 = 1
    BY <1>1, <1>3, TailParts DEF OneIn
  <2>2. 1 \in DOMAIN Tail(q) /\ DOMAIN Tail(q) \subseteq 1..Len(Tail(q)) /\ i \in 1..Len(Tail(q))
    BY <1>3, <2>1, TailParts
  <2>3. QED BY <2>1, <2>2
<1>4. QED BY <1>2, <1>3 DEF OneIn, Elements

LEMMA PostOne ==
    ASSUME NEW T, Queues(T), NEW c \in Callers, NEW tasks \in Seq(T), backlog' = Posted(c, tasks),
           NEW S, AtMostOne(S), CanJoin(tasks, S)
    PROVE  AtMostOne(S)'
<1>1. /\ backlog'[c] = backlog[c] \o tasks /\ backlog[c] \in Seq(T)
      /\ \A d \in Callers : d # c => backlog'[d] = backlog[d]
      /\ "loop" \in Callers /\ "app" \in Callers /\ (c = "app" \/ c = "loop")
    BY DEF Queues, Posted, Callers
<1>2. Elements(backlog'[c]) = Elements(backlog[c]) \cup Elements(tasks)
    BY <1>1, ConcatElements
<1>3. OneIn(backlog'[c], S)
  <2>1. \/ OneIn(backlog[c], S) /\ Elements(tasks) \cap S = {}
        \/ OneIn(tasks, S) /\ Elements(backlog[c]) \cap S = {}
    BY <1>1, BothQueues DEF CanJoin, AtMostOne
  <2>2. QED BY <1>1, <2>1, ConcatOne
<1>4. QED BY <1>1, <1>2, <1>3, BothQueues DEF CanJoin, AtMostOne

LEMMA RunOne ==
    ASSUME NEW T, Queues(T), NEW c \in Callers, NEW op, NEW posts \in Seq(T),
           RunTask(c, op, posts), NEW S, AtMostOne(S), CanJoin(posts, S)
    PROVE  /\ AtMostOne(S)'
           /\ Head(backlog[c]) \in S => QueuedTasks' \cap S \subseteq Elements(posts)
<1> DEFINE rest == [backlog EXCEPT ![c] = Tail(@)]
           after == [rest EXCEPT !["loop"] = @ \o posts]
<1>1. /\ backlog[c] \in Seq(T) /\ backlog[c] # <<>> /\ backlog' = after
    BY DEF Queues, RunTask
<1>2. /\ Elements(backlog[c]) = {Head(backlog[c])} \cup Elements(Tail(backlog[c]))
      /\ Tail(backlog[c]) \in Seq(T)
      /\ \A d \in Callers : OneIn(backlog[d], S)
      /\ OneIn(Tail(backlog[c]), S)
      /\ Head(backlog[c]) \in S => Elements(Tail(backlog[c])) \cap S = {}
    BY <1>1, TailElements, TailParts, TailOne DEF AtMostOne, Callers
<1>3. /\ rest \in [Callers -> Seq(T)] /\ rest[c] = Tail(backlog[c])
      /\ \A d \in Callers : d # c => rest[d] = backlog[d]
    BY <1>2 DEF Queues
<1>4. "loop" \in Callers /\ "app" \in Callers /\ (c = "app" \/ c = "loop")
    BY DEF Callers
<1> HIDE DEF rest
<1>5. rest["loop"] \in Seq(T) /\ rest["loop"] \o posts \in Seq(T)
    BY <1>3, <1>4
<1>6. after["loop"] = rest["loop"] \o posts /\ after["app"] = rest["app"]
    BY <1>3, <1>4, <1>5
<1> HIDE DEF after
<1>7. Elements(after["loop"]) = Elements(rest["loop"]) \cup Elements(posts)
    BY <1>5, <1>6, ConcatElements
<1>8. /\ OneIn(rest["loop"], S) /\ OneIn(rest["app"], S)
      /\ Elements(rest["loop"]) \subseteq Elements(backlog["loop"])
      /\ Elements(rest["app"]) \subseteq Elements(backlog["app"])
    BY <1>2, <1>3, <1>4
<1>9. OneIn(after["loop"], S)
  <2>1. \/ OneIn(rest["loop"], S) /\ Elements(posts) \cap S = {}
        \/ OneIn(posts, S) /\ Elements(rest["loop"]) \cap S = {}
    BY <1>8, BothQueues DEF CanJoin
  <2>2. QED BY <1>5, <1>6, <2>1, ConcatOne
<1>10. AtMostOne(S)'
    BY <1>1, <1>6, <1>7, <1>8, <1>9, BothQueues DEF CanJoin, AtMostOne
<1>11. QueuedTasks' = Elements(backlog'["app"]) \cup Elements(backlog'["loop"])
    BY DEF QueuedTasks, Elements, Callers
<1>12. ASSUME Head(backlog[c]) \in S
       PROVE  Elements(rest["app"]) \cap S = {} /\ Elements(rest["loop"]) \cap S = {}
    BY <1>2, <1>3, <1>4, <1>12 DEF AtMostOne
<1>13. QED BY <1>1, <1>6, <1>7, <1>10, <1>11, <1>12

\* Short sequences.
LEMMA ShortSequences ==
    ASSUME NEW T, NEW t \in T, NEW S
    PROVE  /\ <<>> \in Seq(T) /\ Elements(<<>>) = {} /\ OneIn(<<>>, S)
           /\ <<t>> \in Seq(T) /\ Elements(<<t>>) = {t} /\ OneIn(<<t>>, S)
BY DEF Elements, OneIn

(***************************************************************************)
(* The tasks join the queues, posted by a thread, a callback of libuv, or  *)
(* the body of a closure that is not in S.                                 *)
(***************************************************************************)
Joining(tasks, S) ==
    \/ \E c \in Callers : backlog' = Posted(c, tasks)
    \/ LoopTurn(tasks)
    \/ \E c \in Callers : RunTask(c, Head(backlog[c]).op, tasks) /\ Head(backlog[c]) \notin S

LEMMA Joined ==
    ASSUME NEW T, Queues(T), NEW tasks \in Seq(T), NEW S, AtMostOne(S), CanJoin(tasks, S),
           Joining(tasks, S)
    PROVE  /\ AtMostOne(S)'
           /\ QueuedTasks' \cap S = (QueuedTasks \cap S) \cup (Elements(tasks) \cap S)
<1>1. ASSUME NEW c \in Callers, backlog' = Posted(c, tasks)
      PROVE  /\ AtMostOne(S)'
             /\ QueuedTasks' \cap S = (QueuedTasks \cap S) \cup (Elements(tasks) \cap S)
  <2>1. AtMostOne(S)'
    BY <1>1, PostOne
  <2>2. QueuedTasks' = QueuedTasks \cup Elements(tasks)
    BY <1>1, PostQueues
  <2>3. QED BY <2>1, <2>2
<1>2. ASSUME NEW c \in Callers, NEW op, RunTask(c, op, tasks), Head(backlog[c]) \notin S
      PROVE  /\ AtMostOne(S)'
             /\ QueuedTasks' \cap S = (QueuedTasks \cap S) \cup (Elements(tasks) \cap S)
  <2>1. AtMostOne(S)'
    BY <1>2, RunOne
  <2>2. /\ QueuedTasks \ {Head(backlog[c])} \subseteq QueuedTasks'
        /\ QueuedTasks' \subseteq QueuedTasks \cup Elements(tasks)
        /\ Elements(tasks) \subseteq QueuedTasks'
    BY <1>2, RunQueues
  <2>3. QED BY <1>2, <2>1, <2>2
<1>3. CASE LoopTurn(tasks)
    BY <1>1, <1>3 DEF LoopTurn, Callers
<1>4. QED BY <1>1, <1>2, <1>3 DEF Joining
=============================================================================
