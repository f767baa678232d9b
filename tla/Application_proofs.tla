-------------------------- MODULE Application_proofs --------------------------
(***************************************************************************)
(* Proofs about the configuration store and the process around it.  The    *)
(* store's operators walk along a path key by key; what they do to a       *)
(* document of any size, along a path of any length, is proved by          *)
(* induction on the keys, with sets of numbers in the place of predicates. *)
(***************************************************************************)
EXTENDS Application, SequenceTheorems, WellFoundedInduction, TLAPS

Paths == Seq(STRING)

\* Induction over the natural numbers, for a set of them.
LEMMA NatSet ==
    ASSUME NEW S, 0 \in S, \A n \in Nat : n \in S => n + 1 \in S
    PROVE  Nat \subseteq S
<1> DEFINE T == Nat \ S
<1>1. ASSUME T # {} PROVE FALSE
  <2>1. IsWellFoundedOn(OpToRel(<, Nat), Nat)
    BY NatLessThanWellFounded
  <2>2. \E n \in T : \A m \in T : <<m, n>> \notin OpToRel(<, Nat)
    <3>1. T \subseteq Nat
      OBVIOUS
    <3> HIDE DEF T
    <3> QED BY <1>1, <2>1, <3>1, WFMin
  <2>3. PICK n \in T : \A m \in T : <<m, n>> \notin OpToRel(<, Nat)
    BY <2>2
  <2>4. n # 0 /\ n \in Nat /\ n - 1 \in Nat
    OBVIOUS
  <2>5. <<n - 1, n>> \in OpToRel(<, Nat)
    BY <2>4 DEF OpToRel
  <2>6. n - 1 \in S
    BY <2>3, <2>4, <2>5
  <2> QED BY <2>4, <2>6
<1> QED BY <1>1

-----------------------------------------------------------------------------
(***************************************************************************)
(* The recursive functions of the store are what their equations say.      *)
(***************************************************************************)
\* One key more: empty ones are left out.
NextKey(keys, key) == IF key = "" THEN keys ELSE Append(keys, key)

LEMMA KeysExist ==
    ASSUME NEW path \in Paths
    PROVE  \E keys : keys = [n \in 0..Len(path) |->
              IF n = 0 THEN <<>> ELSE NextKey(keys[n - 1], path[n])]
<1> DEFINE G(k, g) == g = [n \in 0..k |-> IF n = 0 THEN <<>> ELSE NextKey(g[n - 1], path[n])]
           S == {k \in Nat : \E g : G(k, g)}
<1>1. 0 \in S
  <2>1. G(0, [n \in 0..0 |-> <<>>])
    OBVIOUS
  <2> QED BY <2>1
<1>2. ASSUME NEW k \in Nat, k \in S PROVE k + 1 \in S
  <2>1. PICK g : G(k, g)
    BY <1>2
  <2> DEFINE h == [n \in 0..(k + 1) |-> IF n <= k THEN g[n] ELSE NextKey(g[k], path[k + 1])]
  <2>2. ASSUME NEW n \in 0..(k + 1)
        PROVE  h[n] = IF n = 0 THEN <<>> ELSE NextKey(h[n - 1], path[n])
    <3>1. CASE n = 0
      BY <2>1, <3>1
    <3>2. CASE n \in 1..k
      BY <2>1, <3>2
    <3>3. CASE n = k + 1
      BY <3>3
    <3> QED BY <3>1, <3>2, <3>3
  <2>3. G(k + 1, h)
    BY <2>2
  <2> HIDE DEF h, G
  <2> QED BY <2>3
<1>3. Len(path) \in S
  <2> HIDE DEF S
  <2> QED BY <1>1, <1>2, NatSet
<1> QED BY <1>3

IsWalk(d, keys, at) ==
    at = [n \in 0..Len(keys) |->
            IF n = 0 THEN [doc |-> d, path |-> <<>>] ELSE Descend(at[n - 1], keys[n])]

LEMMA WalkExists ==
    ASSUME NEW d, NEW keys \in Paths PROVE \E at : IsWalk(d, keys, at)
<1> DEFINE G(k, g) == g = [n \in 0..k |-> IF n = 0 THEN [doc |-> d, path |-> <<>>]
                                           ELSE Descend(g[n - 1], keys[n])]
           S == {k \in Nat : \E g : G(k, g)}
<1>1. 0 \in S
  <2>1. G(0, [n \in 0..0 |-> [doc |-> d, path |-> <<>>]])
    OBVIOUS
  <2> QED BY <2>1
<1>2. ASSUME NEW k \in Nat, k \in S PROVE k + 1 \in S
  <2>1. PICK g : G(k, g)
    BY <1>2
  <2> DEFINE h == [n \in 0..(k + 1) |-> IF n <= k THEN g[n] ELSE Descend(g[k], keys[k + 1])]
  <2>2. ASSUME NEW n \in 0..(k + 1)
        PROVE  h[n] = IF n = 0 THEN [doc |-> d, path |-> <<>>] ELSE Descend(h[n - 1], keys[n])
    <3>1. CASE n = 0
      BY <2>1, <3>1
    <3>2. CASE n \in 1..k
      BY <2>1, <3>2
    <3>3. CASE n = k + 1
      BY <3>3
    <3> QED BY <3>1, <3>2, <3>3
  <2>3. G(k + 1, h)
    BY <2>2
  <2> HIDE DEF h, G
  <2> QED BY <2>3
<1>3. Len(keys) \in S
  <2> HIDE DEF S
  <2> QED BY <1>1, <1>2, NatSet
<1> QED BY <1>3 DEF IsWalk

LEMMA WalkSteps ==
    ASSUME NEW d, NEW keys \in Paths
    PROVE  /\ Walk(d, keys)[0] = [doc |-> d, path |-> <<>>]
           /\ \A n \in 0..(Len(keys) - 1) :
                 Walk(d, keys)[n + 1] = Descend(Walk(d, keys)[n], keys[n + 1])
<1> DEFINE at == CHOOSE at : IsWalk(d, keys, at)
<1>0. Walk(d, keys) = at
  BY DEF Walk, IsWalk
<1>1. IsWalk(d, keys, at)
  BY WalkExists
<1> HIDE DEF at
<1>2. at[0] = [doc |-> d, path |-> <<>>]
  BY <1>1 DEF IsWalk
<1>3. ASSUME NEW n \in 0..(Len(keys) - 1) PROVE at[n + 1] = Descend(at[n], keys[n + 1])
  <2>1. n + 1 \in 0..Len(keys) /\ n + 1 # 0 /\ (n + 1) - 1 = n
    OBVIOUS
  <2> QED BY <1>1, <2>1 DEF IsWalk
<1> QED BY <1>0, <1>2, <1>3

\* The keys of a path are a sequence of keys.
LEMMA KeysAreAPath ==
    ASSUME NEW path \in Paths PROVE KeysOf(path) \in Paths
<1> DEFINE F(keys) == [n \in 0..Len(path) |->
                         IF n = 0 THEN <<>> ELSE NextKey(keys[n - 1], path[n])]
           keys == CHOOSE keys : keys = F(keys)
<1>1. keys = F(keys)
  BY KeysExist
<1>2. KeysOf(path) = keys[Len(path)]
  BY DEF KeysOf, NextKey
<1> HIDE DEF keys
<1> DEFINE S == {n \in Nat : n <= Len(path) => keys[n] \in Paths}
<1>3. 0 \in S
  BY <1>1 DEF Paths
<1>4. ASSUME NEW n \in Nat, n \in S PROVE n + 1 \in S
  <2>1. SUFFICES ASSUME n + 1 <= Len(path) PROVE keys[n + 1] \in Paths
    OBVIOUS
  <2>2. keys[n + 1] = NextKey(keys[n], path[n + 1])
    BY <1>1, <2>1 DEF Paths
  <2>3. path[n + 1] \in STRING /\ keys[n] \in Paths
    BY <1>4, <2>1 DEF Paths
  <2>4. \A s \in Paths, e \in STRING : Append(s, e) \in Paths
    BY AppendProperties DEF Paths
  <2> HIDE DEF S
  <2> QED BY <2>2, <2>3, <2>4 DEF NextKey
<1>5. Len(path) \in S
  <2> HIDE DEF S
  <2>1. Len(path) \in Nat
    BY DEF Paths
  <2> QED BY <1>3, <1>4, <2>1, NatSet
<1> QED BY <1>2, <1>5

-----------------------------------------------------------------------------
(***************************************************************************)
(* Paths and their prefixes.                                               *)
(***************************************************************************)
LEMMA PrefixIs ==
    ASSUME NEW p \in Paths, NEW q \in Paths
    PROVE  IsPrefix(p, q) <=> Len(p) <= Len(q) /\ \A i \in 1..Len(p) : p[i] = q[i]
<1>1. Len(p) \in Nat /\ Len(q) \in Nat
  BY DEF Paths
<1>2. SubSeq(p, 1, Len(p)) = p
  BY SubSeqFull DEF Paths
<1>3. ASSUME Len(p) <= Len(q)
      PROVE  /\ SubSeq(q, 1, Len(p)) \in Paths
             /\ Len(SubSeq(q, 1, Len(p))) = Len(p)
             /\ \A i \in 1..Len(p) : SubSeq(q, 1, Len(p))[i] = q[i]
  <2>1. \A i \in 1..Len(p) : q[i] \in STRING
    BY <1>1, <1>3, ElementOfSeq DEF Paths
  <2> QED BY <1>1, <2>1, SubSeqProperties DEF Paths
<1>4. ASSUME Len(p) <= Len(q), \A i \in 1..Len(p) : p[i] = q[i]
      PROVE  SubSeq(q, 1, Len(p)) = p
  BY <1>1, <1>3, <1>4, SeqEqual DEF Paths
<1> QED BY <1>1, <1>2, <1>3, <1>4 DEF IsPrefix

LEMMA FrontIs ==
    ASSUME NEW p \in Paths, p # <<>>
    PROVE  /\ Front(p) \in Paths
           /\ Len(Front(p)) = Len(p) - 1
           /\ \A i \in 1..(Len(p) - 1) : Front(p)[i] = p[i]
           /\ IsPrefix(Front(p), p)
<1>1. Len(p) \in Nat /\ Len(p) >= 1
  <2>1. Len(p) \in Nat \ {0}
    BY EmptySeq DEF Paths
  <2> QED BY <2>1
<1>2. \A i \in 1..(Len(p) - 1) : p[i] \in STRING
  BY <1>1, ElementOfSeq DEF Paths
<1>3. /\ Front(p) \in Paths
      /\ Len(Front(p)) = Len(p) - 1
      /\ \A i \in 1..(Len(p) - 1) : Front(p)[i] = p[i]
  <2> DEFINE t == SubSeq(p, 1, Len(p) - 1)
  <2>1. 1 \in Int /\ Len(p) - 1 \in Int
    BY <1>1
  <2>2. /\ t \in Seq(STRING)
        /\ Len(t) = IF 1 <= Len(p) - 1 THEN (Len(p) - 1) - 1 + 1 ELSE 0
        /\ \A i \in 1..((Len(p) - 1) - 1 + 1) : t[i] = p[1 + i - 1]
    BY <1>2, <2>1, SubSeqProperties
  <2> HIDE DEF t
  <2>3. /\ (Len(p) - 1) - 1 + 1 = Len(p) - 1
        /\ \A i \in 1..(Len(p) - 1) : 1 + i - 1 = i
    BY <1>1
  <2>4. Len(t) = Len(p) - 1
    <3>1. CASE Len(p) = 1
      BY <2>2, <3>1
    <3>2. CASE 1 <= Len(p) - 1
      BY <2>2, <2>3, <3>2
    <3>3. Len(p) = 1 \/ 1 <= Len(p) - 1
      BY <1>1
    <3> HIDE DEF t
    <3> QED BY <3>1, <3>2, <3>3, Zenon
  <2>5. Front(p) = t
    BY DEF Front, t
  <2> QED BY <2>2, <2>3, <2>4, <2>5 DEF Paths
<1> QED BY <1>1, <1>3, PrefixIs

LEMMA PrefixOrder ==
    ASSUME NEW p \in Paths, NEW q \in Paths, NEW r \in Paths
    PROVE  /\ IsPrefix(<<>>, p) /\ <<>> \in Paths
           /\ IsPrefix(p, p)
           /\ IsPrefix(p, q) /\ IsPrefix(q, p) => p = q
           /\ IsPrefix(p, q) /\ IsPrefix(q, r) => IsPrefix(p, r)
           /\ IsPrefix(p, q) /\ p # q => IsPrefix(p, Front(q)) /\ q # <<>>
<1>1. Len(p) \in Nat /\ Len(q) \in Nat /\ Len(r) \in Nat
  BY DEF Paths
<1>2. <<>> \in Paths /\ Len(<<>>) = 0
  BY DEF Paths
<1>3. IsPrefix(<<>>, p)
  BY <1>1, <1>2, PrefixIs
<1>4. ASSUME Len(p) = Len(q), IsPrefix(p, q) PROVE p = q
  BY <1>4, PrefixIs, SeqEqual DEF Paths
<1>5. ASSUME IsPrefix(p, q), p # q PROVE IsPrefix(p, Front(q)) /\ q # <<>>
  <2>1. Len(p) < Len(q)
    BY <1>1, <1>4, <1>5, PrefixIs
  <2>2. q # <<>>
    BY <1>1, <1>2, <2>1
  <2> QED BY <1>1, <1>5, <2>1, <2>2, FrontIs, PrefixIs
<1>6. IsPrefix(p, q) /\ IsPrefix(q, p) => p = q
  BY <1>1, <1>4, PrefixIs
<1>7. IsPrefix(p, q) /\ IsPrefix(q, r) => IsPrefix(p, r)
  BY <1>1, PrefixIs
<1> QED BY <1>1, <1>2, <1>3, <1>5, <1>6, <1>7, PrefixIs

LEMMA AppendedKey ==
    ASSUME NEW p \in Paths, NEW key \in STRING
    PROVE  /\ Append(p, key) \in Paths /\ Append(p, key) # <<>>
           /\ Front(Append(p, key)) = p
<1>1. /\ Append(p, key) \in Paths /\ Append(p, key) # <<>>
      /\ Len(Append(p, key)) = Len(p) + 1
      /\ \A i \in 1..Len(p) : Append(p, key)[i] = p[i]
  <2>1. p \in Seq(STRING)
    BY DEF Paths
  <2>2. Append(p, key) \in Seq(STRING) /\ Append(p, key) # <<>>
    BY <2>1, AppendProperties, Zenon
  <2>3. Len(Append(p, key)) = Len(p) + 1
    BY <2>1, AppendProperties, Zenon
  <2>4. \A i \in 1..Len(p) : Append(p, key)[i] = p[i]
    BY <2>1
  <2> QED BY <2>2, <2>3, <2>4 DEF Paths
<1> DEFINE t == Append(p, key)
<1> HIDE DEF t
<1>2. Len(p) \in Nat
  BY DEF Paths
<1>3. t \in Paths /\ t # <<>> /\ Len(t) = Len(p) + 1 /\ \A i \in 1..Len(p) : t[i] = p[i]
  BY <1>1 DEF t
<1>4. Front(t) \in Paths /\ Len(Front(t)) = Len(p) /\ \A i \in 1..Len(p) : Front(t)[i] = p[i]
  BY <1>2, <1>3, FrontIs
<1>5. Front(t) = p
  BY <1>4, SeqEqual DEF Paths
<1> QED BY <1>1, <1>5 DEF t

LEMMA Below ==
    ASSUME NEW p \in Paths, NEW r \in Paths
    PROVE  /\ p \o r \in Paths /\ IsPrefix(p, p \o r)
           /\ SubSeq(p \o r, Len(p) + 1, Len(p \o r)) = r
           /\ p \o r = <<>> => p = <<>> /\ r = <<>>
           /\ r = <<>> => p \o r = p
           /\ r # <<>> => Front(p \o r) = p \o Front(r)
<1>1. /\ p \o r \in Paths
      /\ Len(p \o r) = Len(p) + Len(r)
      /\ \A i \in 1..(Len(p) + Len(r)) : (p \o r)[i] = IF i <= Len(p) THEN p[i] ELSE r[i - Len(p)]
  BY ConcatProperties DEF Paths
<1>2. Len(p) \in Nat /\ Len(r) \in Nat
  BY DEF Paths
<1>3. IsPrefix(p, p \o r)
  <2> DEFINE t == p \o r
  <2> HIDE DEF t
  <2>1. t \in Paths /\ Len(t) = Len(p) + Len(r) /\ \A i \in 1..Len(p) : t[i] = p[i]
    BY <1>1, <1>2 DEF t
  <2>2. IsPrefix(p, t)
    BY <1>2, <2>1, PrefixIs
  <2> QED BY <2>2 DEF t
<1>4. p \o r = <<>> => p = <<>> /\ r = <<>>
  BY ConcatEqualIffEmpty DEF Paths
<1>5. r = <<>> => p \o r = p
  BY ConcatEmptySeq DEF Paths
<1>6. SubSeq(p \o r, Len(p) + 1, Len(p \o r)) = r
  <2> DEFINE t == SubSeq(p \o r, Len(p) + 1, Len(p) + Len(r))
  <2>1. \A i \in (Len(p) + 1)..(Len(p) + Len(r)) : (p \o r)[i] \in STRING
    BY <1>1, <1>2, ElementOfSeq DEF Paths
  <2>2. /\ t \in Paths /\ Len(t) = Len(r)
        /\ \A i \in 1..Len(r) : t[i] = (p \o r)[Len(p) + i]
    <3>1. Len(p) + 1 \in Int /\ Len(p) + Len(r) \in Int
      BY <1>2
    <3>2. /\ t \in Seq(STRING)
          /\ Len(t) = IF Len(p) + 1 <= Len(p) + Len(r)
                      THEN (Len(p) + Len(r)) - (Len(p) + 1) + 1 ELSE 0
          /\ \A i \in 1..((Len(p) + Len(r)) - (Len(p) + 1) + 1) : t[i] = (p \o r)[(Len(p) + 1) + i - 1]
      BY <2>1, <3>1, SubSeqProperties
    <3> HIDE DEF t
    <3>3. (Len(p) + Len(r)) - (Len(p) + 1) + 1 = Len(r)
      BY <1>2
    <3>4. \A i \in 1..Len(r) : (Len(p) + 1) + i - 1 = Len(p) + i
      BY <1>2
    <3>5. Len(t) = Len(r)
      BY <1>2, <3>2
    <3> QED BY <3>2, <3>3, <3>4, <3>5 DEF Paths
  <2> HIDE DEF t
  <2>3. \A i \in 1..Len(r) : t[i] = r[i]
    BY <1>1, <1>2, <2>2
  <2>4. t = r
    BY <2>2, <2>3, SeqEqual DEF Paths
  <2> QED BY <1>1, <2>4 DEF t
<1>7. ASSUME r # <<>> PROVE Front(p \o r) = p \o Front(r)
  <2>1. p \o r # <<>> /\ Len(r) # 0
    BY <1>2, <1>4, <1>7, EmptySeq DEF Paths
  <2>2. /\ Front(r) \in Paths /\ Len(Front(r)) = Len(r) - 1
        /\ \A i \in 1..(Len(r) - 1) : Front(r)[i] = r[i]
    BY <1>7, FrontIs
  <2> DEFINE t == p \o r
             f == Front(r)
             u == p \o f
  <2>3. /\ t \in Paths /\ t # <<>> /\ Len(t) = Len(p) + Len(r)
        /\ \A i \in 1..(Len(p) + Len(r)) : t[i] = IF i <= Len(p) THEN p[i] ELSE r[i - Len(p)]
    BY <1>1, <2>1
  <2>4. f \in Seq(STRING) /\ p \in Seq(STRING)
    BY <2>2 DEF Paths
  <2> HIDE DEF f
  <2>5. /\ u \in Seq(STRING)
        /\ Len(u) = Len(p) + Len(f)
        /\ \A i \in 1..(Len(p) + Len(f)) : u[i] = IF i <= Len(p) THEN p[i] ELSE f[i - Len(p)]
    BY <2>4, ConcatProperties
  <2> HIDE DEF t, u
  <2>6. /\ Front(t) \in Paths /\ Len(Front(t)) = Len(t) - 1
        /\ \A i \in 1..(Len(t) - 1) : Front(t)[i] = t[i]
    BY <2>3, FrontIs
  <2>7. f \in Paths /\ Len(f) = Len(r) - 1 /\ \A i \in 1..(Len(r) - 1) : f[i] = r[i]
    BY <2>2 DEF f
  <2>8. Len(u) = Len(Front(t))
    BY <1>2, <2>3, <2>5, <2>6, <2>7
  <2>9. ASSUME NEW i \in 1..Len(Front(t)) PROVE Front(t)[i] = u[i]
    <3>1. Front(t)[i] = IF i <= Len(p) THEN p[i] ELSE r[i - Len(p)]
      BY <1>2, <2>3, <2>6
    <3>2. u[i] = IF i <= Len(p) THEN p[i] ELSE f[i - Len(p)]
      BY <1>2, <2>3, <2>5, <2>6, <2>7
    <3>3. i > Len(p) => f[i - Len(p)] = r[i - Len(p)]
      BY <1>2, <2>3, <2>6, <2>7
    <3> QED BY <1>2, <2>3, <2>6, <3>1, <3>2, <3>3
  <2>10. Front(t) = u
    BY <2>5, <2>6, <2>8, <2>9, SeqEqual DEF Paths
  <2> QED BY <2>10 DEF t, u, f
<1> QED BY <1>1, <1>3, <1>4, <1>5, <1>6, <1>7

-----------------------------------------------------------------------------
(***************************************************************************)
(* What the operations make of a document.                                 *)
(***************************************************************************)
LEMMA LeafIsTree ==
    ASSUME NEW v PROVE IsTree(Leaf(v))
<1>1. <<>> \in Seq(STRING)
  OBVIOUS
<1> QED BY <1>1 DEF IsTree, Leaf

LEMMA PathsOfTree ==
    ASSUME NEW d, IsTree(d)
    PROVE  /\ d = [p \in DOMAIN d |-> d[p]] /\ DOMAIN d \subseteq Paths /\ <<>> \in DOMAIN d
           /\ \A p \in DOMAIN d : p # <<>> => Front(p) \in DOMAIN d /\ d[Front(p)] = "object"
BY DEF IsTree, Paths

\* The merge of two trees is a tree.
LEMMA MergedTree ==
    ASSUME NEW d, NEW patch, IsTree(d), IsTree(patch)
    PROVE  IsTree(MergePatch(d, patch))
<1> DEFINE kept == {p \in DOMAIN d : \A q \in DOMAIN patch : IsPrefix(q, p) => patch[q] = "object"}
           given == {p \in DOMAIN patch : patch[p] # "null"}
           m == [p \in kept \cup given |-> IF p \in given THEN patch[p] ELSE d[p]]
<1>1. CASE patch[<<>>] # "object"
  BY <1>1 DEF MergePatch
<1>2. CASE patch[<<>>] = "object"
  <2>1. MergePatch(d, patch) = m
    BY <1>2 DEF MergePatch
  <2>2. DOMAIN m = kept \cup given /\ m = [p \in DOMAIN m |-> m[p]]
    BY PathsOfTree
  <2>3. kept \cup given \subseteq Paths /\ <<>> \in given
    BY <1>2, PathsOfTree
  <2>4. ASSUME NEW p \in kept \cup given, p # <<>>
        PROVE  Front(p) \in kept \cup given /\ m[Front(p)] = "object"
    <3>1. p \in Paths /\ Front(p) \in Paths /\ IsPrefix(Front(p), p)
      BY <2>3, <2>4, FrontIs
    <3>2. CASE p \in given
      BY <2>4, <3>2, PathsOfTree
    <3>3. CASE p \in kept
      <4>1. Front(p) \in DOMAIN d /\ d[Front(p)] = "object"
        BY <2>4, <3>3, PathsOfTree
      <4>2. ASSUME NEW q \in DOMAIN patch, IsPrefix(q, Front(p)) PROVE patch[q] = "object"
        <5>1. IsPrefix(q, p)
          BY <3>1, <4>2, PathsOfTree, PrefixOrder
        <5> QED BY <3>3, <5>1
      <4>3. Front(p) \in kept
        BY <4>1, <4>2
      <4>4. Front(p) \in DOMAIN patch => patch[Front(p)] = "object"
        BY <3>1, <4>2, PrefixOrder
      <4> QED BY <4>1, <4>3, <4>4
    <3> QED BY <3>2, <3>3
  <2> HIDE DEF m, kept, given
  <2>5. IsTree(m)
    BY <2>2, <2>3, <2>4 DEF IsTree, Paths
  <2> QED BY <2>1, <2>5
<1> QED BY <1>1, <1>2

\* A step of the walk ends at a node that is there, and touches nothing but
\* that node and the one it comes from.
LEMMA Descended ==
    ASSUME NEW d, NEW p, IsTree(d), p \in DOMAIN d, NEW key \in STRING,
           NEW to, to = Descend([doc |-> d, path |-> p], key)
    PROVE  /\ to.path = Append(p, key) /\ to.path \in DOMAIN to.doc
           /\ IsTree(to.doc)
           /\ DOMAIN d \subseteq DOMAIN to.doc
           /\ \A q \in DOMAIN to.doc : q # p /\ q # to.path => q \in DOMAIN d /\ to.doc[q] = d[q]
<1> DEFINE e == AsObject(d, p)
           c == Append(p, key)
           m == [q \in DOMAIN e \cup {c} |-> IF q \in DOMAIN e THEN e[q] ELSE "null"]
<1>1. Descend([doc |-> d, path |-> p], key) = [doc |-> m, path |-> c]
  BY DEF Descend
<1>2. p \in Paths /\ c \in Paths /\ c # <<>> /\ Front(c) = p
  BY PathsOfTree, AppendedKey
<1>3. /\ DOMAIN e = DOMAIN d
      /\ e[p] = "object" /\ \A q \in DOMAIN d : q # p => e[q] = d[q]
  <2>1. d = [q \in DOMAIN d |-> d[q]]
    BY PathsOfTree
  <2>2. CASE d[p] = "object"
    BY <2>1, <2>2 DEF AsObject
  <2>3. CASE d[p] # "object"
    <3>1. e = [d EXCEPT ![p] = "object"]
      BY <2>3 DEF AsObject
    <3> HIDE DEF e
    <3> QED BY <2>1, <3>1
  <2> QED BY <2>2, <2>3
<1> HIDE DEF e, c
<1>4. DOMAIN m = DOMAIN d \cup {c} /\ m = [q \in DOMAIN m |-> m[q]]
  BY <1>3
<1>5. /\ \A q \in DOMAIN d : m[q] = e[q]
      /\ p \in DOMAIN m /\ m[p] = "object"
  BY <1>3
<1> HIDE DEF m
<1>6. ASSUME NEW q \in DOMAIN m, q # <<>> PROVE Front(q) \in DOMAIN m /\ m[Front(q)] = "object"
  <2>1. CASE q = c
    BY <1>2, <1>5, <2>1
  <2>2. CASE q \in DOMAIN d
    <3>1. Front(q) \in DOMAIN d /\ d[Front(q)] = "object"
      BY <1>6, <2>2, PathsOfTree
    <3> QED BY <1>3, <1>4, <1>5, <3>1
  <2> QED BY <1>4, <2>1, <2>2
<1>7. IsTree(m)
  BY <1>2, <1>4, <1>6, PathsOfTree DEF IsTree, Paths
<1> QED BY <1>1, <1>3, <1>4, <1>5, <1>7 DEF c

\* After n keys the walk is at the node that they name; what it has touched
\* on its way are the nodes above.
WalkedTo(d, keys, n) ==
    LET at == Walk(d, keys)[n]
    IN  /\ at = [doc |-> at.doc, path |-> at.path]
        /\ IsTree(at.doc)
        /\ at.path \in DOMAIN at.doc
        /\ Len(at.path) = n /\ IsPrefix(at.path, keys)
        /\ DOMAIN d \subseteq DOMAIN at.doc
        /\ \A q \in DOMAIN at.doc : IsPrefix(q, keys) \/ (q \in DOMAIN d /\ at.doc[q] = d[q])

LEMMA WalkFindsPath ==
    ASSUME NEW d, IsTree(d), NEW keys \in Paths
    PROVE  \A n \in 0..Len(keys) : WalkedTo(d, keys, n)
<1> DEFINE S == {n \in Nat : n <= Len(keys) => WalkedTo(d, keys, n)}
<1>1. Len(keys) \in Nat
  BY DEF Paths
<1>2. 0 \in S
  <2>1. Walk(d, keys)[0] = [doc |-> d, path |-> <<>>]
    BY WalkSteps
  <2>2. IsPrefix(<<>>, keys) /\ <<>> \in DOMAIN d /\ Len(<<>>) = 0
    BY PathsOfTree, PrefixOrder
  <2>3. WalkedTo(d, keys, 0)
    BY <2>1, <2>2 DEF WalkedTo
  <2> QED BY <2>3
<1>3. ASSUME NEW n \in Nat, n \in S PROVE n + 1 \in S
  <2>1. SUFFICES ASSUME n + 1 <= Len(keys) PROVE WalkedTo(d, keys, n + 1)
    OBVIOUS
  <2> DEFINE e == Walk(d, keys)[n].doc
             p == Walk(d, keys)[n].path
             key == keys[n + 1]
             to == Walk(d, keys)[n + 1]
  <2>2. WalkedTo(d, keys, n)
    BY <1>1, <1>3, <2>1
  <2>3. /\ IsTree(e) /\ p \in DOMAIN e /\ p \in Paths /\ key \in STRING
        /\ Len(p) = n /\ IsPrefix(p, keys) /\ DOMAIN d \subseteq DOMAIN e
        /\ \A q \in DOMAIN e : IsPrefix(q, keys) \/ (q \in DOMAIN d /\ e[q] = d[q])
    <3>1. key \in STRING
      BY <1>1, <2>1, ElementOfSeq DEF Paths
    <3> QED BY <2>2, <3>1, PathsOfTree DEF WalkedTo
  <2>4. to = Descend([doc |-> e, path |-> p], key)
    <3>1. Walk(d, keys)[n] = [doc |-> e, path |-> p]
      BY <2>2 DEF WalkedTo
    <3>2. n \in 0..(Len(keys) - 1)
      BY <1>1, <2>1
    <3>3. to = Descend(Walk(d, keys)[n], key)
      BY <3>2, WalkSteps
    <3> HIDE DEF e, p
    <3> QED BY <3>1, <3>3
  <2> HIDE DEF e, p, key, to
  <2>5. /\ to.path = Append(p, key) /\ to.path \in DOMAIN to.doc
        /\ IsTree(to.doc)
        /\ DOMAIN e \subseteq DOMAIN to.doc
        /\ \A q \in DOMAIN to.doc : q # p /\ q # to.path => q \in DOMAIN e /\ to.doc[q] = e[q]
    BY <2>3, <2>4, Descended
  <2>6. to = [doc |-> to.doc, path |-> to.path]
    BY <2>4 DEF Descend
  <2>7. Len(to.path) = n + 1 /\ IsPrefix(to.path, keys)
    <3> DEFINE c == to.path
    <3>1. p \in Seq(STRING) /\ key \in STRING
      BY <2>3 DEF Paths
    <3>2. c \in Paths /\ Len(c) = Len(p) + 1 /\ c[Len(p) + 1] = key
      BY <2>5, <3>1, AppendProperties DEF Paths
    <3>3. \A i \in 1..Len(p) : c[i] = p[i]
      BY <2>5, <3>1
    <3> HIDE DEF c
    <3>4. \A i \in 1..Len(p) : p[i] = keys[i]
      BY <2>3, PrefixIs
    <3>5. \A i \in 1..Len(c) : c[i] = keys[i]
      BY <2>3, <3>2, <3>3, <3>4 DEF key
    <3>6. IsPrefix(c, keys) /\ Len(c) = n + 1
      BY <2>1, <2>3, <3>2, <3>5, PrefixIs
    <3> QED BY <3>6 DEF c
  <2>8. ASSUME NEW q \in DOMAIN to.doc
        PROVE  IsPrefix(q, keys) \/ (q \in DOMAIN d /\ to.doc[q] = d[q])
    BY <2>3, <2>5, <2>7
  <2>9. WalkedTo(d, keys, n + 1)
    BY <2>3, <2>5, <2>6, <2>7, <2>8 DEF WalkedTo, to
  <2> QED BY <2>9
<1>4. Nat \subseteq S
  <2> HIDE DEF S
  <2> QED BY <1>2, <1>3, NatSet
<1> QED BY <1>1, <1>4

\* What WithValue returns, with the walk's end for the nodes on the way.
LEMMA WithValueIs ==
    ASSUME NEW d, IsTree(d), NEW path \in Paths, NEW v, IsTree(v)
    PROVE  LET p == KeysOf(path)
               m == WithValue(d, path, v)
           IN  /\ p \in Paths
               /\ IsTree(m)
               /\ \A r \in DOMAIN v : p \o r \in DOMAIN m /\ m[p \o r] = v[r]
               /\ \A q \in DOMAIN m : IsPrefix(p, q) => \E r \in DOMAIN v : q = p \o r
               /\ \A q \in DOMAIN d \cup DOMAIN m :
                     \/ Comparable(q, p)
                     \/ q \in DOMAIN d \cap DOMAIN m /\ d[q] = m[q]
<1> DEFINE p == KeysOf(path)
           e == Walk(d, p)[Len(p)].doc
           outside == {q \in DOMAIN e : ~IsPrefix(p, q)}
           m == [q \in outside \cup {p \o r : r \in DOMAIN v} |->
                   IF q \in outside THEN e[q] ELSE v[SubSeq(q, Len(p) + 1, Len(q))]]
<1>1. p \in Paths /\ Len(p) \in Nat
  BY KeysAreAPath DEF Paths
<1>2. /\ IsTree(e) /\ DOMAIN e \subseteq Paths /\ Walk(d, p)[Len(p)].path = p /\ p \in DOMAIN e
      /\ DOMAIN d \subseteq DOMAIN e
      /\ \A q \in DOMAIN e : IsPrefix(q, p) \/ (q \in DOMAIN d /\ e[q] = d[q])
  <2>1. WalkedTo(d, p, Len(p))
    BY <1>1, WalkFindsPath
  <2> DEFINE z == Walk(d, p)[Len(p)].path
  <2>2. Len(z) = Len(p) /\ IsPrefix(z, p) /\ z \in Paths
    BY <2>1, PathsOfTree DEF WalkedTo
  <2> HIDE DEF p, z
  <2>3. z = p
    BY <1>1, <2>2, PrefixIs, SeqEqual DEF Paths
  <2> QED BY <2>1, <2>3, PathsOfTree DEF WalkedTo, z
<1>3. WithValue(d, path, v) = m
  BY <1>2 DEF WithValue
<1>4. \A r \in DOMAIN v : r \in Paths
  BY PathsOfTree
<1> HIDE DEF p, e
<1>5. DOMAIN m = outside \cup {p \o r : r \in DOMAIN v} /\ m = [q \in DOMAIN m |-> m[q]]
  OBVIOUS
<1>6. \A q \in outside : m[q] = e[q]
  OBVIOUS
<1>7. ASSUME NEW r \in DOMAIN v PROVE p \o r \in DOMAIN m /\ m[p \o r] = v[r]
  <2>1. p \o r \notin outside /\ SubSeq(p \o r, Len(p) + 1, Len(p \o r)) = r
    BY <1>1, <1>4, Below
  <2> QED BY <2>1
<1> HIDE DEF m
<1>8. \A q \in DOMAIN m : IsPrefix(p, q) => \E r \in DOMAIN v : q = p \o r
  BY <1>5
<1>9. ASSUME NEW q \in DOMAIN d \cup DOMAIN m, ~Comparable(q, p)
      PROVE  q \in DOMAIN d \cap DOMAIN m /\ d[q] = m[q]
  <2>1. q \in outside
    <3>1. \A r \in DOMAIN v : IsPrefix(p, p \o r)
      BY <1>1, <1>4, Below
    <3>2. q \in DOMAIN m => q \in outside
      BY <1>5, <1>9, <3>1 DEF Comparable
    <3>3. q \in DOMAIN d => q \in outside
      BY <1>2, <1>9 DEF Comparable
    <3> QED BY <3>2, <3>3
  <2> QED BY <1>2, <1>5, <1>6, <1>9, <2>1 DEF Comparable
<1>10. IsTree(m)
  <2>1. DOMAIN m \subseteq Paths
    <3>1. \A r \in DOMAIN v : p \o r \in Paths
      BY <1>1, <1>4, Below
    <3> QED BY <1>2, <1>5, <3>1
  <2>2. <<>> \in DOMAIN m
    <3>1. CASE p = <<>>
      <4>1. <<>> \in DOMAIN v /\ p \o <<>> = <<>>
        BY <1>1, <3>1, PathsOfTree, Below
      <4> QED BY <1>5, <4>1
    <3>2. CASE p # <<>>
      <4>1. <<>> \in DOMAIN e /\ ~IsPrefix(p, <<>>)
        BY <1>1, <1>2, <3>2, PathsOfTree, PrefixOrder
      <4> QED BY <1>5, <4>1
    <3> QED BY <3>1, <3>2
  <2>3. ASSUME NEW q \in outside, q # <<>>
        PROVE  Front(q) \in outside /\ m[Front(q)] = "object"
    <3>1. Front(q) \in DOMAIN e /\ e[Front(q)] = "object"
      BY <1>2, <2>3, PathsOfTree
    <3>2. q \in Paths /\ Front(q) \in Paths /\ IsPrefix(Front(q), q)
      BY <1>2, <2>3, FrontIs
    <3>3. ~IsPrefix(p, Front(q))
      BY <1>1, <2>3, <3>2, PrefixOrder
    <3> QED BY <1>6, <3>1, <3>3
  <2>4. ASSUME NEW r \in DOMAIN v, r # <<>>
        PROVE  Front(p \o r) \in DOMAIN m /\ m[Front(p \o r)] = "object"
    <3>1. Front(p \o r) = p \o Front(r)
      BY <1>1, <1>4, <2>4, Below
    <3>2. Front(r) \in DOMAIN v /\ v[Front(r)] = "object"
      BY <2>4, PathsOfTree
    <3> QED BY <1>7, <3>1, <3>2
  <2>5. ASSUME p # <<>> PROVE Front(p) \in DOMAIN m /\ m[Front(p)] = "object"
    <3>1. Front(p) \in DOMAIN e /\ e[Front(p)] = "object"
      BY <1>2, <2>5, PathsOfTree
    <3>2. ~IsPrefix(p, Front(p))
      <4>1. Front(p) \in Paths /\ IsPrefix(Front(p), p) /\ Len(Front(p)) = Len(p) - 1
        BY <1>1, <2>5, FrontIs
      <4> QED BY <1>1, <4>1, PrefixIs
    <3> QED BY <1>5, <1>6, <3>1, <3>2
  <2>6. ASSUME NEW q \in DOMAIN m, q # <<>> PROVE Front(q) \in DOMAIN m /\ m[Front(q)] = "object"
    <3>1. CASE q \in outside
      BY <1>5, <2>3, <2>6, <3>1
    <3>2. CASE q \notin outside
      <4>1. PICK r \in DOMAIN v : q = p \o r
        BY <1>5, <3>2
      <4>2. CASE r = <<>>
        <5>1. q = p
          BY <1>1, <1>4, <4>1, <4>2, Below
        <5> QED BY <2>5, <2>6, <5>1
      <4> QED BY <2>4, <4>1, <4>2
    <3> QED BY <3>1, <3>2
  <2> HIDE DEF outside
  <2> QED BY <1>5, <2>1, <2>2, <2>6 DEF IsTree, Paths
<1> QED BY <1>1, <1>3, <1>7, <1>8, <1>9, <1>10 DEF p

-----------------------------------------------------------------------------
(***************************************************************************)
(* Types: the document, the files and what a call carries stay trees.      *)
(***************************************************************************)
TypeInv == TypeOK

FileType(file) == file.whole \in BOOLEAN /\ IsTree(file.doc)
JobType(call) ==
    /\ call.op \in {"none", "merge", "dump", "close"}
    /\ call.file \in Files \cup {""}
    /\ IsTree(call.doc)

LEMMA InitType == Init => TypeInv
<1> SUFFICES ASSUME Init PROVE TypeInv
  OBVIOUS
<1>1. IsTree(Leaf("null"))
  BY LeafIsTree
<1>2. StoreTypeOK
  <2>1. 0 \in 0..MaxCalls /\ DOMAIN Initial = Files
        /\ \A f \in Files : Initial[f].whole \in BOOLEAN /\ IsTree(Initial[f].doc)
    BY StoreAssumption
  <2> QED BY <1>1, <2>1 DEF Init, StoreInit, StoreTypeOK, NoCall
<1>3. 0 \in 0..Len(AppTasks) /\ 1 \in 1..MaxRuns
  BY ApplicationAssumption
<1> QED BY <1>2, <1>3 DEF Init, ProcessInit, TypeInv, TypeOK

LEMMA EndsKeepsType ==
    ASSUME TypeInv, NEW how, Ends(how), how \in {"returned", "killed"}, signalled' \in BOOLEAN
    PROVE  TypeInv'
<1>1. IsTree(Leaf("null"))
  BY LeafIsTree
<1>2. StoreTypeOK'
  BY <1>1 DEF TypeInv, TypeOK, StoreTypeOK, Ends, NoCall
<1> QED BY <1>2 DEF TypeInv, TypeOK, Ends

LEMMA MainKeepsType ==
    ASSUME TypeInv, MainStep \/ Dies \/ Restart PROVE TypeInv'
<1>1. IsTree(Leaf("null")) /\ 0 \in 0..Len(AppTasks)
  BY LeafIsTree, ApplicationAssumption
<1>2. CASE MainLoads
  <2>1. PICK f \in unread :
          /\ unread' = unread \ {f}
          /\ \/ /\ m_json' = IF IsConfig(f) /\ files[f].whole
                              THEN MergePatch(m_json, files[f].doc) ELSE m_json
                /\ phase' = IF IsConfig(f) /\ ~files[f].whole THEN "unparsed" ELSE "load"
             \/ IsConfig(f) /\ phase' = "unopened" /\ UNCHANGED m_json
    BY <1>2 DEF MainLoads
  <2>2. f \in Files /\ IsTree(m_json) /\ IsTree(files[f].doc)
    BY DEF TypeInv, TypeOK, StoreTypeOK
  <2>3. IsTree(m_json')
    BY <2>1, <2>2, MergedTree
  <2> QED BY <1>2, <2>1, <2>3 DEF MainLoads, TypeInv, TypeOK, StoreTypeOK
<1>3. CASE MainHasLoaded
  BY <1>3 DEF MainHasLoaded, TypeInv, TypeOK, StoreTypeOK, storeVars
<1>4. CASE MainDispatches
  <2>1. dispatched' \in 0..Len(AppTasks) /\ dispatched' \in Tasks
    BY <1>4, ApplicationAssumption DEF MainDispatches, TypeInv, TypeOK, Tasks
  <2> QED BY <1>4, <2>1 DEF MainDispatches, TypeInv, TypeOK, StoreTypeOK, storeVars
<1>5. CASE MainWaits
  BY <1>5 DEF MainWaits, TypeInv, TypeOK, StoreTypeOK, storeVars
<1>6. CASE MainReturns
  BY <1>6, EndsKeepsType DEF MainReturns, TypeInv, TypeOK
<1>7. CASE Dies
  BY <1>7, EndsKeepsType DEF Dies, TypeInv, TypeOK
<1>8. CASE Restart
  <2>1. runs' \in 1..MaxRuns
    BY <1>8, ApplicationAssumption DEF Restart, TypeInv, TypeOK
  <2>2. StoreTypeOK'
    BY <1>1, <1>8 DEF Restart, TypeInv, TypeOK, StoreTypeOK
  <2> QED BY <1>1, <1>8, <2>1, <2>2 DEF Restart, TypeInv, TypeOK
<1> QED BY <1>2, <1>3, <1>4, <1>5, <1>6, <1>7, <1>8 DEF MainStep

LEMMA TasksKeepType ==
    ASSUME TypeInv, (\E s \in Signals : SignalComes(s)) \/ (\E t \in Tasks : TaskStep(t))
    PROVE  TypeInv'
<1>1. ASSUME NEW s \in Signals, SignalComes(s) PROVE TypeInv'
  <2>1. CASE Ends("killed")
    BY <1>1, <2>1, EndsKeepsType DEF SignalComes
  <2>2. CASE /\ terminate_' = Terminates(s)
             /\ UNCHANGED <<storeVars, phase, unread, dispatched, task, handled, cut, runs>>
    BY <1>1, <2>2 DEF SignalComes, TypeInv, TypeOK, StoreTypeOK, storeVars, Terminates
  <2> QED BY <1>1, <2>1, <2>2 DEF SignalComes
<1>2. ASSUME NEW t \in Tasks, TaskStep(t) PROVE TypeInv'
  <2>1. StoreTypeOK'
    BY <1>2 DEF TypeInv, TypeOK, StoreTypeOK, storeVars, TaskStep, Moves, TaskStarts, InitReturns,
                InitThrows, Constructs, Registers, FindsHandler, StopsWaiting, CleanupEnds
  <2> QED BY <1>2, <2>1 DEF TypeInv, TypeOK, Signals, TaskStep, Moves, TaskStarts, InitReturns,
                InitThrows, Constructs, Registers, FindsHandler, StopsWaiting, CleanupEnds
<1> QED BY <1>1, <1>2

LEMMA UserKeepsType ==
    ASSUME TypeInv, NEW u \in Users, UserStep(u) PROVE TypeInv'
<1>1. IsTree(Leaf("null"))
  BY LeafIsTree
<1>2. cut' \in BOOLEAN
  BY DEF UserStep, TypeInv, TypeOK, StoreTypeOK
<1>3. SUFFICES StoreTypeOK'
  BY <1>2 DEF UserStep, TypeInv, TypeOK
<1>4. MaxCalls \in Nat /\ JsonFiles \subseteq Files
  BY StoreAssumption
<1>5. /\ IsTree(m_json) /\ DOMAIN files = Files /\ DOMAIN job = Users
      /\ \A f \in Files : FileType(files[f])
      /\ \A w \in Users : JobType(job[w])
      /\ made \in 0..MaxCalls
  BY DEF TypeInv, TypeOK, StoreTypeOK, FileType, JobType
<1>6. SUFFICES /\ IsTree(m_json') /\ DOMAIN files' = Files /\ DOMAIN job' = Users
               /\ \A f \in Files : FileType(files'[f])
               /\ \A w \in Users : JobType(job'[w])
               /\ made' \in 0..MaxCalls
  BY DEF StoreTypeOK, FileType, JobType
<1>7. FileType(Torn) /\ JobType(NoCall)
  BY <1>1 DEF FileType, JobType, Torn, NoCall
<1>8. Begins(u) => made' \in 0..MaxCalls
  BY <1>4, <1>5 DEF Begins
<1>9. ASSUME NEW s \in Settings, UserSets(u, s) PROVE <1>6!1
  <2>1. s.path \in Paths /\ IsTree(s.value)
    BY StoreAssumption DEF Paths
  <2>2. IsTree(m_json')
    BY <1>5, <1>9, <2>1, WithValueIs DEF UserSets
  <2> QED BY <1>5, <1>8, <1>9, <2>2 DEF UserSets
<1>10. ASSUME NEW f \in JsonFiles, LoadParses(u, f) PROVE <1>6!1
  <2>1. JobType([op |-> "merge", file |-> f, doc |-> files[f].doc])
    BY <1>4, <1>5 DEF FileType, JobType
  <2> QED BY <1>5, <1>8, <1>10, <2>1 DEF LoadParses, Goes
<1>11. ASSUME NEW f \in JsonFiles, SaveOpens(u, f) PROVE <1>6!1
  <2>1. JobType([op |-> "dump", file |-> f, doc |-> Leaf("null")])
    BY <1>1, <1>4 DEF JobType
  <2> QED BY <1>5, <1>7, <1>8, <1>11, <2>1 DEF SaveOpens, Goes
<1>12. CASE LoadMerges(u)
  <2>1. IsTree(m_json')
    BY <1>5, <1>12, MergedTree DEF LoadMerges, JobType
  <2> QED BY <1>5, <1>7, <1>12, <2>1 DEF LoadMerges, Returns
<1>13. CASE SaveDumps(u)
  <2>1. JobType([op |-> "close", file |-> job[u].file, doc |-> m_json])
    BY <1>5 DEF JobType
  <2> QED BY <1>5, <1>13, <2>1 DEF SaveDumps, Goes
<1>14. CASE SaveThrows(u) \/ SaveNotFlushed(u)
  BY <1>5, <1>7, <1>14 DEF SaveThrows, SaveNotFlushed, Returns
<1>16. CASE CallFails(u)
  BY <1>5, <1>8, <1>16 DEF CallFails
<1>15. CASE SaveCloses(u)
  <2>1. FileType([whole |-> TRUE, doc |-> job[u].doc])
    BY <1>5 DEF FileType, JobType
  <2> QED BY <1>5, <1>7, <1>15, <2>1 DEF SaveCloses, Returns
<1> QED BY <1>9, <1>10, <1>11, <1>12, <1>13, <1>14, <1>15, <1>16 DEF UserStep

LEMMA NextKeepsType == TypeInv /\ [Next]_vars => TypeInv'
<1> SUFFICES ASSUME TypeInv, [Next]_vars PROVE TypeInv'
  OBVIOUS
<1>1. CASE UNCHANGED vars
  BY <1>1 DEF vars, storeVars, appVars, TypeInv, TypeOK, StoreTypeOK
<1> QED BY <1>1, MainKeepsType, TasksKeepType, UserKeepsType DEF Next

\* Types: however the configuration is merged, set, saved and loaded again,
\* what the manager holds is a tree: a key lies only below an object
\* (CConfigManager.cpp:43), whatever the documents and the paths.
THEOREM TypeCorrect == Spec => []TypeOK
<1>1. TypeInv => TypeOK
  BY DEF TypeInv
<1> QED BY <1>1, InitType, NextKeepsType, PTL DEF Spec

-----------------------------------------------------------------------------
\* What has been set is what is read.
LEMMA ReadBack ==
    ASSUME NEW d, IsTree(d), NEW path \in Paths, NEW v, IsTree(v)
    PROVE  ValueAt(WithValue(d, path, v), path) = v
<1> DEFINE p == KeysOf(path)
           m == WithValue(d, path, v)
           under == {SubSeq(r, Len(p) + 1, Len(r)) : r \in {r \in DOMAIN m : IsPrefix(p, r)}}
<1>1. /\ p \in Paths
      /\ \A r \in DOMAIN v : p \o r \in DOMAIN m /\ m[p \o r] = v[r]
      /\ \A q \in DOMAIN m : IsPrefix(p, q) => \E r \in DOMAIN v : q = p \o r
  BY WithValueIs
<1>2. ValueAt(m, path) = [q \in under |-> m[p \o q]]
  BY DEF ValueAt
<1> HIDE DEF p, m
<1>3. \A r \in DOMAIN v : r \in Paths
  BY PathsOfTree
<1>4. \A r \in DOMAIN v : IsPrefix(p, p \o r) /\ SubSeq(p \o r, Len(p) + 1, Len(p \o r)) = r
  BY <1>1, <1>3, Below
<1>5. under = DOMAIN v
  <2>1. ASSUME NEW r \in DOMAIN v PROVE r \in under
    BY <1>1, <1>4
  <2>2. ASSUME NEW q \in DOMAIN m, IsPrefix(p, q) PROVE SubSeq(q, Len(p) + 1, Len(q)) \in DOMAIN v
    BY <1>1, <1>4, <2>2
  <2> QED BY <2>1, <2>2
<1> HIDE DEF under
<1>6. v = [q \in DOMAIN v |-> v[q]]
  BY PathsOfTree
<1> QED BY <1>1, <1>2, <1>5, <1>6 DEF m

\* A setting is read back as it was set, and no path that is neither above nor
\* below it is touched (CConfigManager.cpp:15 to 75, 193): for documents of
\* any size, and paths and values of any depth.
THEOREM SettingIsLocal == Spec => SetIsLocal
<1> DEFINE Local == \A u \in Users, s \in Settings :
                      UserStep(u) /\ UserSets(u, s) =>
                        /\ ValueAt(m_json', s.path) = s.value
                        /\ \A q \in DOMAIN m_json \cup DOMAIN m_json' :
                              Comparable(q, KeysOf(s.path)) \/
                              (q \in DOMAIN m_json \cap DOMAIN m_json' /\ m_json[q] = m_json'[q])
<1>1. ASSUME TypeInv PROVE Local
  <2> SUFFICES ASSUME NEW u \in Users, NEW s \in Settings, UserSets(u, s)
               PROVE  /\ ValueAt(m_json', s.path) = s.value
                      /\ \A q \in DOMAIN m_json \cup DOMAIN m_json' :
                            Comparable(q, KeysOf(s.path)) \/
                            (q \in DOMAIN m_json \cap DOMAIN m_json' /\ m_json[q] = m_json'[q])
    OBVIOUS
  <2>1. s.path \in Paths /\ IsTree(s.value)
    BY StoreAssumption DEF Paths
  <2>2. IsTree(m_json) /\ m_json' = WithValue(m_json, s.path, s.value)
    BY <1>1 DEF TypeInv, TypeOK, StoreTypeOK, UserSets
  <2>3. ValueAt(m_json', s.path) = s.value
    BY <2>1, <2>2, ReadBack
  <2> QED BY <2>1, <2>2, <2>3, WithValueIs
<1> HIDE DEF Local
<1>2. TypeInv /\ [Next]_vars => [Local]_vars
  BY <1>1
<1>3. SetIsLocal <=> [][Local]_vars
  BY DEF SetIsLocal, Local
<1> QED BY <1>2, <1>3, InitType, NextKeepsType, PTL DEF Spec

-----------------------------------------------------------------------------
(***************************************************************************)
(* The start of a process: while main loads the directory nobody else      *)
(* works on the store, so that a file is broken only if a save was cut.    *)
(***************************************************************************)
StartsAlone ==
    /\ phase = "load" => dispatched = 0
    /\ phase = "dispatch" => unread = {}
    /\ \A t \in Tasks : t > dispatched => task[t] = "absent"
    /\ \A u \in Users : job[u].op # "none" => UsersRun

BrokenFilesAreCut ==
    /\ phase = "unparsed" => cut
    /\ \A f \in JsonFiles : ~files[f].whole => cut \/ Saving(f)

Loading == phase = "load" \/ (phase = "dispatch" /\ dispatched = 0)
LoadedFilesCount == Loading => \A f \in JsonFiles \ unread : FileCounts(f)

StartInv == TypeInv /\ StartsAlone /\ BrokenFilesAreCut /\ LoadedFilesCount

LEMMA UsersComeLater ==
    ASSUME TypeInv, StartsAlone, UsersRun
    PROVE  ~Loading /\ dispatched # 0 /\ phase # "load" /\ phase # "unparsed"
<1>1. PICK t \in Tasks : task[t] # "absent"
  BY DEF UsersRun
<1>2. t \in Nat /\ t > 0
  BY ApplicationAssumption DEF Tasks
<1>3. ~(t > dispatched)
  BY <1>1 DEF StartsAlone
<1> QED BY <1>2, <1>3 DEF StartsAlone, UsersRun, Alive, Loading

\* A file that main merges counts, and those merged before it still do.
LEMMA MergeCounts ==
    ASSUME TypeInv, NEW f \in JsonFiles, files' = files,
           m_json' = MergePatch(m_json, files[f].doc)
    PROVE  FileCounts(f)' /\ \A g \in JsonFiles : FileCounts(g) => FileCounts(g)'
<1> DEFINE patch == files[f].doc
           kept == {p \in DOMAIN m_json : \A q \in DOMAIN patch : IsPrefix(q, p) => patch[q] = "object"}
           given == {p \in DOMAIN patch : patch[p] # "null"}
<1>1. IsTree(m_json) /\ IsTree(patch)
  BY StoreAssumption DEF TypeInv, TypeOK, StoreTypeOK
<1>2. /\ DOMAIN m_json \subseteq Paths /\ DOMAIN patch \subseteq Paths
      /\ <<>> \in DOMAIN patch
  BY <1>1, PathsOfTree
<1> HIDE DEF patch
<1>3. patch[<<>>] # "object" => m_json' = patch
  BY DEF MergePatch, patch
<1>4. patch[<<>>] = "object" =>
        /\ DOMAIN m_json' = kept \cup given
        /\ \A p \in kept \cup given : m_json'[p] = IF p \in given THEN patch[p] ELSE m_json[p]
  BY DEF MergePatch, patch
<1>5. ASSUME NEW p \in DOMAIN patch, patch[p] \notin {"object", "null"}
      PROVE  p \in DOMAIN m_json' /\ m_json'[p] = patch[p]
  BY <1>3, <1>4, <1>5
<1>6. FileCounts(f)'
  BY <1>5 DEF FileCounts, patch
<1>7. ASSUME NEW g \in JsonFiles, g # f, FileCounts(g) PROVE FileCounts(g)'
  <2>1. SUFFICES ASSUME NEW p \in DOMAIN files[g].doc, NEW v, v = files[g].doc[p],
                        v \notin {"object", "null"},
                        \A h \in JsonFiles \ {g} : ~Contests(h, p, v)
                 PROVE  p \in DOMAIN m_json' /\ m_json'[p] = v
    BY DEF FileCounts, Contests
  <2>2. p \in DOMAIN m_json /\ m_json[p] = v /\ p \in Paths
    BY <1>2, <1>7, <2>1 DEF FileCounts
  <2>3. ASSUME NEW q \in DOMAIN patch, Comparable(p, q)
        PROVE  (q = p /\ patch[q] = v) \/ (IsStrictPrefix(q, p) /\ patch[q] = "object")
    <3>1. ~Contests(f, p, v)
      BY <1>7, <2>1
    <3> QED BY <2>3, <3>1 DEF Contests, patch
  <2>4. IsPrefix(<<>>, p)
    BY <2>2, PrefixOrder
  <2>5. CASE patch[<<>>] # "object"
    <3>1. p = <<>> /\ patch[p] = v
      BY <1>2, <2>3, <2>4, <2>5 DEF Comparable
    <3> QED BY <1>2, <1>3, <2>5, <3>1
  <2>6. CASE patch[<<>>] = "object"
    <3>1. CASE p \in DOMAIN patch
      <4>1. patch[p] = v
        BY <2>2, <2>3, <3>1, PrefixOrder DEF Comparable, IsStrictPrefix
      <4> QED BY <1>5, <2>1, <3>1, <4>1
    <3>2. CASE p \notin DOMAIN patch
      <4>1. \A q \in DOMAIN patch : IsPrefix(q, p) => patch[q] = "object"
        BY <2>3, <3>2 DEF Comparable
      <4> QED BY <1>4, <2>2, <2>6, <3>2, <4>1
    <3> QED BY <3>1, <3>2
  <2> QED BY <2>5, <2>6
<1> QED BY <1>6, <1>7

LEMMA InitStart == Init => StartInv
<1> SUFFICES ASSUME Init PROVE StartInv
  OBVIOUS
<1>1. \A f \in JsonFiles : Initial[f].whole /\ f \in Files
  BY StoreAssumption
<1>2. StartsAlone
  BY DEF Init, StoreInit, ProcessInit, StartsAlone, NoCall
<1>3. BrokenFilesAreCut
  BY <1>1 DEF Init, StoreInit, ProcessInit, BrokenFilesAreCut
<1>4. LoadedFilesCount
  BY <1>1 DEF Init, ProcessInit, LoadedFilesCount
<1> QED BY <1>2, <1>3, <1>4, InitType DEF StartInv

LEMMA EndsKeepsStart ==
    ASSUME StartInv, NEW how, Ends(how), how \in {"returned", "killed"}
    PROVE  StartsAlone' /\ BrokenFilesAreCut' /\ LoadedFilesCount'
<1> USE DEF StartInv
<1>1. StartsAlone'
  BY DEF StartsAlone, Ends, NoCall
<1>2. BrokenFilesAreCut'
  BY StoreAssumption DEF BrokenFilesAreCut, Ends
<1>3. LoadedFilesCount'
  BY DEF LoadedFilesCount, Loading, Ends
<1> QED BY <1>1, <1>2, <1>3

LEMMA MainKeepsStart ==
    ASSUME StartInv, MainStep \/ Dies \/ Restart
    PROVE  StartsAlone' /\ BrokenFilesAreCut' /\ LoadedFilesCount'
<1> USE DEF StartInv
<1>1. CASE MainLoads
  <2>1. PICK f \in unread :
          /\ unread' = unread \ {f}
          /\ \/ /\ m_json' = IF IsConfig(f) /\ files[f].whole
                              THEN MergePatch(m_json, files[f].doc) ELSE m_json
                /\ phase' = IF IsConfig(f) /\ ~files[f].whole THEN "unparsed" ELSE "load"
             \/ IsConfig(f) /\ phase' = "unopened" /\ UNCHANGED m_json
    BY <1>1 DEF MainLoads
  <2>2. phase = "load" /\ UNCHANGED <<files, job, made, dispatched, task, handled, terminate_, signalled, cut, runs>>
    BY <1>1 DEF MainLoads
  <2>3. ~UsersRun
    BY <2>2, UsersComeLater
  <2>4. \A u \in Users : job[u].op = "none"
    BY <2>3 DEF StartsAlone
  <2>5. StartsAlone'
    BY <2>1, <2>2, <2>4 DEF StartsAlone
  <2>6. BrokenFilesAreCut'
    BY <2>1, <2>2, <2>4 DEF BrokenFilesAreCut, IsConfig, Saving
  <2>7. LoadedFilesCount'
    <3>0. CASE phase' = "unopened"
      BY <3>0 DEF LoadedFilesCount, Loading
    <3>1. CASE f \in JsonFiles /\ files[f].whole /\ phase' # "unopened"
      <4>1. m_json' = MergePatch(m_json, files[f].doc)
        BY <2>1, <3>1 DEF IsConfig
      <4> QED BY <2>1, <2>2, <3>1, <4>1, MergeCounts DEF LoadedFilesCount, Loading
    <3>2. CASE f \in JsonFiles /\ ~files[f].whole
      BY <2>1, <3>2 DEF LoadedFilesCount, Loading, IsConfig
    <3>3. CASE f \notin JsonFiles
      BY <2>1, <2>2, <3>3 DEF LoadedFilesCount, Loading, IsConfig, FileCounts, Contests
    <3> QED BY <3>0, <3>1, <3>2, <3>3
  <2> QED BY <2>5, <2>6, <2>7
<1>2. CASE MainHasLoaded
  <2>1. \A f \in JsonFiles : FileCounts(f) <=> FileCounts(f)'
    BY <1>2 DEF MainHasLoaded, FileCounts, Contests, storeVars
  <2>2. UsersRun => UsersRun'
    BY <1>2 DEF MainHasLoaded, UsersRun, Alive
  <2>3. StartsAlone'
    BY <1>2, <2>2 DEF MainHasLoaded, StartsAlone, storeVars
  <2> QED BY <1>2, <2>1, <2>3 DEF MainHasLoaded, BrokenFilesAreCut, Saving, LoadedFilesCount, Loading, storeVars
<1>3. CASE MainDispatches
  <2>1. dispatched' = dispatched + 1 /\ dispatched \in Nat /\ task[dispatched'] = "absent" /\ dispatched' \in Tasks
    BY <1>3, ApplicationAssumption DEF MainDispatches, TypeInv, TypeOK, Tasks, StartsAlone
  <2>2. \A t \in Tasks : t # dispatched' => task'[t] = task[t]
    BY <1>3, <2>1 DEF MainDispatches, TypeInv, TypeOK
  <2>3. UsersRun => UsersRun'
    BY <1>3, <2>1, <2>2 DEF MainDispatches, UsersRun, Alive
  <2>4. StartsAlone'
    BY <1>3, <2>1, <2>2, <2>3 DEF MainDispatches, StartsAlone, storeVars, Tasks
  <2> QED BY <1>3, <2>1, <2>4 DEF MainDispatches, BrokenFilesAreCut, Saving, LoadedFilesCount, Loading, storeVars
<1>4. CASE MainWaits
  <2>1. UsersRun => UsersRun'
    BY <1>4 DEF MainWaits, UsersRun, Alive
  <2>2. StartsAlone'
    BY <1>4, <2>1 DEF MainWaits, StartsAlone, storeVars
  <2> QED BY <1>4, <2>2 DEF MainWaits, BrokenFilesAreCut, Saving, LoadedFilesCount, Loading, storeVars
<1>5. CASE MainReturns \/ Dies
  BY <1>5, EndsKeepsStart DEF MainReturns, Dies
<1>6. CASE Restart
  <2>1. \A u \in Users : job[u].op = "none"
    BY <1>6 DEF Restart, StartsAlone, UsersRun
  <2>2. StartsAlone'
    BY <1>6, <2>1 DEF Restart, StartsAlone
  <2>3. BrokenFilesAreCut'
    BY <1>6 DEF Restart, BrokenFilesAreCut, Saving
  <2> QED BY <1>6, <2>2, <2>3, StoreAssumption DEF Restart, LoadedFilesCount
<1> QED BY <1>1, <1>2, <1>3, <1>4, <1>5, <1>6 DEF MainStep

LEMMA TasksKeepStart ==
    ASSUME StartInv, (\E s \in Signals : SignalComes(s)) \/ (\E t \in Tasks : TaskStep(t))
    PROVE  StartsAlone' /\ BrokenFilesAreCut' /\ LoadedFilesCount'
<1> USE DEF StartInv
<1>1. CASE Ends("killed")
  BY <1>1, EndsKeepsStart
<1>2. ASSUME /\ UNCHANGED <<storeVars, phase, unread, dispatched, cut>>
             /\ \A t \in Tasks :
                    task'[t] = task[t] \/ (task[t] # "absent" /\ task'[t] \notin {"absent", "queued"})
      PROVE  StartsAlone' /\ BrokenFilesAreCut' /\ LoadedFilesCount'
  <2>1. UsersRun => UsersRun'
    BY <1>2 DEF UsersRun, Alive
  <2>2. StartsAlone'
    BY <1>2, <2>1 DEF StartsAlone, storeVars
  <2>3. \A f \in JsonFiles : FileCounts(f) <=> FileCounts(f)'
    BY <1>2 DEF FileCounts, Contests, storeVars
  <2> QED BY <1>2, <2>2, <2>3 DEF BrokenFilesAreCut, Saving, LoadedFilesCount, Loading, storeVars
<1>3. ASSUME NEW s \in Signals, SignalComes(s) PROVE StartsAlone' /\ BrokenFilesAreCut' /\ LoadedFilesCount'
  BY <1>1, <1>2, <1>3 DEF SignalComes
<1>4. ASSUME NEW t \in Tasks, TaskStep(t) PROVE StartsAlone' /\ BrokenFilesAreCut' /\ LoadedFilesCount'
  <2>1. /\ UNCHANGED <<storeVars, phase, unread, dispatched, cut>>
        /\ task[t] # "absent"
        /\ \E to \in {"init", "register", "building", "waiting", "cleanup", "done", "threw"} :
              task' = [task EXCEPT ![t] = to]
    BY <1>4 DEF TaskStep, Moves, TaskStarts, InitReturns,
                InitThrows, Constructs, Registers, FindsHandler, StopsWaiting, CleanupEnds
  <2>2. \A w \in Tasks :
          task'[w] = task[w] \/ (task[w] # "absent" /\ task'[w] \notin {"absent", "queued"})
    BY <2>1 DEF TypeInv, TypeOK
  <2> QED BY <1>2, <2>1, <2>2
<1> QED BY <1>3, <1>4

LEMMA UserKeepsStart ==
    ASSUME StartInv, NEW u \in Users, UserStep(u)
    PROVE  StartsAlone' /\ BrokenFilesAreCut' /\ LoadedFilesCount'
<1> USE DEF StartInv
<1>1. UsersRun /\ UsersRun' /\ UNCHANGED <<phase, unread, dispatched, task>>
  BY DEF UserStep, UsersRun, Alive
<1>2. ~Loading /\ ~Loading' /\ phase # "unparsed"
  BY <1>1, UsersComeLater DEF Loading
<1>3. StartsAlone'
  BY <1>1 DEF StartsAlone
<1>4. DOMAIN files = Files /\ DOMAIN job = Users /\ JsonFiles \subseteq Files
  BY StoreAssumption DEF TypeInv, TypeOK, StoreTypeOK
<1>5. ASSUME NEW f \in JsonFiles, ~files'[f].whole PROVE cut' \/ Saving(f)'
  <2>0. ~files[f].whole => cut \/ Saving(f)
    BY DEF BrokenFilesAreCut
  <2>1. ASSUME files' = files, cut' = cut,
               \A w \in Users : w # u => job'[w] = job[w],
               job[u].op \in {"dump", "close"} =>
                  job'[u].op \in {"dump", "close"} /\ job'[u].file = job[u].file
        PROVE  cut' \/ Saving(f)'
    BY <1>5, <2>0, <2>1 DEF Saving
  <2>2. ASSUME (\E s \in Settings : UserSets(u, s)) \/ CallFails(u), UNCHANGED cut
        PROVE  cut' \/ Saving(f)'
    BY <2>1, <2>2 DEF UserSets, CallFails
  <2>3. ASSUME NEW g \in JsonFiles, LoadParses(u, g), UNCHANGED cut PROVE cut' \/ Saving(f)'
    BY <1>4, <2>1, <2>3 DEF LoadParses, Begins, Goes
  <2>4. ASSUME NEW g \in JsonFiles, SaveOpens(u, g), UNCHANGED cut PROVE cut' \/ Saving(f)'
    <3>1. job'[u].op = "dump" /\ job'[u].file = g /\ \A w \in Users : w # u => job'[w] = job[w]
      BY <1>4, <2>4 DEF SaveOpens, Goes
    <3>2. CASE f = g
      BY <3>1, <3>2 DEF Saving
    <3>3. CASE f # g
      <4>1. files'[f] = files[f] /\ job[u].op = "none"
        BY <1>4, <2>4, <3>3 DEF SaveOpens, Begins
      <4> QED BY <1>5, <2>0, <2>4, <3>1, <4>1 DEF Saving
    <3> QED BY <3>2, <3>3
  <2>5. CASE LoadMerges(u) /\ UNCHANGED cut
    BY <1>4, <2>1, <2>5 DEF LoadMerges, Returns
  <2>6. CASE SaveDumps(u) /\ UNCHANGED cut
    BY <1>4, <2>1, <2>6 DEF SaveDumps, Goes
  <2>7. CASE (SaveThrows(u) \/ SaveNotFlushed(u)) /\ cut' = TRUE
    BY <2>7
  <2>8. CASE SaveCloses(u) /\ cut' = (cut \/ files[job[u].file].whole)
    <3>1. files' = [files EXCEPT ![job[u].file] = [whole |-> TRUE, doc |-> job[u].doc]]
            \/ cut'
      BY <2>8 DEF SaveCloses
    <3>2. CASE files' = [files EXCEPT ![job[u].file] = [whole |-> TRUE, doc |-> job[u].doc]]
      <4>1. f # job[u].file /\ files'[f] = files[f]
        BY <1>4, <1>5, <3>2
      <4>2. \A w \in Users : w # u => job'[w] = job[w]
        BY <1>4, <2>8 DEF SaveCloses, Returns
      <4> QED BY <1>5, <2>0, <2>8, <4>1, <4>2 DEF Saving
    <3> QED BY <3>1, <3>2
  <2> QED BY <2>2, <2>3, <2>4, <2>5, <2>6, <2>7, <2>8 DEF UserStep
<1>6. BrokenFilesAreCut'
  BY <1>1, <1>2, <1>5 DEF BrokenFilesAreCut
<1> QED BY <1>2, <1>3, <1>6 DEF LoadedFilesCount

LEMMA NextKeepsStart == StartInv /\ [Next]_vars => StartInv'
<1> SUFFICES ASSUME StartInv, [Next]_vars PROVE StartInv'
  OBVIOUS
<1>1. TypeInv'
  BY NextKeepsType DEF StartInv
<1>2. CASE UNCHANGED vars
  <2>1. \A f \in JsonFiles : FileCounts(f) <=> FileCounts(f)'
    BY <1>2 DEF FileCounts, Contests, vars, storeVars
  <2>2. UsersRun => UsersRun'
    BY <1>2 DEF UsersRun, Alive, vars, appVars
  <2> QED BY <1>1, <1>2, <2>1, <2>2 DEF StartInv, StartsAlone, BrokenFilesAreCut, Saving, LoadedFilesCount,
             Loading, vars, storeVars, appVars
<1> QED BY <1>1, <1>2, MainKeepsStart, TasksKeepStart, UserKeepsStart DEF Next, StartInv

\* A configuration that main can open but not parse was cut short by a save:
\* by the end of the process that saved it, by a text it could not dump, by a
\* flush that failed, or by another save of the same file
\* (CConfigManager.cpp:119, 147), for any number of files, users and restarts.
THEOREM UnparsedFilesWereCut == Spec => []ParsesUnlessCut
<1>1. StartInv => ParsesUnlessCut
  BY DEF StartInv, BrokenFilesAreCut, ParsesUnlessCut
<1> QED BY <1>1, InitStart, NextKeepsStart, PTL DEF Spec

\* A setting that only one file mentions is in force when main starts the
\* tasks, in whatever order the directory yields the files, and whatever
\* earlier processes have saved to them (CConfigLoader.h:15,
\* CConfigManager.cpp:124): for any number of files of any content.
THEOREM NoFileIsLost == Spec => []EveryFileCounts
<1>1. StartInv => EveryFileCounts
  BY DEF StartInv, StartsAlone, LoadedFilesCount, Loading, EveryFileCounts
<1> QED BY <1>1, InitStart, NextKeepsStart, PTL DEF Spec
=============================================================================
