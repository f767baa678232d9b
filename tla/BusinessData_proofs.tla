------------------------ MODULE BusinessData_proofs ------------------------
(***************************************************************************)
(* The check code of CBusinessDataUtil.h is what exact arithmetic gives,   *)
(* for every width of the code and every time.  Each recursive function is *)
(* shown to exist once (Recursion), so that its equations can be used; the *)
(* rest is congruences: the fold keeps the bytes modulo ten times M, the   *)
(* digits that are kept drop a multiple of M, and so does the sum.         *)
(***************************************************************************)
EXTENDS BusinessData, SequenceTheorems, WellFoundedInduction, TLAPS

\* Induction over the natural numbers, for a set of them.
LEMMA NatSet ==
    ASSUME NEW S, 0 \in S, \A n \in Nat : n \in S => n + 1 \in S
    PROVE  Nat \subseteq S
<1> DEFINE T == Nat \ S
<1>1. ASSUME T # {} PROVE FALSE
  <2>1. IsWellFoundedOn(OpToRel(<, Nat), Nat)
    BY NatLessThanWellFounded
  <2>2. \E n \in T : \A m \in T : <<m, n>> \notin OpToRel(<, Nat)
    <3>1. T \subseteq Nat
      OBVIOUS
    <3> HIDE DEF T
    <3> QED BY <1>1, <2>1, <3>1, WFMin
  <2>3. PICK n \in T : \A m \in T : <<m, n>> \notin OpToRel(<, Nat)
    BY <2>2
  <2>4. n # 0 /\ n \in Nat /\ n - 1 \in Nat
    OBVIOUS
  <2>5. <<n - 1, n>> \in OpToRel(<, Nat)
    BY <2>4 DEF OpToRel
  <2>6. n - 1 \in S
    BY <2>3, <2>4, <2>5
  <2> QED BY <2>4, <2>6
<1> QED BY <1>1

\* What holds of 0, and of k with k - 1, holds up to n.
LEMMA UpTo ==
    ASSUME NEW n \in Nat, NEW P, 0 \in P, \A k \in 1..n : k - 1 \in P => k \in P
    PROVE  \A k \in 0..n : k \in P
<1> DEFINE S == {k \in Nat : k <= n => k \in P}
<1>1. 0 \in S
  OBVIOUS
<1>2. ASSUME NEW k \in Nat, k \in S PROVE k + 1 \in S
  <2>1. SUFFICES ASSUME k + 1 <= n PROVE k + 1 \in P
    OBVIOUS
  <2>2. k \in P
    BY <1>2, <2>1
  <2>3. k + 1 \in 1..n /\ (k + 1) - 1 = k
    BY <2>1
  <2> QED BY <2>2, <2>3
<1> HIDE DEF S
<1>3. Nat \subseteq S
  BY <1>1, <1>2, NatSet
<1> QED BY <1>3 DEF S

\* A function defined by recursion exists, where every step has a value.
LEMMA Recursion ==
    ASSUME NEW n \in Nat, NEW base \in Int, NEW step \in [1..n -> [Int -> Int]]
    PROVE  \E g \in [0..n -> Int] : g = [k \in 0..n |-> IF k = 0 THEN base ELSE step[k][g[k - 1]]]
<1> DEFINE Is(m, g) == g = [k \in 0..m |-> IF k = 0 THEN base ELSE step[k][g[k - 1]]]
           P == {m \in Nat : \E g \in [0..m -> Int] : Is(m, g)}
<1>1. 0 \in P
  <2> DEFINE g == [k \in 0..0 |-> base]
  <2>1. g \in [0..0 -> Int] /\ Is(0, g)
    OBVIOUS
  <2> QED BY <2>1
<1>2. ASSUME NEW m \in 1..n, m - 1 \in P PROVE m \in P
  <2>1. PICK g \in [0..(m - 1) -> Int] : Is(m - 1, g)
    BY <1>2
  <2> DEFINE h == [k \in 0..m |-> IF k = m THEN step[m][g[m - 1]] ELSE g[k]]
  <2>2. g[m - 1] \in Int /\ step[m][g[m - 1]] \in Int
    OBVIOUS
  <2>3. h \in [0..m -> Int]
    BY <2>2
  <2>4. ASSUME NEW k \in 0..m
        PROVE  h[k] = IF k = 0 THEN base ELSE step[k][h[k - 1]]
    <3>1. CASE k = m
      BY <3>1
    <3>2. CASE k # m
      <4>1. k \in 0..(m - 1) /\ k - 1 # m /\ h[k] = g[k]
        BY <3>2
      <4>2. g[k] = IF k = 0 THEN base ELSE step[k][g[k - 1]]
        BY <2>1, <4>1
      <4>3. k # 0 => k - 1 \in 0..m
        BY <4>1
      <4> QED BY <4>1, <4>2, <4>3
    <3> QED BY <3>1, <3>2
  <2> HIDE DEF h
  <2>5. Is(m, h)
    BY <2>3, <2>4
  <2>6. m \in Nat
    OBVIOUS
  <2> HIDE DEF Is
  <2> QED BY <2>3, <2>5, <2>6
<1>3. \A m \in 0..n : m \in P
  <2> HIDE DEF P
  <2> QED BY <1>1, <1>2, UpTo
<1> HIDE DEF P
<1>4. n \in P
  BY <1>3
<1> QED BY <1>4 DEF P

-----------------------------------------------------------------------------
TenIsRec(g) == g = [k \in 0..(CodeWidth + 1) |-> IF k = 0 THEN 1 ELSE 10 * g[k - 1]]

LEMMA TenIs ==
    /\ Ten[0] = 1
    /\ \A k \in 1..(CodeWidth + 1) : Ten[k] = 10 * Ten[k - 1]
    /\ \A k \in 0..(CodeWidth + 1) : Ten[k] \in Nat \ {0}
<1> DEFINE N == CodeWidth + 1
           step == [k \in 1..N |-> [v \in Int |-> 10 * v]]
<1>0. N \in Nat
  BY WidthAssumption
<1>1. step \in [1..N -> [Int -> Int]]
  OBVIOUS
<1>2. \E g \in [0..N -> Int] : g = [k \in 0..N |-> IF k = 0 THEN 1 ELSE step[k][g[k - 1]]]
  <2> HIDE DEF step, N
  <2>1. 1 \in Int
    OBVIOUS
  <2> QED BY <1>0, <1>1, <2>1, Recursion
<1>3. PICK g \in [0..N -> Int] : g = [k \in 0..N |-> IF k = 0 THEN 1 ELSE step[k][g[k - 1]]]
  BY <1>2
<1>4. TenIsRec(g)
  <2>1. ASSUME NEW k \in 0..N, k # 0 PROVE step[k][g[k - 1]] = 10 * g[k - 1]
    <3>1. k \in 1..N /\ g[k - 1] \in Int
      BY <1>0, <2>1
    <3> QED BY <3>1
  <2> HIDE DEF step
  <2> QED BY <1>3, <2>1 DEF TenIsRec
<1>5. Ten = CHOOSE h : TenIsRec(h)
  BY DEF Ten, TenIsRec
<1>6. TenIsRec(Ten)
  BY <1>4, <1>5
<1>7. Ten[0] = 1 /\ \A k \in 1..N : Ten[k] = 10 * Ten[k - 1]
  <2>1. \A k \in 0..N : Ten[k] = IF k = 0 THEN 1 ELSE 10 * Ten[k - 1]
    BY <1>6 DEF TenIsRec
  <2> HIDE DEF N
  <2> QED BY <1>0, <2>1
<1> DEFINE P == {k \in 0..N : Ten[k] \in Nat \ {0}}
<1>8. 0 \in P
  BY <1>0, <1>7
<1>9. ASSUME NEW k \in 1..N, k - 1 \in P PROVE k \in P
  <2>1. Ten[k - 1] \in Nat \ {0} /\ Ten[k] = 10 * Ten[k - 1]
    BY <1>7, <1>9
  <2>2. Ten[k] \in Nat \ {0}
    BY <2>1
  <2> QED BY <1>0, <2>2
<1>10. \A k \in 0..N : k \in P
  <2> HIDE DEF P, N
  <2> QED BY <1>0, <1>8, <1>9, UpTo
<1> QED BY <1>7, <1>10

-----------------------------------------------------------------------------
\* The digits of a number, from the last to the first.
LEMMA DigitsAre ==
    ASSUME NEW n \in Int, NEW w \in Nat
    PROVE  \E left \in [0..w -> Int] :
              /\ left[0] = n
              /\ \A j \in 1..w : left[j] = left[j - 1] \div 10
              /\ Digits(n, w) = [i \in 1..w |-> 48 + (left[w - i] % 10)]
<1> DEFINE step == [k \in 1..w |-> [v \in Int |-> v \div 10]]
           LeftIs(g) == g = [j \in 0..w |-> IF j = 0 THEN n ELSE g[j - 1] \div 10]
           L == CHOOSE g : LeftIs(g)
<1>1. step \in [1..w -> [Int -> Int]]
  OBVIOUS
<1>2. \E g \in [0..w -> Int] : g = [k \in 0..w |-> IF k = 0 THEN n ELSE step[k][g[k - 1]]]
  <2> HIDE DEF step
  <2> QED BY <1>1, Recursion
<1>3. PICK g \in [0..w -> Int] : g = [k \in 0..w |-> IF k = 0 THEN n ELSE step[k][g[k - 1]]]
  BY <1>2
<1>4. LeftIs(g)
  <2>1. ASSUME NEW k \in 0..w, k # 0 PROVE step[k][g[k - 1]] = g[k - 1] \div 10
    <3>1. k \in 1..w /\ g[k - 1] \in Int
      BY <2>1
    <3> QED BY <3>1
  <2> HIDE DEF step
  <2> QED BY <1>3, <2>1
<1>5. LeftIs(L)
  <2> HIDE DEF LeftIs
  <2> QED BY <1>4
<1>6. Digits(n, w) = [i \in 1..w |-> 48 + (L[w - i] % 10)]
  BY DEF Digits
<1> HIDE DEF L
<1>7. L[0] = n /\ \A j \in 1..w : L[j] = L[j - 1] \div 10
  BY <1>5
<1> DEFINE P == {k \in 0..w : L[k] \in Int}
<1>8. \A k \in 0..w : k \in P
  <2>1. 0 \in P
    BY <1>7
  <2>2. ASSUME NEW k \in 1..w, k - 1 \in P PROVE k \in P
    BY <1>7, <2>2
  <2> HIDE DEF P
  <2> QED BY <2>1, <2>2, UpTo
<1>9. L \in [0..w -> Int]
  BY <1>5, <1>8
<1> QED BY <1>6, <1>7, <1>9

\* The number that a text is read as, character by character.
LEMMA NumberIs ==
    ASSUME NEW text \in Seq(Int), NEW n \in Nat, n = Len(text)
    PROVE  \E read \in [0..n -> Int] :
              /\ read[0] = 0
              /\ \A k \in 1..n : read[k] = 10 * read[k - 1] + (text[k] - 48)
              /\ Number(text) = read[n]
<1> DEFINE step == [k \in 1..n |-> [v \in Int |-> 10 * v + (text[k] - 48)]]
           ReadIs(g) == g = [k \in 0..n |-> IF k = 0 THEN 0 ELSE 10 * g[k - 1] + (text[k] - 48)]
           R == CHOOSE g : ReadIs(g)
<1>0. \A k \in 1..n : text[k] \in Int
  BY ElementOfSeq
<1>1. step \in [1..n -> [Int -> Int]]
  BY <1>0
<1>2. \E g \in [0..n -> Int] : g = [k \in 0..n |-> IF k = 0 THEN 0 ELSE step[k][g[k - 1]]]
  <2> HIDE DEF step
  <2>1. 0 \in Int
    OBVIOUS
  <2> QED BY <1>1, <2>1, Recursion
<1>3. PICK g \in [0..n -> Int] : g = [k \in 0..n |-> IF k = 0 THEN 0 ELSE step[k][g[k - 1]]]
  BY <1>2
<1>4. ReadIs(g)
  <2>1. ASSUME NEW k \in 0..n, k # 0 PROVE step[k][g[k - 1]] = 10 * g[k - 1] + (text[k] - 48)
    <3>1. k \in 1..n /\ g[k - 1] \in Int
      BY <2>1
    <3> QED BY <3>1
  <2> HIDE DEF step
  <2> QED BY <1>3, <2>1
<1>5. ReadIs(R)
  <2> HIDE DEF ReadIs
  <2> QED BY <1>4
<1>6. Number(text) = R[n]
  BY DEF Number
<1> HIDE DEF R
<1>7. R[0] = 0 /\ \A k \in 1..n : R[k] = 10 * R[k - 1] + (text[k] - 48)
  <2>1. \A k \in 0..n : R[k] = IF k = 0 THEN 0 ELSE 10 * R[k - 1] + (text[k] - 48)
    BY <1>5
  <2> HIDE DEF ReadIs
  <2> QED BY <2>1
<1> DEFINE P == {k \in 0..n : R[k] \in Int}
<1>8. \A k \in 0..n : k \in P
  <2>1. 0 \in P
    BY <1>7
  <2>2. ASSUME NEW k \in 1..n, k - 1 \in P PROVE k \in P
    BY <1>0, <1>7, <2>2
  <2> HIDE DEF P
  <2> QED BY <2>1, <2>2, UpTo
<1>9. R \in [0..n -> Int]
  BY <1>5, <1>8
<1> QED BY <1>6, <1>7, <1>9

LEMMA Products ==
    /\ \A a \in Int : a = 10 * (a \div 10) + (a % 10) /\ a % 10 \in 0..9 /\ a \div 10 \in Int
    /\ \A a \in Int, b \in Int : a * b \in Int /\ (10 * a) * b = 10 * (a * b)
OBVIOUS

\* text is the last w digits of n, and left[j] is n without its last j digits.
AreDigits(text, n, w, left) ==
    /\ n \in Int /\ w \in 0..(CodeWidth + 1)
    /\ left[0] = n /\ \A j \in 0..w : left[j] \in Int
    /\ \A j \in 1..w : left[j] = left[j - 1] \div 10
    /\ text \in Seq(Int) /\ Len(text) = w
    /\ \A i \in 1..w : text[i] = 48 + (left[w - i] % 10)

\* What the last w digits of n are read as is n without the tens they leave.
LEMMA NumberOfDigits ==
    ASSUME NEW text, NEW n, NEW w, NEW left, AreDigits(text, n, w, left)
    PROVE  /\ Number(text) \in Int /\ 0 <= Number(text) /\ Number(text) < Ten[w]
           /\ n = Ten[w] * left[w] + Number(text)
<1> USE DEF AreDigits
<1>1. w \in Nat
  BY WidthAssumption
<1>2. PICK read \in [0..w -> Int] :
              /\ read[0] = 0
              /\ \A k \in 1..w : read[k] = 10 * read[k - 1] + (text[k] - 48)
              /\ Number(text) = read[w]
  BY <1>1, NumberIs
<1>3. \A k \in 0..w : k \in 0..(CodeWidth + 1) /\ (k # 0 => k \in 1..(CodeWidth + 1))
  BY <1>1, WidthAssumption
<1> DEFINE P == {k \in 0..w : /\ left[w - k] = Ten[k] * left[w] + read[k]
                              /\ 0 <= read[k] /\ read[k] < Ten[k]}
<1>4. 0 \in P
  BY <1>1, <1>2, TenIs
<1>5. ASSUME NEW k \in 1..w, k - 1 \in P PROVE k \in P
  <2> DEFINE a == left[w - k]
             q == left[w - (k - 1)]
             d == a % 10
  <2>1. w - k \in 0..w /\ w - (k - 1) \in 1..w /\ (w - (k - 1)) - 1 = w - k
    BY <1>1
  <2>2. a \in Int /\ left[w] \in Int /\ read[k - 1] \in Int /\ read[k] \in Int
    BY <1>1, <2>1
  <2>3. q = a \div 10
    BY <2>1
  <2>4. a = 10 * q + d /\ d \in Int /\ 0 <= d /\ d <= 9 /\ q \in Int
    <3> HIDE DEF a, q
    <3>1. a = 10 * q + (a % 10) /\ a % 10 \in 0..9 /\ q \in Int
      BY <2>2, <2>3, Products
    <3> HIDE DEF d
    <3>2. d = a % 10
      BY DEF d
    <3>3. d \in 0..9 /\ a = 10 * q + d
      BY <3>1, <3>2, Zenon
    <3> QED BY <3>1, <3>3
  <2>5. read[k] = 10 * read[k - 1] + d
    <3>1. read[k] = 10 * read[k - 1] + (text[k] - 48) /\ text[k] = 48 + d
      BY <1>2
    <3> HIDE DEF d
    <3> QED BY <2>2, <2>4, <3>1
  <2>6. Ten[k] = 10 * Ten[k - 1] /\ Ten[k - 1] \in Nat \ {0}
    BY <1>1, <1>3, TenIs
  <2>7. q = Ten[k - 1] * left[w] + read[k - 1] /\ 0 <= read[k - 1] /\ read[k - 1] < Ten[k - 1]
    BY <1>5
  <2> DEFINE T == Ten[k - 1]
             L == left[w]
             r == read[k - 1]
  <2>8. PICK m \in Int : m = T * L /\ (10 * T) * L = 10 * m
    <3>1. T \in Int /\ L \in Int
      BY <2>2, <2>6
    <3> HIDE DEF T, L
    <3> QED BY <3>1, Products
  <2>9. (10 * T) * L = 10 * m
    BY <2>8
  <2> HIDE DEF a, q, d, T, L, r
  <2>10. a = Ten[k] * L + read[k] /\ 0 <= read[k] /\ read[k] < Ten[k]
    <3>1. q = m + r /\ r \in Int /\ 0 <= r /\ r < T /\ T \in Nat
      BY <2>2, <2>6, <2>7, <2>8 DEF T, L, r
    <3>2. Ten[k] = 10 * T /\ read[k] = 10 * r + d
      BY <2>5, <2>6 DEF T, r
    <3>3. a = 10 * m + 10 * r + d
      BY <2>4, <3>1
    <3> QED BY <2>4, <2>9, <3>1, <3>2, <3>3
  <2> QED BY <2>10 DEF a, L
<1>6. \A k \in 0..w : k \in P
  <2> HIDE DEF P
  <2> QED BY <1>1, <1>4, <1>5, UpTo
<1>7. w \in P /\ w - w = 0
  BY <1>1, <1>6
<1> QED BY <1>2, <1>7

\* The check code is what is left of the folded number modulo 10^CodeWidth.
LEMMA CcIdIs ==
    ASSUME NEW text, XorDecimal(text) \in Int
    PROVE  /\ CcId(text) \in Int /\ 0 <= CcId(text) /\ CcId(text) < Ten[CodeWidth]
           /\ \E q \in Int : XorDecimal(text) = Ten[CodeWidth] * q + CcId(text)
<1> DEFINE n == XorDecimal(text)
           W == CodeWidth
<1>1. W \in Nat /\ W + 1 \in Nat /\ W \in 0..(CodeWidth + 1)
  BY WidthAssumption
<1>2. CASE n < Ten[W]
  <2> DEFINE code == Digits(n, W)
  <2>1. CcId(text) = Number(code)
    BY <1>2 DEF CcId, CheckId
  <2> HIDE DEF n
  <2>2. PICK left \in [0..W -> Int] :
              /\ left[0] = n
              /\ \A j \in 1..W : left[j] = left[j - 1] \div 10
              /\ code = [i \in 1..W |-> 48 + (left[W - i] % 10)]
    BY <1>1, DigitsAre DEF n
  <2> HIDE DEF code
  <2>3. \A i \in 1..W : W - i \in 0..W
    BY <1>1
  <2>4. code \in [1..W -> Int]
    BY <2>2, <2>3
  <2>5. code \in Seq(Int) /\ Len(code) = W
    BY <1>1, <2>4
  <2>6. \A i \in 1..W : code[i] = 48 + (left[W - i] % 10)
    BY <2>2
  <2>7. \A j \in 0..W : left[j] \in Int
    OBVIOUS
  <2>8. n \in Int
    BY DEF n
  <2>9. /\ Number(code) \in Int /\ 0 <= Number(code) /\ Number(code) < Ten[W]
        /\ n = Ten[W] * left[W] + Number(code)
    <3>1. AreDigits(code, n, W, left)
      BY <1>1, <2>2, <2>5, <2>6, <2>7, <2>8 DEF AreDigits
    <3> QED BY <3>1, NumberOfDigits
  <2>10. left[W] \in Int
    BY <1>1
  <2> QED BY <2>1, <2>9, <2>10 DEF n
<1>3. CASE ~(n < Ten[W])
  <2> DEFINE V == W + 1
             full == Digits(n, V)
             code == SubSeq(full, 2, V)
  <2>1. CcId(text) = Number(code)
    BY <1>3 DEF CcId, CheckId
  <2> HIDE DEF n
  <2>2. PICK left \in [0..V -> Int] :
              /\ left[0] = n
              /\ \A j \in 1..V : left[j] = left[j - 1] \div 10
              /\ full = [i \in 1..V |-> 48 + (left[V - i] % 10)]
    BY <1>1, DigitsAre DEF n
  <2>3. \A i \in 1..V : V - i \in 0..V
    BY <1>1
  <2>4. full \in [1..V -> Int]
    <3> HIDE DEF full
    <3> QED BY <2>2, <2>3
  <2> HIDE DEF full
  <2>5. full \in Seq(Int) /\ Len(full) = V
    BY <1>1, <2>4
  <2>6. code \in Seq(Int) /\ Len(code) = W /\ \A i \in 1..W : code[i] = full[i + 1]
    BY <1>1, <2>5, SubSeqProperties
  <2>7. \A i \in 1..W : code[i] = 48 + (left[W - i] % 10)
    <3> SUFFICES ASSUME NEW i \in 1..W PROVE code[i] = 48 + (left[W - i] % 10)
      OBVIOUS
    <3>1. i + 1 \in 1..V /\ V - (i + 1) = W - i
      BY <1>1
    <3>2. full[i + 1] = 48 + (left[V - (i + 1)] % 10)
      BY <2>2, <3>1
    <3> QED BY <2>6, <3>1, <3>2
  <2>8. n \in Int
    BY DEF n
  <2>9. /\ \A j \in 0..W : left[j] \in Int
        /\ \A j \in 1..W : left[j] = left[j - 1] \div 10
    <3>1. (\A j \in 0..W : j \in 0..V) /\ \A j \in 1..W : j \in 1..V
      BY <1>1
    <3> HIDE DEF V, W
    <3> QED BY <2>2, <3>1
  <2> HIDE DEF code
  <2>10. /\ Number(code) \in Int /\ 0 <= Number(code) /\ Number(code) < Ten[W]
         /\ n = Ten[W] * left[W] + Number(code)
    <3>1. AreDigits(code, n, W, left)
      BY <1>1, <2>2, <2>6, <2>7, <2>8, <2>9 DEF AreDigits
    <3> QED BY <3>1, NumberOfDigits
  <2>11. left[W] \in Int
    BY <1>1
  <2> QED BY <2>1, <2>10, <2>11 DEF n
<1> QED BY <1>2, <1>3

-----------------------------------------------------------------------------
\* The bytes that are folded: L of them, each a number.
Bytes(x, L) == L \in Nat /\ Len(x) = L /\ \A k \in 1..L : x[k] \in Int

\* The fold, byte by byte.
LEMMA DecimalUnfolds ==
    ASSUME NEW text, NEW x, x = XorResult(text), NEW L, Bytes(x, L)
    PROVE  \E d \in [0..L -> Int] :
              /\ d[0] = 0
              /\ \A k \in 1..L : d[k] = (d[k - 1] * 256 + x[k]) % MaxLimit
              /\ XorDecimal(text) = d[L]
<1> DEFINE step == [k \in 1..L |-> [v \in Int |-> (v * 256 + x[k]) % MaxLimit]]
           DecimalIs(g) == g = [k \in 0..L |-> IF k = 0 THEN 0 ELSE (g[k - 1] * 256 + x[k]) % MaxLimit]
           D == CHOOSE g : DecimalIs(g)
<1>0. L \in Nat /\ Len(x) = L /\ \A k \in 1..L : x[k] \in Int
  BY DEF Bytes
<1>1. MaxLimit \in Nat \ {0}
  BY TenIs, WidthAssumption DEF MaxLimit
<1>2. \A v \in Int, k \in 1..L : (v * 256 + x[k]) % MaxLimit \in Int
  BY <1>0, <1>1
<1>3. step \in [1..L -> [Int -> Int]]
  BY <1>2
<1>4. \E g \in [0..L -> Int] : g = [k \in 0..L |-> IF k = 0 THEN 0 ELSE step[k][g[k - 1]]]
  <2> HIDE DEF step
  <2>1. 0 \in Int
    OBVIOUS
  <2>2. L \in Nat
    BY <1>0
  <2> QED BY <1>3, <2>1, <2>2, Recursion
<1>5. PICK g \in [0..L -> Int] : g = [k \in 0..L |-> IF k = 0 THEN 0 ELSE step[k][g[k - 1]]]
  BY <1>4
<1>6. DecimalIs(g)
  <2>1. ASSUME NEW k \in 0..L, k # 0 PROVE step[k][g[k - 1]] = (g[k - 1] * 256 + x[k]) % MaxLimit
    <3>1. k \in 1..L /\ g[k - 1] \in Int
      BY <1>0, <2>1
    <3> QED BY <3>1
  <2> HIDE DEF step
  <2> QED BY <1>5, <2>1
<1>7. DecimalIs(D)
  <2> HIDE DEF DecimalIs
  <2> QED BY <1>6
<1>8. XorDecimal(text) = D[L]
  BY <1>0 DEF XorDecimal
<1> HIDE DEF D
<1>9. D[0] = 0 /\ \A k \in 1..L : D[k] = (D[k - 1] * 256 + x[k]) % MaxLimit
  <2>1. \A k \in 0..L : D[k] = IF k = 0 THEN 0 ELSE (D[k - 1] * 256 + x[k]) % MaxLimit
    BY <1>7
  <2> HIDE DEF DecimalIs
  <2> QED BY <1>0, <2>1
<1> DEFINE P == {k \in 0..L : D[k] \in Int}
<1>10. \A k \in 0..L : k \in P
  <2>1. 0 \in P
    BY <1>0, <1>9
  <2>2. ASSUME NEW k \in 1..L, k - 1 \in P PROVE k \in P
    <3>1. D[k - 1] \in Int /\ k \in 0..L
      BY <1>0, <2>2
    <3>2. D[k] = (D[k - 1] * 256 + x[k]) % MaxLimit
      BY <1>9
    <3> QED BY <1>2, <3>1, <3>2
  <2> HIDE DEF P
  <2> QED BY <1>0, <2>1, <2>2, UpTo
<1>11. D \in [0..L -> Int]
  BY <1>7, <1>10
<1> QED BY <1>8, <1>9, <1>11

\* The reference, byte by byte.
LEMMA ExactIs ==
    ASSUME NEW text, NEW x, x = XorResult(text), NEW L, Bytes(x, L)
    PROVE  \E power \in [0..L -> Int], sum \in [0..L -> Int] :
              /\ power[0] = 1 /\ sum[0] = 0
              /\ \A j \in 1..L : power[j] = (power[j - 1] * 256) % Ten[CodeWidth]
              /\ \A k \in 1..L : sum[k] = (sum[k - 1] + x[k] * power[L - k]) % Ten[CodeWidth]
              /\ ExactCode(text) = sum[L]
<1> DEFINE M == Ten[CodeWidth]
           pstep == [k \in 1..L |-> [v \in Int |-> (v * 256) % M]]
           PowerIs(g) == g = [j \in 0..L |-> IF j = 0 THEN 1 ELSE (g[j - 1] * 256) % M]
           Q == CHOOSE g : PowerIs(g)
           sstep == [k \in 1..L |-> [v \in Int |-> (v + x[k] * Q[L - k]) % M]]
           SumIs(g) == g = [k \in 0..L |-> IF k = 0 THEN 0 ELSE (g[k - 1] + x[k] * Q[L - k]) % M]
           S == CHOOSE g : SumIs(g)
<1>0. L \in Nat /\ Len(x) = L /\ \A k \in 1..L : x[k] \in Int
  BY DEF Bytes
<1>1. M \in Nat \ {0}
  BY TenIs, WidthAssumption
<1>2. ExactCode(text) = S[L]
  BY <1>0 DEF ExactCode
<1> HIDE DEF S, M
<1>3. \A v \in Int : (v * 256) % M \in Int
  BY <1>1
<1>4. pstep \in [1..L -> [Int -> Int]]
  BY <1>3
<1>5. \E g \in [0..L -> Int] : g = [k \in 0..L |-> IF k = 0 THEN 1 ELSE pstep[k][g[k - 1]]]
  <2> HIDE DEF pstep
  <2>1. 1 \in Int
    OBVIOUS
  <2>2. L \in Nat
    BY <1>0
  <2> QED BY <1>4, <2>1, <2>2, Recursion
<1>6. PICK p \in [0..L -> Int] : p = [k \in 0..L |-> IF k = 0 THEN 1 ELSE pstep[k][p[k - 1]]]
  BY <1>5
<1>7. PowerIs(p)
  <2>1. ASSUME NEW k \in 0..L, k # 0 PROVE pstep[k][p[k - 1]] = (p[k - 1] * 256) % M
    <3>1. k \in 1..L /\ p[k - 1] \in Int
      BY <1>0, <2>1
    <3> QED BY <3>1
  <2> HIDE DEF pstep
  <2> QED BY <1>6, <2>1
<1>8. PowerIs(Q)
  <2> HIDE DEF PowerIs
  <2> QED BY <1>7
<1> HIDE DEF Q
<1>9. Q[0] = 1 /\ \A k \in 1..L : Q[k] = (Q[k - 1] * 256) % M
  <2>1. \A k \in 0..L : Q[k] = IF k = 0 THEN 1 ELSE (Q[k - 1] * 256) % M
    BY <1>8
  <2> HIDE DEF PowerIs
  <2> QED BY <1>0, <2>1
<1> DEFINE P == {k \in 0..L : Q[k] \in Int}
<1>10. \A k \in 0..L : k \in P
  <2>1. 0 \in P
    BY <1>0, <1>9
  <2>2. ASSUME NEW k \in 1..L, k - 1 \in P PROVE k \in P
    <3>1. Q[k - 1] \in Int /\ k \in 0..L
      BY <1>0, <2>2
    <3>2. Q[k] = (Q[k - 1] * 256) % M
      BY <1>9
    <3> QED BY <1>3, <3>1, <3>2
  <2> HIDE DEF P
  <2> QED BY <1>0, <2>1, <2>2, UpTo
<1>11. Q \in [0..L -> Int]
  BY <1>8, <1>10
<1> HIDE DEF P
<1>12. \A v \in Int, k \in 1..L : (v + x[k] * Q[L - k]) % M \in Int
  <2> SUFFICES ASSUME NEW v \in Int, NEW k \in 1..L PROVE (v + x[k] * Q[L - k]) % M \in Int
    OBVIOUS
  <2>1. x[k] \in Int /\ Q[L - k] \in Int
    BY <1>0, <1>11
  <2>2. x[k] * Q[L - k] \in Int
    BY <2>1, Products
  <2> QED BY <1>1, <2>2
<1>13. sstep \in [1..L -> [Int -> Int]]
  BY <1>12
<1>14. \E g \in [0..L -> Int] : g = [k \in 0..L |-> IF k = 0 THEN 0 ELSE sstep[k][g[k - 1]]]
  <2> HIDE DEF sstep
  <2>1. 0 \in Int
    OBVIOUS
  <2>2. L \in Nat
    BY <1>0
  <2> QED BY <1>13, <2>1, <2>2, Recursion
<1>15. PICK s \in [0..L -> Int] : s = [k \in 0..L |-> IF k = 0 THEN 0 ELSE sstep[k][s[k - 1]]]
  BY <1>14
<1>16. SumIs(s)
  <2>1. ASSUME NEW k \in 0..L, k # 0 PROVE sstep[k][s[k - 1]] = (s[k - 1] + x[k] * Q[L - k]) % M
    <3>1. k \in 1..L /\ s[k - 1] \in Int
      BY <1>0, <2>1
    <3> QED BY <3>1
  <2> HIDE DEF sstep
  <2> QED BY <1>15, <2>1
<1>17. SumIs(S)
  <2> HIDE DEF SumIs
  <2> QED BY <1>16 DEF S
<1>18. S[0] = 0 /\ \A k \in 1..L : S[k] = (S[k - 1] + x[k] * Q[L - k]) % M
  <2>1. \A k \in 0..L : S[k] = IF k = 0 THEN 0 ELSE (S[k - 1] + x[k] * Q[L - k]) % M
    BY <1>17
  <2> HIDE DEF SumIs
  <2>2. 0 \in 0..L /\ \A k \in 1..L : k \in 0..L /\ k # 0
    BY <1>0
  <2>3. S[0] = 0
    BY <2>1, <2>2
  <2>4. ASSUME NEW k \in 1..L PROVE S[k] = (S[k - 1] + x[k] * Q[L - k]) % M
    <3>1. k \in 0..L /\ k # 0
      BY <2>2
    <3> QED BY <2>1, <3>1
  <2> QED BY <2>3, <2>4
<1> DEFINE R == {k \in 0..L : S[k] \in Int}
<1>19. \A k \in 0..L : k \in R
  <2>1. 0 \in R
    BY <1>0, <1>18
  <2>2. ASSUME NEW k \in 1..L, k - 1 \in R PROVE k \in R
    <3>1. S[k - 1] \in Int /\ k \in 0..L
      BY <1>0, <2>2
    <3>2. S[k] = (S[k - 1] + x[k] * Q[L - k]) % M
      BY <1>18
    <3> QED BY <1>12, <3>1, <3>2
  <2> HIDE DEF R
  <2> QED BY <1>0, <2>1, <2>2, UpTo
<1>20. S \in [0..L -> Int]
  BY <1>17, <1>19
<1> QED BY <1>2, <1>9, <1>11, <1>18, <1>20 DEF M

-----------------------------------------------------------------------------
\* Two remainders of one number, whatever is left out, are the same.
LEMMA OneRemainder ==
    ASSUME NEW m \in Nat \ {0}, NEW a \in Int, NEW b \in Int, NEW r \in Int, NEW s \in Int,
           0 <= r, r < m, 0 <= s, s < m, m * a + r = m * b + s
    PROVE  r = s
<1>1. CASE a = b
  BY <1>1
<1>2. CASE a > b
  <2>1. m * (a - b) = s - r
    OBVIOUS
  <2>2. a - b >= 1
    BY <1>2
  <2>3. m * (a - b) >= m
    BY <2>2
  <2> QED BY <2>1, <2>3
<1>3. CASE b > a
  <2>1. m * (b - a) = r - s
    OBVIOUS
  <2>2. b - a >= 1
    BY <1>3
  <2>3. m * (b - a) >= m
    BY <2>2
  <2> QED BY <2>1, <2>3
<1> QED BY <1>1, <1>2, <1>3

LEMMA Remainder ==
    ASSUME NEW a \in Int, NEW m \in Nat \ {0}
    PROVE  \E q \in Int : a = m * q + (a % m) /\ a % m \in Int /\ 0 <= a % m /\ a % m < m
<1>1. a = m * (a \div m) + (a % m) /\ a \div m \in Int
  OBVIOUS
<1>2. a % m \in Int /\ 0 <= a % m /\ a % m < m
  OBVIOUS
<1> QED BY <1>1, <1>2

\* One byte more, in the fold and in the sum.
FoldsOneMore(m, d0, d, x, p0, p, s0, s) ==
    /\ m \in Int /\ d0 \in Int /\ d \in Int /\ x \in Int /\ p0 \in Int /\ p \in Int
    /\ s0 \in Int /\ s \in Int
    /\ \E q \in Int : d0 * 256 + x = (10 * m) * q + d
    /\ \E q \in Int : p * 256 = m * q + p0
    /\ \E q \in Int : s0 + x * p = m * q + s
    /\ \E q \in Int : d0 * p0 = m * q + s0

LEMMA OneByteMore ==
    ASSUME NEW m, NEW d0, NEW d, NEW x, NEW p0, NEW p, NEW s0, NEW s,
           FoldsOneMore(m, d0, d, x, p0, p, s0, s)
    PROVE  \E q \in Int : d * p = m * q + s
<1>0. /\ m \in Int /\ d0 \in Int /\ d \in Int /\ x \in Int /\ p0 \in Int /\ p \in Int
      /\ s0 \in Int /\ s \in Int
  BY DEF FoldsOneMore
<1>7. PICK q1 \in Int, q2 \in Int, q3 \in Int, q4 \in Int :
         /\ d0 * 256 + x = (10 * m) * q1 + d
         /\ p * 256 = m * q2 + p0
         /\ s0 + x * p = m * q3 + s
         /\ d0 * p0 = m * q4 + s0
  <2>1. PICK q1 \in Int : d0 * 256 + x = (10 * m) * q1 + d
    BY Zenon DEF FoldsOneMore
  <2>2. PICK q2 \in Int : p * 256 = m * q2 + p0
    BY Zenon DEF FoldsOneMore
  <2>3. PICK q3 \in Int : s0 + x * p = m * q3 + s
    BY Zenon DEF FoldsOneMore
  <2>4. PICK q4 \in Int : d0 * p0 = m * q4 + s0
    BY Zenon DEF FoldsOneMore
  <2> QED BY <2>1, <2>2, <2>3, <2>4, Zenon
<1> DEFINE q == q3 + q4 + d0 * q2 - (10 * q1) * p
<1>1. d * p = (d0 * 256 + x - (10 * m) * q1) * p
  <2>1. d = d0 * 256 + x - (10 * m) * q1
    BY <1>0, <1>7
  <2> QED BY <1>0, <2>1
<1>2. (d0 * 256 + x - (10 * m) * q1) * p = d0 * (p * 256) + x * p - m * ((10 * q1) * p)
  BY <1>0, <1>7
<1>3. d0 * (p * 256) = m * (d0 * q2) + d0 * p0
  <2>1. d0 * (p * 256) = d0 * (m * q2 + p0)
    BY <1>0, <1>7
  <2>2. d0 * (m * q2 + p0) = m * (d0 * q2) + d0 * p0
    BY <1>0, <1>7
  <2> QED BY <2>1, <2>2
<1>4. d * p = m * (d0 * q2) + (m * q4 + s0) + (m * q3 + s - s0) - m * ((10 * q1) * p)
  BY <1>0, <1>1, <1>2, <1>3, <1>7
<1>5. m * (d0 * q2) + (m * q4 + s0) + (m * q3 + s - s0) - m * ((10 * q1) * p) = m * q + s
  BY <1>0, <1>7
<1>6. q \in Int
  BY <1>0, <1>7
<1> QED BY <1>4, <1>5, <1>6

\* The fold modulo ten times M and the sum modulo M leave the same modulo M.
LEMMA CodeIsExact ==
    ASSUME NEW text, NEW L, Bytes(XorResult(text), L)
    PROVE  CcId(text) = ExactCode(text)
<1> DEFINE x == XorResult(text)
           M == Ten[CodeWidth]
<1>0. L \in Nat /\ \A k \in 1..L : x[k] \in Int
  BY DEF Bytes
<1>1. PICK d \in [0..L -> Int] :
              /\ d[0] = 0
              /\ \A k \in 1..L : d[k] = (d[k - 1] * 256 + x[k]) % MaxLimit
              /\ XorDecimal(text) = d[L]
  BY DecimalUnfolds
<1>2. PICK power \in [0..L -> Int], sum \in [0..L -> Int] :
              /\ power[0] = 1 /\ sum[0] = 0
              /\ \A j \in 1..L : power[j] = (power[j - 1] * 256) % M
              /\ \A k \in 1..L : sum[k] = (sum[k - 1] + x[k] * power[L - k]) % M
              /\ ExactCode(text) = sum[L]
  BY ExactIs
<1>3. M \in Nat \ {0} /\ MaxLimit = 10 * M /\ MaxLimit \in Nat \ {0}
  BY TenIs, WidthAssumption DEF MaxLimit
<1> HIDE DEF x, M
<1> DEFINE P == {k \in 0..L : /\ \E q \in Int : d[k] * power[L - k] = M * q + sum[k]
                              /\ 0 <= sum[k] /\ sum[k] < M}
<1>4. 0 \in P
  <2>1. d[0] * power[L - 0] = M * 0 + sum[0]
    BY <1>0, <1>1, <1>2, <1>3
  <2>2. 0 <= sum[0] /\ sum[0] < M /\ 0 \in 0..L /\ 0 \in Int
    BY <1>0, <1>2, <1>3
  <2> QED BY <2>1, <2>2
<1>5. ASSUME NEW k \in 1..L, k - 1 \in P PROVE k \in P
  <2>1. /\ k \in 0..L /\ k - 1 \in 0..L /\ L - k \in 0..L /\ L - (k - 1) \in 1..L
        /\ L - (k - 1) \in 0..L /\ (L - (k - 1)) - 1 = L - k
    BY <1>0
  <2>2. /\ d[k - 1] \in Int /\ d[k] \in Int /\ x[k] \in Int /\ power[L - (k - 1)] \in Int
        /\ power[L - k] \in Int /\ sum[k - 1] \in Int /\ sum[k] \in Int /\ M \in Int
    <3>1. d[k - 1] \in Int /\ d[k] \in Int /\ sum[k - 1] \in Int /\ sum[k] \in Int
      BY <2>1
    <3>2. power[L - (k - 1)] \in Int /\ power[L - k] \in Int
      BY <2>1
    <3>3. x[k] \in Int /\ M \in Int
      BY <1>0, <1>3
    <3> QED BY <3>1, <3>2, <3>3
  <2>3. PICK q4 \in Int : d[k - 1] * power[L - (k - 1)] = M * q4 + sum[k - 1]
    BY <1>5
  <2>4. PICK q1 \in Int : d[k - 1] * 256 + x[k] = (10 * M) * q1 + d[k]
    <3>1. d[k - 1] * 256 + x[k] \in Int /\ d[k] = (d[k - 1] * 256 + x[k]) % (10 * M)
      BY <1>1, <1>3, <2>2
    <3>2. PICK a \in Int : a = d[k - 1] * 256 + x[k] /\ d[k] = a % (10 * M)
      BY <3>1
    <3>3. 10 * M \in Nat \ {0}
      BY <1>3
    <3>4. \E q \in Int : a = (10 * M) * q + (a % (10 * M))
      BY <3>3, Remainder
    <3> QED BY <3>2, <3>4
  <2>5. PICK q2 \in Int : power[L - k] * 256 = M * q2 + power[L - (k - 1)]
    <3>1. power[L - (k - 1)] = (power[L - k] * 256) % M
      BY <1>2, <2>1
    <3>2. PICK a \in Int : a = power[L - k] * 256 /\ power[L - (k - 1)] = a % M
      BY <2>2, <3>1
    <3>3. \E q \in Int : a = M * q + (a % M)
      BY <1>3, Remainder
    <3> QED BY <3>2, <3>3
  <2>6. x[k] * power[L - k] \in Int
    BY <2>2, Products
  <2>7. PICK q3 \in Int : /\ sum[k - 1] + x[k] * power[L - k] = M * q3 + sum[k]
                          /\ 0 <= sum[k] /\ sum[k] < M
    <3>1. sum[k] = (sum[k - 1] + x[k] * power[L - k]) % M
      BY <1>2
    <3>2. PICK a \in Int : a = sum[k - 1] + x[k] * power[L - k] /\ sum[k] = a % M
      BY <2>2, <2>6, <3>1
    <3>3. \E q \in Int : a = M * q + (a % M) /\ 0 <= a % M /\ a % M < M
      BY <1>3, Remainder
    <3> QED BY <3>2, <3>3
  <2>8. \E q \in Int : d[k] * power[L - k] = M * q + sum[k]
    <3>1. FoldsOneMore(M, d[k - 1], d[k], x[k], power[L - (k - 1)], power[L - k], sum[k - 1], sum[k])
      BY <2>2, <2>3, <2>4, <2>5, <2>7 DEF FoldsOneMore
    <3> QED BY <3>1, OneByteMore
  <2> QED BY <2>1, <2>7, <2>8
<1>6. L \in P
  <2>1. \A k \in 0..L : k \in P
    <3> HIDE DEF P
    <3> QED BY <1>0, <1>4, <1>5, UpTo
  <2> QED BY <1>0, <2>1
<1>7. PICK q \in Int : d[L] * power[L - L] = M * q + sum[L] /\ 0 <= sum[L] /\ sum[L] < M
  BY <1>6
<1>8. d[L] \in Int /\ sum[L] \in Int /\ L - L = 0
  BY <1>0
<1>9. d[L] = M * q + sum[L]
  BY <1>2, <1>7, <1>8
<1>10. /\ CcId(text) \in Int /\ 0 <= CcId(text) /\ CcId(text) < M
       /\ \E r \in Int : d[L] = M * r + CcId(text)
  BY <1>1, <1>8, CcIdIs DEF M
<1>11. PICK r \in Int : d[L] = M * r + CcId(text)
  BY <1>10
<1>12. CcId(text) = sum[L]
  BY <1>3, <1>7, <1>8, <1>9, <1>10, <1>11, OneRemainder
<1> QED BY <1>2, <1>12

-----------------------------------------------------------------------------
(***************************************************************************)
(* The texts: sequences of numbers, of the lengths that the code expects.  *)
(***************************************************************************)
IsText(s, n) == s \in Seq(Int) /\ Len(s) = n

LEMMA DigitsText ==
    ASSUME NEW n \in Int, NEW w \in Nat
    PROVE  IsText(Digits(n, w), w)
<1>1. PICK left \in [0..w -> Int] : Digits(n, w) = [i \in 1..w |-> 48 + (left[w - i] % 10)]
  BY DigitsAre
<1>2. \A i \in 1..w : w - i \in 0..w
  OBVIOUS
<1>3. Digits(n, w) \in [1..w -> Int]
  BY <1>1, <1>2
<1> QED BY <1>3 DEF IsText

LEMMA Joined ==
    ASSUME NEW s, NEW t, NEW m \in Nat, NEW n \in Nat, NEW k \in Nat, k = m + n,
           IsText(s, m), IsText(t, n)
    PROVE  IsText(s \o t, k)
BY ConcatProperties DEF IsText

LEMMA NumberType ==
    ASSUME NEW text, NEW n, IsText(text, n), n \in Nat
    PROVE  Number(text) \in Int
BY NumberIs DEF IsText

LEMMA TimeText19 ==
    ASSUME NEW t \in [yyyy : Nat, MM : Nat, dd : Nat, HH : Nat, mm : Nat, ss : Nat]
    PROVE  IsText(TimeString(t), 19)
<1> DEFINE Y == Digits(t.yyyy, 4)
           M == Digits(t.MM, 2)
           D == Digits(t.dd, 2)
           H == Digits(t.HH, 2)
           I == Digits(t.mm, 2)
           S == Digits(t.ss, 2)
           dash == <<45>>
           blank == <<32>>
           colon == <<58>>
<1>1. TimeString(t) = Y \o dash \o M \o dash \o D \o blank \o H \o colon \o I \o colon \o S
  BY DEF TimeString
<1>2. IsText(Y, 4)
  BY DigitsText
<1>3. IsText(M, 2) /\ IsText(D, 2) /\ IsText(H, 2) /\ IsText(I, 2) /\ IsText(S, 2)
  BY DigitsText
<1>4. IsText(dash, 1) /\ IsText(blank, 1) /\ IsText(colon, 1)
  BY DEF IsText
<1> HIDE DEF Y, M, D, H, I, S, dash, blank, colon
<1>5. IsText(Y \o dash, 5)
  BY <1>2, <1>4, Joined
<1>6. IsText(Y \o dash \o M, 7)
  BY <1>3, <1>5, Joined
<1>7. IsText(Y \o dash \o M \o dash, 8)
  BY <1>4, <1>6, Joined
<1>8. IsText(Y \o dash \o M \o dash \o D, 10)
  BY <1>3, <1>7, Joined
<1>9. IsText(Y \o dash \o M \o dash \o D \o blank, 11)
  BY <1>4, <1>8, Joined
<1>10. IsText(Y \o dash \o M \o dash \o D \o blank \o H, 13)
  BY <1>3, <1>9, Joined
<1>11. IsText(Y \o dash \o M \o dash \o D \o blank \o H \o colon, 14)
  BY <1>4, <1>10, Joined
<1>12. IsText(Y \o dash \o M \o dash \o D \o blank \o H \o colon \o I, 16)
  BY <1>3, <1>11, Joined
<1>13. IsText(Y \o dash \o M \o dash \o D \o blank \o H \o colon \o I \o colon, 17)
  BY <1>4, <1>12, Joined
<1>14. IsText(Y \o dash \o M \o dash \o D \o blank \o H \o colon \o I \o colon \o S, 19)
  BY <1>3, <1>13, Joined
<1> QED BY <1>1, <1>14

LEMMA Confusion == Len(ConfusionBytes) = 22 /\ \A j \in 1..22 : ConfusionBytes[j] \in Int
BY DEF ConfusionBytes

LEMMA XorIsANumber == ASSUME NEW a \in Int, NEW b \in Int PROVE Xor(a, b) \in Int
<1>1. \A p \in Nat \ {0} : p * (((a \div p) + (b \div p)) % 2) \in Int
  OBVIOUS
<1> QED BY <1>1 DEF Xor

LEMMA FourteenBytes ==
    ASSUME NEW text, IsText(text, 19)
    PROVE  Bytes(XorResult(text), 14)
<1> DEFINE t == ParsedTime(text)
           f == TimeFactor(text)
<1>1. ASSUME NEW i \in 1..19, NEW w \in 1..19, i + w - 1 <= 19
      PROVE  Number(SubSeq(text, i, i + w - 1)) \in Int
  <2>1. PICK j \in 1..19 : j = i + w - 1 /\ i <= j /\ j - i + 1 = w
    BY <1>1
  <2>2. text \in Seq(Int) /\ Len(text) = 19
    BY DEF IsText
  <2>3. SubSeq(text, i, j) \in Seq(Int) /\ Len(SubSeq(text, i, j)) = j - i + 1
    <3>1. \A k \in i..j : text[k] \in Int
      BY <2>1, <2>2, ElementOfSeq
    <3>2. i \in Int /\ j \in Int /\ i <= j
      BY <2>1
    <3> QED BY <3>1, <3>2, SubSeqProperties
  <2>4. IsText(SubSeq(text, i, i + w - 1), w)
    BY <2>1, <2>3 DEF IsText
  <2>5. w \in Nat
    OBVIOUS
  <2> QED BY <2>4, <2>5, NumberType
<1>2. /\ t.yyyy \in Int /\ t.MM \in Int /\ t.dd \in Int
      /\ t.HH \in Int /\ t.mm \in Int /\ t.ss \in Int
  BY <1>1 DEF ParsedTime
<1> HIDE DEF t
<1> DEFINE Y == Digits(t.yyyy, 4)
           M == Digits(t.MM, 2)
           D == Digits(t.dd, 2)
           H == Digits(t.HH, 2)
           I == Digits(t.mm, 2)
           S == Digits(t.ss, 2)
<1>3. f = Y \o M \o D \o H \o I \o S
  BY DEF TimeFactor, t
<1>4. IsText(Y, 4)
  BY <1>2, DigitsText
<1>5. IsText(M, 2) /\ IsText(D, 2) /\ IsText(H, 2) /\ IsText(I, 2) /\ IsText(S, 2)
  BY <1>2, DigitsText
<1> HIDE DEF Y, M, D, H, I, S, f
<1>6. IsText(Y \o M, 6)
  BY <1>4, <1>5, Joined
<1>7. IsText(Y \o M \o D, 8)
  BY <1>5, <1>6, Joined
<1>8. IsText(Y \o M \o D \o H, 10)
  BY <1>5, <1>7, Joined
<1>14. IsText(Y \o M \o D \o H \o I, 12)
  BY <1>5, <1>8, Joined
<1>9. IsText(f, 14)
  BY <1>3, <1>5, <1>14, Joined
<1>10. f \in Seq(Int) /\ Len(f) = 14
  BY <1>9 DEF IsText
<1>11. XorResult(text) = [i \in 1..14 |-> Xor(f[i], ConfusionBytes[((i - 1) % 22) + 1])]
  BY <1>10, Confusion DEF XorResult, f
<1>12. ASSUME NEW i \in 1..14 PROVE Xor(f[i], ConfusionBytes[((i - 1) % 22) + 1]) \in Int
  <2>1. ((i - 1) % 22) + 1 \in 1..22
    OBVIOUS
  <2>2. f[i] \in Int /\ ConfusionBytes[((i - 1) % 22) + 1] \in Int
    BY <1>10, <2>1, Confusion, ElementOfSeq
  <2> QED BY <2>2, XorIsANumber
<1>13. XorResult(text) \in [1..14 -> Int]
  BY <1>11, <1>12
<1> QED BY <1>13 DEF Bytes
=============================================================================
