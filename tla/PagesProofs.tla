------------------------------ MODULE PagesProofs ------------------------------
(***************************************************************************)
(* That the pages tell the truth and that the deaths of a worker are       *)
(* explained: for any addresses, any templates, any length of an           *)
(* X-Forwarded-For header and any number of updates.                       *)
(*                                                                         *)
(* The recursive functions of Pages are functions that satisfy their own   *)
(* equation, if there is one; that there is one, and what its values are,  *)
(* is shown by induction, stated for sets.                                 *)
(***************************************************************************)
EXTENDS Pages, SequenceTheorems, FiniteSetTheorems, TLAPS

-----------------------------------------------------------------------------
(* Induction.                                                              *)

\* A set of numbers has a least one.
LEMMA LeastIndex ==
  ASSUME NEW S, S \subseteq Nat, S # {}
  PROVE  \E x \in S : \A y \in S : x <= y
<1> DEFINE U == {0 .. n : n \in S}
           R == StrictSubsetOrdering(Nat)
<1>1. U \subseteq FiniteSubsetsOf(Nat) /\ U # {}
  <2>1. \A n \in Nat : 0 .. n \subseteq Nat /\ IsFiniteSet(0 .. n)
    BY FS_Interval
  <2> QED
    BY <2>1 DEF FiniteSubsetsOf
<1>2. IsWellFoundedOn(R, FiniteSubsetsOf(Nat))
  BY FS_StrictSubsetOrderingWellFounded
<1>3. PICK X \in U : \A Y \in U : <<Y, X>> \notin R
  BY <1>1, <1>2, WFMin, Zenon
<1>4. PICK x \in S : X = 0 .. x
  OBVIOUS
<1>5. ASSUME NEW y \in S, y < x PROVE FALSE
  <2>1. 0 .. y \in U
    OBVIOUS
  <2>2. 0 .. y \subseteq 0 .. x /\ 0 .. y # 0 .. x
    BY <1>5
  <2>3. <<0 .. y, 0 .. x>> \in R
    BY <2>2 DEF StrictSubsetOrdering
  <2> QED
    BY <1>3, <1>4, <2>1, <2>3
<1> QED
  BY <1>5

\* What Min and Max choose.
LEMMA MinIs ==
  ASSUME NEW S, S \subseteq Nat, S # {}
  PROVE  Min(S) \in S /\ \A y \in S : Min(S) <= y
  BY LeastIndex DEF Min

\* A bounded set of numbers has a greatest one.
LEMMA MaxIs ==
  ASSUME NEW n \in Nat, NEW S, S \subseteq 0 .. n, S # {}
  PROVE  Max(S) \in S /\ \A y \in S : y <= Max(S)
<1> DEFINE T == {n - x : x \in S}
<1>1. T \subseteq Nat /\ T # {}
  <2>1. \A x \in S : n - x \in Nat
    OBVIOUS
  <2>2. PICK x \in S : TRUE
    OBVIOUS
  <2>3. n - x \in T
    OBVIOUS
  <2> QED
    BY <2>1, <2>3
<1>2. PICK z \in T : \A y \in T : z <= y
  <2> HIDE DEF T
  <2> QED
    BY <1>1, LeastIndex
<1>3. PICK x \in S : z = n - x
  BY <1>2
<1>4. \A y \in S : y <= x
  <2> TAKE y \in S
  <2>1. n - x <= n - y
    BY <1>2, <1>3
  <2> QED
    BY <2>1
<1>5. \E w \in S : \A y \in S : w >= y
  <2>1. \A y \in S : x >= y
    BY <1>4
  <2> QED
    BY <2>1
<1>6. Max(S) \in S /\ \A y \in S : Max(S) >= y
  BY <1>5 DEF Max
<1> QED
  BY <1>6

\* What holds at 0, and at each number after one where it holds, holds up to n.
LEMMA UpInduction ==
  ASSUME NEW n \in Nat, NEW S, 0 \in S, \A i \in 0 .. n - 1 : i \in S => i + 1 \in S
  PROVE  \A i \in 0 .. n : i \in S
<1> DEFINE Bad == (0 .. n) \ S
<1> SUFFICES ASSUME Bad # {} PROVE FALSE
  OBVIOUS
<1>1. PICK m \in Bad : \A y \in Bad : m <= y
  <2>1. Bad \subseteq Nat
    OBVIOUS
  <2> QED
    BY <2>1, LeastIndex
<1>2. m # 0 /\ m \in 0 .. n
  OBVIOUS
<1>3. m - 1 \in 0 .. n - 1 /\ m - 1 \in 0 .. n /\ (m - 1) + 1 = m /\ ~(m <= m - 1)
  BY <1>2
<1>4. m - 1 \in S
  BY <1>1, <1>3
<1> QED
  BY <1>3, <1>4

\* The same from n down.
LEMMA DownInduction ==
  ASSUME NEW n \in Nat, NEW S, n \in S, \A i \in 1 .. n : i \in S => i - 1 \in S
  PROVE  \A i \in 0 .. n : i \in S
<1> DEFINE T == {i \in 0 .. n : n - i \in S}
<1>1. 0 \in T
  OBVIOUS
<1>2. \A i \in 0 .. n - 1 : i \in T => i + 1 \in T
  <2> SUFFICES ASSUME NEW i \in 0 .. n - 1, n - i \in S PROVE n - (i + 1) \in S
    OBVIOUS
  <2>1. n - i \in 1 .. n /\ (n - i) - 1 = n - (i + 1)
    OBVIOUS
  <2> QED
    BY <2>1
<1>3. \A i \in 0 .. n : i \in T
  <2> HIDE DEF T
  <2> QED
    BY <1>1, <1>2, UpInduction
<1>4. \A i \in 0 .. n : n - i \in 0 .. n /\ n - (n - i) = i
  OBVIOUS
<1> QED
  BY <1>3, <1>4

\* G has a step from each value, and a function that takes these steps.
Steppable(n, V, b, G) ==
  n \in Nat /\ b \in V /\ \A i \in 1 .. n : \A v \in V : \E w \in V : <<i, v, w>> \in G
Stepped(n, V, b, G) ==
  \E f \in [0 .. n -> V] : f[0] = b /\ \A i \in 1 .. n : <<i, f[i - 1], f[i]>> \in G

\* A function defined from each value to the next exists.
LEMMA RecursionExists ==
  ASSUME NEW n, NEW V, NEW b, NEW G, Steppable(n, V, b, G)
  PROVE  Stepped(n, V, b, G)
<1> n \in Nat /\ b \in V
  BY DEF Steppable
<1> \A i \in 1 .. n : \A v \in V : \E w \in V : <<i, v, w>> \in G
  BY DEF Steppable
<1> DEFINE Good(m, f) == f[0] = b /\ \A i \in 1 .. m : <<i, f[i - 1], f[i]>> \in G
           S == {m \in 0 .. n : \E f \in [0 .. m -> V] : Good(m, f)}
<1>1. 0 \in S
  <2> DEFINE f == [i \in 0 .. 0 |-> b]
  <2>1. f \in [0 .. 0 -> V] /\ f[0] = b
    OBVIOUS
  <2>2. Good(0, f)
    BY <2>1
  <2>3. 0 \in 0 .. n
    OBVIOUS
  <2> HIDE DEF f, Good
  <2> QED
    BY <2>1, <2>2, <2>3
<1>2. ASSUME NEW m \in 0 .. n - 1, m \in S PROVE m + 1 \in S
  <2>1. PICK f \in [0 .. m -> V] : Good(m, f)
    BY <1>2
  <2>2. m + 1 \in 1 .. n /\ f[m] \in V
    OBVIOUS
  <2>10. PICK v \in V : <<m + 1, f[m], v>> \in G
    BY <2>2
  <2> DEFINE h == [i \in 0 .. m + 1 |-> IF i = m + 1 THEN v ELSE f[i]]
  <2>3. \A i \in 0 .. m + 1 : i # m + 1 => i \in 0 .. m
    OBVIOUS
  <2>4. h \in [0 .. m + 1 -> V]
    <3> QED
      BY <2>2, <2>3
  <2>5. \A i \in 0 .. m : h[i] = f[i]
    OBVIOUS
  <2>6. <<m + 1, h[m], h[m + 1]>> \in G
    <3>1. h[m + 1] = v /\ h[m] = f[m]
      BY <2>5
    <3> HIDE DEF h
    <3> QED
      BY <2>10, <3>1
  <2>7. \A i \in 1 .. m : <<i, h[i - 1], h[i]>> \in G
    <3> TAKE i \in 1 .. m
    <3>1. i \in 0 .. m /\ i - 1 \in 0 .. m
      OBVIOUS
    <3> QED
      BY <2>1, <2>5, <3>1
  <2>8. Good(m + 1, h)
    <3>1. h[0] = b
      BY <2>1, <2>5
    <3>2. \A i \in 1 .. m + 1 : i = m + 1 \/ i \in 1 .. m
      OBVIOUS
    <3>3. (m + 1) - 1 = m
      OBVIOUS
    <3> HIDE DEF h
    <3> QED
      BY <2>6, <2>7, <3>1, <3>2, <3>3
  <2>9. m + 1 \in 0 .. n
    OBVIOUS
  <2> QED
    BY <2>4, <2>8, <2>9
<1>3. n \in S
  <2> HIDE DEF S
  <2> QED
    BY <1>1, <1>2, UpInduction
<1> QED
  BY <1>3 DEF Stepped

-----------------------------------------------------------------------------
(* Sequences put together.                                                 *)

\* FlattenSeq appends the parts one after the other.
LEMMA FlattenIs ==
  ASSUME NEW A, NEW ss \in Seq(Seq(A))
  PROVE  \E f \in [0 .. Len(ss) -> Seq(A)] :
           /\ f[0] = <<>> /\ \A i \in 1 .. Len(ss) : f[i] = f[i - 1] \o ss[i]
           /\ FlattenSeq(ss) = f[Len(ss)]
<1> DEFINE n == Len(ss)
           V == Seq(A)
           e == <<>>
           With(i, v) == v \o ss[i]
           G == {<<i, v, With(i, v)>> : i \in 1 .. n, v \in V}
<1>1. n \in Nat /\ \A i \in 1 .. n : ss[i] \in Seq(A)
  BY ElementOfSeq
<1>2. \A i \in 1 .. n : \A v \in V : With(i, v) \in V
  BY <1>1, ConcatProperties
<1>3. e \in V
  OBVIOUS
<1> HIDE DEF V, e, With
<1>4. PICK f \in [0 .. n -> V] : f[0] = e /\ \A i \in 1 .. n : <<i, f[i - 1], f[i]>> \in G
  <2>1. \A i \in 1 .. n : \A v \in V : <<i, v, With(i, v)>> \in G
    OBVIOUS
  <2>2. \A i \in 1 .. n : \A v \in V : \E w \in V : <<i, v, w>> \in G
    BY <1>2, <2>1
  <2>3. Steppable(n, V, e, G)
    BY <1>1, <1>3, <2>2 DEF Steppable
  <2> HIDE DEF G, n
  <2>4. Stepped(n, V, e, G)
    BY <2>3, RecursionExists, Zenon
  <2> QED
    BY <2>4 DEF Stepped
<1>5. \A i \in 1 .. n : f[i] = With(i, f[i - 1])
  BY <1>4
<1> HIDE DEF G
<1> USE DEF V, e, With
<1>6. CASE n = 0
  <2>1. FlattenSeq(ss) = ss /\ ss = <<>>
    BY <1>6 DEF FlattenSeq
  <2> QED
    BY <1>4, <1>5, <1>6, <2>1
<1>7. CASE n # 0
  <2> DEFINE F(p) == [i \in 1 .. n |-> IF i = 1 THEN ss[i] ELSE p[i - 1] \o ss[i]]
             p == CHOOSE p : p = F(p)
  <2>1. FlattenSeq(ss) = p[n]
    BY <1>7 DEF FlattenSeq
  <2>2. p = F(p)
    <3> DEFINE q == [i \in 1 .. n |-> f[i]]
    <3>1. \A i \in 1 .. n : f[i] = IF i = 1 THEN ss[i] ELSE q[i - 1] \o ss[i]
      <4> TAKE i \in 1 .. n
      <4>1. CASE i = 1
        <5>1. f[1] = <<>> \o ss[1]
          <6>1. 1 \in 1 .. n /\ 1 - 1 = 0
            BY <4>1
          <6>2. f[1] = f[1 - 1] \o ss[1]
            BY <1>5, <6>1
          <6> QED
            BY <1>4, <6>1, <6>2
        <5>2. ss[1] \in Seq(A)
          BY <1>1, <4>1
        <5> QED
          BY <4>1, <5>1, <5>2, ConcatEmptySeq
      <4>2. CASE i # 1
        <5>1. i - 1 \in 1 .. n
          BY <1>1, <4>2
        <5> QED
          BY <1>5, <4>2, <5>1
      <4> QED
        BY <4>1, <4>2
    <3>2. q = F(q)
      <4>1. q = [i \in 1 .. n |-> f[i]]
        OBVIOUS
      <4> HIDE DEF q
      <4> QED
        BY <3>1, <4>1
    <3> QED
      BY <3>2
  <2>3. \A i \in 1 .. n : p[i] = IF i = 1 THEN ss[i] ELSE p[i - 1] \o ss[i]
    BY <2>2
  <2> HIDE DEF p
  <2>4. \A i \in 0 .. n : i \in {m \in 0 .. n : m = 0 \/ p[m] = f[m]}
    <3> DEFINE S == {m \in 0 .. n : m = 0 \/ p[m] = f[m]}
    <3>1. 0 \in S
      BY <1>1
    <3>2. ASSUME NEW i \in 0 .. n - 1, i \in S PROVE i + 1 \in S
      <4>1. i + 1 \in 1 .. n /\ i + 1 \in 0 .. n /\ (i + 1) - 1 = i
        BY <1>1
      <4>2. CASE i = 0
        <5>1. p[1] = ss[1] /\ f[1] = <<>> \o ss[1] /\ ss[1] \in Seq(A)
          <6>1. 1 \in 1 .. n /\ 1 - 1 = 0
            BY <4>1, <4>2
          <6>2. f[1] = f[1 - 1] \o ss[1]
            BY <1>5, <6>1
          <6> QED
            BY <1>1, <1>4, <2>3, <6>1, <6>2
        <5>2. p[1] = f[1]
          BY <5>1, ConcatEmptySeq
        <5> QED
          BY <4>1, <4>2, <5>2
      <4>3. CASE i # 0
        <5>1. p[i + 1] = p[i] \o ss[i + 1]
          <6>1. i + 1 # 1
            BY <4>3
          <6> QED
            BY <2>3, <4>1, <6>1
        <5>2. f[i + 1] = f[i] \o ss[i + 1]
          BY <1>5, <4>1
        <5>3. p[i] = f[i]
          BY <3>2, <4>3
        <5> QED
          BY <4>1, <5>1, <5>2, <5>3
      <4> QED
        BY <4>2, <4>3
    <3> HIDE DEF S
    <3>3. \A i \in 0 .. n : i \in S
      BY <1>1, <3>1, <3>2, UpInduction
    <3> QED
      BY <3>3 DEF S
  <2>5. p[n] = f[n]
    <3>1. n \in 0 .. n
      BY <1>1
    <3> QED
      BY <1>7, <2>4, <3>1
  <2> QED
    BY <1>4, <1>5, <2>1, <2>5
<1> QED
  BY <1>6, <1>7

\* Where each part of a sequence that is put together begins.
Parts(ss, s, off) ==
  /\ off[1] = 1 /\ Len(s) = off[Len(ss) + 1] - 1
  /\ \A i \in 1 .. Len(ss) :
       /\ off[i + 1] = off[i] + Len(ss[i])
       /\ \A k \in 1 .. Len(ss[i]) : s[off[i] + k - 1] = ss[i][k]

\* Each part is found at its place.
LEMMA FlattenParts ==
  ASSUME NEW A, NEW ss \in Seq(Seq(A))
  PROVE  /\ FlattenSeq(ss) \in Seq(A)
         /\ \E off \in [1 .. Len(ss) + 1 -> Nat \ {0}] : Parts(ss, FlattenSeq(ss), off)
<1> DEFINE n == Len(ss)
<1>1. n \in Nat /\ \A i \in 1 .. n : ss[i] \in Seq(A) /\ Len(ss[i]) \in Nat
  BY ElementOfSeq, LenProperties
<1>2. PICK f \in [0 .. n -> Seq(A)] :
        /\ f[0] = <<>> /\ \A i \in 1 .. n : f[i] = f[i - 1] \o ss[i]
        /\ FlattenSeq(ss) = f[n]
  BY FlattenIs
<1> DEFINE s == f[n]
           L(i) == Len(f[i])
<1> HIDE DEF n
<1>3. s \in Seq(A) /\ \A i \in 0 .. n : L(i) \in Nat
  <2>1. \A i \in 0 .. n : f[i] \in Seq(A)
    BY <1>2
  <2>2. n \in 0 .. n
    BY <1>1
  <2> QED
    BY <2>1, <2>2, LenProperties
<1>4. L(0) = 0
  BY <1>2
<1>5. \A i \in 1 .. n :
        /\ L(i) = L(i - 1) + Len(ss[i])
        /\ \A k \in 1 .. L(i) : f[i][k] = IF k <= L(i - 1) THEN f[i - 1][k] ELSE ss[i][k - L(i - 1)]
  <2> TAKE i \in 1 .. n
  <2>1. f[i - 1] \in Seq(A) /\ ss[i] \in Seq(A)
    <3>1. i - 1 \in 0 .. n
      BY <1>1
    <3> QED
      BY <1>1, <1>2, <3>1
  <2>2. f[i] = f[i - 1] \o ss[i]
    BY <1>2
  <2> QED
    <3>1. /\ Len(f[i - 1] \o ss[i]) = L(i - 1) + Len(ss[i])
          /\ \A k \in 1 .. L(i - 1) + Len(ss[i]) : (f[i - 1] \o ss[i])[k] =
               IF k <= L(i - 1) THEN f[i - 1][k] ELSE ss[i][k - L(i - 1)]
      BY <2>1, ConcatProperties
    <3> QED
      BY <2>2, <3>1
<1> DEFINE Ahead(i, j) == L(i) <= L(j) /\ \A k \in 1 .. L(i) : f[j][k] = f[i][k]
           S == {j \in 0 .. n : \A i \in 0 .. j : Ahead(i, j)}
<1>6. \A i \in 0 .. n : Ahead(i, n)
  <2>1. 0 \in S
    BY <1>1, <1>3
  <2>2. ASSUME NEW j \in 0 .. n - 1, j \in S PROVE j + 1 \in S
    <3>1. j + 1 \in 1 .. n /\ j + 1 \in 0 .. n /\ (j + 1) - 1 = j /\ j \in 0 .. n
      BY <1>1
    <3>2. Ahead(j, j + 1)
      <4>1. L(j) \in Nat /\ L(j + 1) = L(j) + Len(ss[j + 1]) /\ Len(ss[j + 1]) \in Nat
        BY <1>1, <1>3, <1>5, <3>1
      <4>2. \A k \in 1 .. L(j + 1) : k <= L(j) => f[j + 1][k] = f[j][k]
        BY <1>5, <3>1
      <4> HIDE DEF L
      <4>3. \A k \in 1 .. L(j) : k \in 1 .. L(j + 1) /\ k <= L(j)
        BY <4>1
      <4> QED
        BY <4>1, <4>2, <4>3
    <3>3. \A i \in 0 .. j : Ahead(i, j + 1)
      <4> TAKE i \in 0 .. j
      <4>1. Ahead(i, j) /\ i \in 0 .. n
        <5> HIDE DEF Ahead
        <5>1. Ahead(i, j)
          BY <2>2
        <5>2. i \in 0 .. n
          BY <1>1, <3>1
        <5> QED
          BY <5>1, <5>2
      <4>2. L(i) \in Nat /\ L(j) \in Nat /\ L(j + 1) \in Nat
        BY <1>3, <3>1, <4>1
      <4> HIDE DEF L
      <4> QED
        BY <3>2, <4>1, <4>2
    <3>4. Ahead(j + 1, j + 1)
      BY <1>3, <3>1
    <3>5. \A i \in 0 .. j + 1 : i \in 0 .. j \/ i = j + 1
      BY <3>1
    <3> HIDE DEF Ahead
    <3> QED
      BY <3>1, <3>3, <3>4, <3>5
  <2> HIDE DEF S
  <2>3. \A j \in 0 .. n : j \in S
    BY <1>1, <2>1, <2>2, UpInduction
  <2>4. n \in S
    BY <1>1, <2>3
  <2> HIDE DEF Ahead
  <2> QED
    BY <2>4 DEF S
<1> HIDE DEF S
<1> DEFINE off == [i \in 1 .. n + 1 |-> L(i - 1) + 1]
<1>7. off \in [1 .. n + 1 -> Nat \ {0}]
  <2>1. \A i \in 1 .. n + 1 : L(i - 1) + 1 \in Nat \ {0}
    <3> TAKE i \in 1 .. n + 1
    <3>1. i - 1 \in 0 .. n
      BY <1>1
    <3>2. L(i - 1) \in Nat
      BY <1>3, <3>1
    <3> HIDE DEF L
    <3> QED
      BY <3>2
  <2> HIDE DEF L
  <2> QED
    BY <2>1
<1>8. off[1] = 1 /\ Len(s) = off[n + 1] - 1
  <2>1. 1 \in 1 .. n + 1 /\ n + 1 \in 1 .. n + 1 /\ 1 - 1 = 0 /\ (n + 1) - 1 = n /\ n \in 0 .. n
    BY <1>1
  <2>2. off[1] = L(0) + 1 /\ off[n + 1] = L(n) + 1
    <3> HIDE DEF L
    <3> QED
      BY <2>1
  <2>3. L(n) \in Nat /\ Len(s) = L(n)
    BY <1>3, <2>1
  <2> HIDE DEF L, off
  <2> QED
    BY <1>4, <2>2, <2>3
<1>9. ASSUME NEW i \in 1 .. n
      PROVE  /\ off[i + 1] = off[i] + Len(ss[i])
             /\ \A k \in 1 .. Len(ss[i]) : s[off[i] + k - 1] = ss[i][k]
  <2>1. i \in 1 .. n + 1 /\ i + 1 \in 1 .. n + 1 /\ (i + 1) - 1 = i /\ i \in 0 .. n /\ i - 1 \in 0 .. n
    BY <1>1
  <2>2. off[i] = L(i - 1) + 1 /\ off[i + 1] = L(i) + 1
    <3> HIDE DEF L
    <3> QED
      BY <2>1
  <2>3. L(i - 1) \in Nat /\ L(i) = L(i - 1) + Len(ss[i]) /\ Len(ss[i]) \in Nat
    BY <1>1, <1>3, <1>5, <2>1
  <2>4. \A k \in 1 .. L(i) : s[k] = f[i][k]
    BY <1>6, <2>1
  <2>5. \A k \in 1 .. L(i) : ~(k <= L(i - 1)) => f[i][k] = ss[i][k - L(i - 1)]
    BY <1>5
  <2> HIDE DEF off, L, s
  <2>6. off[i + 1] = off[i] + Len(ss[i])
    <3> DEFINE a == L(i - 1)
               b == L(i)
               c == Len(ss[i])
    <3>1. a \in Nat /\ b = a + c /\ c \in Nat /\ off[i] = a + 1 /\ off[i + 1] = b + 1
      BY <2>2, <2>3
    <3> HIDE DEF a, b, c
    <3>2. off[i + 1] = off[i] + c
      BY <3>1
    <3> QED
      BY <3>2 DEF c
  <2>7. ASSUME NEW k \in 1 .. Len(ss[i]) PROVE s[off[i] + k - 1] = ss[i][k]
    <3> DEFINE a == L(i - 1)
               j == a + k
    <3>1. k \in Nat /\ k \in 1 .. Len(ss[i]) /\ a \in Nat /\ L(i) = a + Len(ss[i]) /\ off[i] = a + 1
      BY <2>2, <2>3
    <3> HIDE DEF a
    <3>2. off[i] + k - 1 = j /\ j \in 1 .. L(i) /\ ~(j <= a) /\ j - a = k
      BY <2>2, <3>1
    <3> HIDE DEF j
    <3>3. s[j] = f[i][j]
      BY <2>4, <3>2
    <3>4. f[i][j] = ss[i][j - a]
      BY <2>5, <3>2 DEF a
    <3> QED
      BY <3>2, <3>3, <3>4
  <2> QED
    BY <2>6, <2>7
<1>10. FlattenSeq(ss) = s
  BY <1>2
<1> HIDE DEF off, s
<1>11. Parts(ss, s, off)
  BY <1>8, <1>9 DEF Parts, n
<1> QED
  BY <1>3, <1>7, <1>10, <1>11 DEF n

\* What is put together from the end is put together from the start too.
LEMMA ChainFlatten ==
  ASSUME NEW A, NEW ss \in Seq(Seq(A)), NEW p,
         p[Len(ss) + 1] = <<>>, \A i \in 1 .. Len(ss) : p[i] = ss[i] \o p[i + 1]
  PROVE  p[1] = FlattenSeq(ss)
<1> DEFINE n == Len(ss)
<1>0. \A a, b, c \in Seq(A) : (a \o b) \o c = a \o (b \o c)
  BY ConcatAssociative
<1>1. n \in Nat /\ \A i \in 1 .. n : ss[i] \in Seq(A)
  BY ElementOfSeq, LenProperties
<1>2. PICK f \in [0 .. n -> Seq(A)] :
        /\ f[0] = <<>> /\ \A i \in 1 .. n : f[i] = f[i - 1] \o ss[i]
        /\ FlattenSeq(ss) = f[n]
  BY FlattenIs
<1>3. p[n + 1] = <<>> /\ \A i \in 1 .. n : p[i] = ss[i] \o p[i + 1]
  OBVIOUS
<1> HIDE DEF n
<1>4. \A j \in 0 .. n : p[j + 1] \in Seq(A)
  <2> DEFINE S == {j \in 0 .. n : p[j + 1] \in Seq(A)}
  <2>1. n \in S
    <3>1. n \in 0 .. n
      BY <1>1
    <3>2. p[n + 1] \in Seq(A)
      BY <1>3
    <3> QED
      BY <3>1, <3>2
  <2>2. ASSUME NEW j \in 1 .. n, j \in S PROVE j - 1 \in S
    <3>1. j - 1 \in 0 .. n /\ (j - 1) + 1 = j
      BY <1>1
    <3>2. ss[j] \in Seq(A) /\ p[j + 1] \in Seq(A)
      BY <1>1, <2>2
    <3>3. ss[j] \o p[j + 1] \in Seq(A)
      BY <3>2, ConcatProperties
    <3>4. p[j] \in Seq(A)
      BY <1>3, <3>3
    <3> QED
      BY <3>1, <3>4
  <2> HIDE DEF S
  <2>3. \A j \in 0 .. n : j \in S
    BY <1>1, <2>1, <2>2, DownInduction
  <2> QED
    BY <2>3 DEF S
<1>5. \A j \in 0 .. n : p[1] = f[j] \o p[j + 1]
  <2> DEFINE S == {j \in 0 .. n : p[1] = f[j] \o p[j + 1]}
  <2>1. 0 \in S
    <3>1. 0 \in 0 .. n /\ 0 + 1 = 1
      BY <1>1
    <3>2. p[1] \in Seq(A)
      BY <1>4, <3>1
    <3>3. <<>> \o p[1] = p[1]
      BY <3>2, ConcatEmptySeq
    <3>4. f[0] = <<>>
      BY <1>2
    <3>5. p[1] = f[0] \o p[0 + 1]
      BY <3>1, <3>3, <3>4
    <3> QED
      BY <3>1, <3>5
  <2>2. ASSUME NEW j \in 0 .. n - 1, j \in S PROVE j + 1 \in S
    <3> DEFINE i == j + 1
    <3>1. i \in 1 .. n /\ i \in 0 .. n /\ i - 1 = j /\ j \in 0 .. n
      BY <1>1
    <3> HIDE DEF i
    <3>2. p[1] = f[j] \o p[i]
      BY <2>2 DEF i
    <3>3. p[i] = ss[i] \o p[i + 1] /\ f[i] = f[j] \o ss[i]
      <4>1. f[i] = f[i - 1] \o ss[i]
        BY <1>2, <3>1
      <4> QED
        BY <1>3, <3>1, <4>1
    <3>4. f[j] \in Seq(A) /\ ss[i] \in Seq(A) /\ p[i + 1] \in Seq(A)
      BY <1>1, <1>2, <1>4, <3>1
    <3>5. f[j] \o (ss[i] \o p[i + 1]) = (f[j] \o ss[i]) \o p[i + 1]
      <4> DEFINE a == f[j]
                 b == ss[i]
                 c == p[i + 1]
      <4>1. a \in Seq(A) /\ b \in Seq(A) /\ c \in Seq(A)
        BY <3>4
      <4> HIDE DEF a, b, c
      <4>2. (a \o b) \o c = a \o (b \o c)
        BY <4>1, <1>0
      <4> QED
        BY <4>2 DEF a, b, c
    <3>6. p[1] = f[i] \o p[i + 1]
      BY <3>2, <3>3, <3>5
    <3>7. i \in S
      BY <3>1, <3>6
    <3> QED
      BY <3>7 DEF i
  <2> HIDE DEF S
  <2>3. \A j \in 0 .. n : j \in S
    BY <1>1, <2>1, <2>2, UpInduction
  <2> QED
    BY <2>3 DEF S
<1>6. p[1] = f[n] \o <<>> /\ f[n] \in Seq(A)
  <2>1. n \in 0 .. n
    BY <1>1
  <2>2. p[1] = f[n] \o p[n + 1]
    BY <1>5, <2>1
  <2> QED
    BY <1>2, <1>3, <2>1, <2>2
<1>7. f[n] \o <<>> = f[n]
  BY <1>6, ConcatEmptySeq
<1> QED
  BY <1>2, <1>6, <1>7

\* A sequence put together has no more elements of B than it has parts that may
\* have one, if these have at most one element.
Marked(s, B) == {j \in 1 .. Len(s) : s[j] \in B}

LEMMA MarkedParts ==
  ASSUME NEW A, NEW B, NEW ss \in Seq(Seq(A)), NEW H \in SUBSET (1 .. Len(ss)),
         \A i \in H : Len(ss[i]) <= 1,
         \A i \in (1 .. Len(ss)) \ H : \A k \in 1 .. Len(ss[i]) : ss[i][k] \notin B
  PROVE  /\ IsFiniteSet(Marked(FlattenSeq(ss), B)) /\ IsFiniteSet(H)
         /\ Cardinality(Marked(FlattenSeq(ss), B)) <= Cardinality(H)
<1> DEFINE n == Len(ss)
           G(i) == H \cap (1 .. i)
<1>1. n \in Nat /\ \A i \in 1 .. n : ss[i] \in Seq(A)
  BY ElementOfSeq, LenProperties
<1>2. PICK f \in [0 .. n -> Seq(A)] :
        /\ f[0] = <<>> /\ \A i \in 1 .. n : f[i] = f[i - 1] \o ss[i]
        /\ FlattenSeq(ss) = f[n]
  BY FlattenIs
<1> HIDE DEF n
<1>3. \A i \in 0 .. n : IsFiniteSet(G(i)) /\ Cardinality(G(i)) \in Nat
  <2> TAKE i \in 0 .. n
  <2>1. IsFiniteSet(1 .. i)
    <3>1. 1 \in Int /\ i \in Int
      BY <1>1
    <3> QED
      BY <3>1, FS_Interval
  <2>2. G(i) \in SUBSET (1 .. i)
    OBVIOUS
  <2> HIDE DEF G
  <2> QED
    BY <2>1, <2>2, FS_Subset, FS_CardinalityType
<1> DEFINE S == {i \in 0 .. n : /\ IsFiniteSet(Marked(f[i], B))
                               /\ Cardinality(Marked(f[i], B)) <= Cardinality(G(i))}
<1>4. 0 \in S
  <2>1. Marked(<<>>, B) = {}
    BY DEF Marked
  <2>2. IsFiniteSet({}) /\ Cardinality({}) = 0 /\ 0 \in 0 .. n
    BY <1>1, FS_EmptySet
  <2>3. Marked(f[0], B) = {}
    BY <1>2, <2>1
  <2> HIDE DEF G
  <2>4. Cardinality(Marked(f[0], B)) <= Cardinality(G(0))
    BY <1>3, <2>2, <2>3
  <2> QED
    BY <2>2, <2>3, <2>4
<1>5. ASSUME NEW i \in 0 .. n - 1, i \in S PROVE i + 1 \in S
  <2>1. i \in 0 .. n /\ i + 1 \in 0 .. n /\ i + 1 \in 1 .. n /\ (i + 1) - 1 = i
    BY <1>1
  <2> DEFINE a == f[i]
             b == ss[i + 1]
             c == f[i + 1]
  <2>2. a \in Seq(A) /\ b \in Seq(A) /\ c = a \o b
    BY <1>1, <1>2, <2>1
  <2> HIDE DEF a, b, c
  <2>3. /\ Len(a) \in Nat /\ Len(b) \in Nat /\ Len(c) = Len(a) + Len(b)
        /\ \A j \in 1 .. Len(c) : c[j] = IF j <= Len(a) THEN a[j] ELSE b[j - Len(a)]
    BY <2>2, ConcatProperties, LenProperties
  <2>4. IsFiniteSet(Marked(a, B)) /\ Cardinality(Marked(a, B)) <= Cardinality(G(i))
    BY <1>5 DEF a
  <2>5. CASE i + 1 \notin H
    <3>1. \A k \in 1 .. Len(b) : b[k] \notin B
      BY <1>1, <2>1, <2>5 DEF b, n
    <3>2. \A j \in 1 .. Len(c) : c[j] \in B => j \in 1 .. Len(a) /\ c[j] = a[j]
      <4> TAKE j \in 1 .. Len(c)
      <4>1. CASE j <= Len(a)
        BY <2>3, <4>1
      <4>2. CASE ~(j <= Len(a))
        <5>1. j - Len(a) \in 1 .. Len(b) /\ c[j] = b[j - Len(a)]
          BY <2>3, <4>2
        <5> QED
          BY <3>1, <5>1
      <4> QED
        BY <4>1, <4>2
    <3>3. \A j \in 1 .. Len(a) : j \in 1 .. Len(c) /\ c[j] = a[j]
      BY <2>3
    <3>4. Marked(c, B) = Marked(a, B)
      BY <3>2, <3>3 DEF Marked
    <3>5. G(i + 1) = G(i)
      BY <2>1, <2>5
    <3> HIDE DEF G
    <3> QED
      BY <2>1, <2>4, <3>4, <3>5 DEF c
  <2>6. CASE i + 1 \in H
    <3>1. Len(b) <= 1
      BY <2>6 DEF b
    <3>2. Marked(c, B) \subseteq Marked(a, B) \cup {Len(a) + 1}
      <4> SUFFICES ASSUME NEW j \in 1 .. Len(c), c[j] \in B, j # Len(a) + 1
                   PROVE  j \in 1 .. Len(a) /\ a[j] \in B
        BY DEF Marked
      <4>1. j <= Len(a)
        BY <2>3, <3>1
      <4> QED
        BY <2>3, <4>1
    <3>3. /\ IsFiniteSet(Marked(a, B) \cup {Len(a) + 1})
          /\ Cardinality(Marked(a, B) \cup {Len(a) + 1}) <= Cardinality(Marked(a, B)) + 1
      <4> DEFINE M == Marked(a, B)
                 e == Len(a) + 1
      <4>1. IsFiniteSet(M)
        BY <2>4
      <4> HIDE DEF M, e
      <4>2. Cardinality(M) \in Nat
        BY <4>1, FS_CardinalityType
      <4>3. /\ IsFiniteSet(M \cup {e})
            /\ Cardinality(M \cup {e}) = IF e \in M THEN Cardinality(M) ELSE Cardinality(M) + 1
        BY <4>1, FS_AddElement
      <4>4. Cardinality(M \cup {e}) <= Cardinality(M) + 1
        BY <4>2, <4>3
      <4> QED
        BY <4>3, <4>4 DEF M, e
    <3>4. G(i + 1) = G(i) \cup {i + 1} /\ i + 1 \notin G(i)
      <4>1. \A k : k \in 1 .. i + 1 <=> k \in 1 .. i \/ k = i + 1
        BY <2>1
      <4> QED
        BY <2>1, <2>6, <4>1
    <3> HIDE DEF G
    <3>5. Cardinality(G(i + 1)) = Cardinality(G(i)) + 1
      BY <1>3, <2>1, <3>4, FS_AddElement
    <3>6. /\ IsFiniteSet(Marked(c, B))
          /\ Cardinality(Marked(c, B)) <= Cardinality(Marked(a, B) \cup {Len(a) + 1})
      BY <3>2, <3>3, FS_Subset
    <3>7. /\ Cardinality(Marked(c, B)) \in Nat /\ Cardinality(Marked(a, B)) \in Nat
          /\ Cardinality(Marked(a, B) \cup {Len(a) + 1}) \in Nat
      BY <2>4, <3>3, <3>6, FS_CardinalityType
    <3>8. Cardinality(Marked(c, B)) <= Cardinality(G(i + 1))
      BY <1>3, <2>1, <2>4, <3>3, <3>5, <3>6, <3>7
    <3> QED
      BY <2>1, <3>6, <3>8 DEF c
  <2> QED
    BY <2>5, <2>6
<1>6. n \in S
  <2>1. n \in 0 .. n
    BY <1>1
  <2> HIDE DEF S
  <2> QED
    BY <1>1, <1>4, <1>5, <2>1, UpInduction
<1>7. G(n) = H
  BY DEF n
<1> HIDE DEF G
<1>8. n \in 0 .. n
  BY <1>1
<1> QED
  BY <1>2, <1>3, <1>6, <1>7, <1>8

-----------------------------------------------------------------------------
(* The number of a placeholder.                                            *)

\* Decimal is the number of its digits.
LEMMA DecimalIs ==
  ASSUME NEW d \in Seq(Nat)
  PROVE  \E f \in [0 .. Len(d) -> Nat] :
           /\ f[0] = 0 /\ \A i \in 1 .. Len(d) : f[i] = 10 * f[i - 1] + d[i]
           /\ Decimal(d) = f[Len(d)]
<1> DEFINE n == Len(d)
           F(p) == [i \in 0 .. n |-> IF i = 0 THEN 0 ELSE 10 * p[i - 1] + d[i]]
           G == {<<i, v, 10 * v + d[i]>> : i \in 1 .. n, v \in Nat}
<1>1. n \in Nat /\ \A i \in 1 .. n : d[i] \in Nat
  BY ElementOfSeq
<1>2. \A i \in 1 .. n : \A v \in Nat : \E w \in Nat : <<i, v, w>> \in G
  <2> TAKE i \in 1 .. n, v \in Nat
  <2>1. 10 * v + d[i] \in Nat
    BY <1>1
  <2> QED
    BY <2>1
<1>3. PICK f \in [0 .. n -> Nat] : f[0] = 0 /\ \A i \in 1 .. n : <<i, f[i - 1], f[i]>> \in G
  <2>1. Steppable(n, Nat, 0, G)
    BY <1>1, <1>2 DEF Steppable
  <2> HIDE DEF G, n
  <2>2. Stepped(n, Nat, 0, G)
    BY <2>1, RecursionExists, Zenon
  <2> QED
    BY <2>2 DEF Stepped
<1>4. \A i \in 1 .. n : f[i] = 10 * f[i - 1] + d[i]
  BY <1>3
<1>5. f = F(f)
  <2>1. \A i \in 0 .. n : f[i] = IF i = 0 THEN 0 ELSE 10 * f[i - 1] + d[i]
    <3>1. \A i \in 0 .. n : i = 0 \/ i \in 1 .. n
      BY <1>1
    <3> QED
      BY <1>3, <1>4, <3>1
  <2>2. f = [i \in 0 .. n |-> f[i]]
    OBVIOUS
  <2> QED
    BY <2>1, <2>2
<1> DEFINE p == CHOOSE p : p = F(p)
<1>6. p = F(p)
  BY <1>5
<1>7. Decimal(d) = p[n]
  BY DEF Decimal
<1>8. \A i \in 0 .. n : p[i] = IF i = 0 THEN 0 ELSE 10 * p[i - 1] + d[i]
  BY <1>6
<1> HIDE DEF p
<1>9. \A i \in 0 .. n : i \in {m \in 0 .. n : p[m] = f[m]}
  <2> DEFINE S == {m \in 0 .. n : p[m] = f[m]}
  <2>1. 0 \in S
    BY <1>1, <1>3, <1>8
  <2>2. ASSUME NEW i \in 0 .. n - 1, i \in S PROVE i + 1 \in S
    <3>1. i + 1 \in 1 .. n /\ i + 1 \in 0 .. n /\ (i + 1) - 1 = i /\ i + 1 # 0
      BY <1>1
    <3>2. p[i + 1] = 10 * p[i] + d[i + 1]
      BY <1>8, <3>1
    <3>3. f[i + 1] = 10 * f[i] + d[i + 1]
      BY <1>4, <3>1
    <3>4. p[i] = f[i]
      BY <2>2
    <3> QED
      BY <3>1, <3>2, <3>3, <3>4
  <2> HIDE DEF S
  <2>3. \A i \in 0 .. n : i \in S
    BY <1>1, <2>1, <2>2, UpInduction
  <2> QED
    BY <2>3 DEF S
<1>10. p[n] = f[n]
  <2>1. n \in 0 .. n
    BY <1>1
  <2> QED
    BY <1>9, <2>1
<1> QED
  BY <1>3, <1>4, <1>7, <1>10

\* A number is zero only if all its digits are.
LEMMA DecimalZero ==
  ASSUME NEW d \in Seq(Nat)
  PROVE  Decimal(d) \in Nat /\ (Decimal(d) = 0 <=> \A i \in 1 .. Len(d) : d[i] = 0)
<1> DEFINE n == Len(d)
<1>1. PICK f \in [0 .. n -> Nat] :
           /\ f[0] = 0 /\ \A i \in 1 .. n : f[i] = 10 * f[i - 1] + d[i]
           /\ Decimal(d) = f[n]
  BY DecimalIs
<1>2. n \in Nat /\ \A i \in 1 .. n : d[i] \in Nat
  BY ElementOfSeq
<1> HIDE DEF n
<1> DEFINE S == {m \in 0 .. n : f[m] = 0 <=> \A i \in 1 .. m : d[i] = 0}
<1>3. 0 \in S
  BY <1>1, <1>2
<1>4. ASSUME NEW m \in 0 .. n - 1, m \in S PROVE m + 1 \in S
  <2>1. m + 1 \in 1 .. n /\ m + 1 \in 0 .. n /\ (m + 1) - 1 = m /\ m \in 0 .. n
    BY <1>2
  <2>2. f[m + 1] = 10 * f[m] + d[m + 1]
    BY <1>1, <2>1
  <2>3. f[m] \in Nat /\ d[m + 1] \in Nat
    BY <1>2, <2>1
  <2>4. f[m + 1] = 0 <=> f[m] = 0 /\ d[m + 1] = 0
    BY <2>2, <2>3
  <2>5. (\A i \in 1 .. m + 1 : d[i] = 0) <=> (\A i \in 1 .. m : d[i] = 0) /\ d[m + 1] = 0
    <3>1. \A i : i \in 1 .. m + 1 <=> i \in 1 .. m \/ i = m + 1
      BY <2>1
    <3> QED
      BY <3>1
  <2> QED
    BY <1>4, <2>1, <2>4, <2>5
<1>5. \A m \in 0 .. n : m \in S
  <2> HIDE DEF S
  <2> QED
    BY <1>2, <1>3, <1>4, UpInduction
<1>6. n \in 0 .. n
  BY <1>2
<1> QED
  BY <1>1, <1>5, <1>6 DEF n

\* One digit is its own number.
LEMMA DecimalSingle ==
  ASSUME NEW x \in Nat
  PROVE  Decimal(<<x>>) = x
<1>1. <<x>> \in Seq(Nat) /\ Len(<<x>>) = 1 /\ <<x>>[1] = x
  OBVIOUS
<1>2. PICK f \in [0 .. 1 -> Nat] :
           /\ f[0] = 0 /\ \A i \in 1 .. 1 : f[i] = 10 * f[i - 1] + <<x>>[i]
           /\ Decimal(<<x>>) = f[1]
  BY <1>1, DecimalIs
<1>3. f[1] = 10 * f[0] + x
  BY <1>1, <1>2
<1> QED
  BY <1>2, <1>3

\* The digits.
LEMMA DigitIs ==
  /\ DOMAIN Digit = {"0", "1", "2", "3"}
  /\ Digit["0"] = 0 /\ Digit["1"] = 1 /\ Digit["2"] = 2
  /\ \A c \in DOMAIN Digit : Digit[c] \in Nat /\ (Digit[c] = 0 <=> c \notin {"1", "2", "3"})
<1>1. DOMAIN Digit = {"0", "1", "2", "3"}
  BY DEF Digit
<1>2. Digit["0"] = 0 /\ Digit["1"] = 1 /\ Digit["2"] = 2 /\ Digit["3"] = 3
  BY DEF Digit
<1> QED
  BY <1>1, <1>2

\* atoi is not 0 at another digit than 0, and is 0 if there is none.
LEMMA AtoiZero ==
  ASSUME NEW A, NEW h \in Seq(A), NEW k \in 1 .. Len(h)
  PROVE  /\ atoi(h, k) \in Nat
         /\ h[k] \in {"1", "2", "3"} => atoi(h, k) # 0
         /\ (\A i \in 1 .. Len(h) : h[i] \notin {"1", "2", "3"}) => atoi(h, k) = 0
<1> DEFINE n == Len(h)
           E == {e \in k - 1 .. n : \A i \in k .. e : h[i] \in DOMAIN Digit}
           end == Max(E)
           d == [i \in 1 .. end - k + 1 |-> Digit[h[k - 1 + i]]]
<1>1. n \in Nat
  BY LenProperties
<1>2. E \subseteq 0 .. n /\ k - 1 \in E
  BY <1>1
<1>3. end \in E /\ \A e \in E : e <= end
  <2> HIDE DEF E, n
  <2> QED
    BY <1>1, <1>2, MaxIs
<1>4. end \in k - 1 .. n /\ \A i \in k .. end : h[i] \in DOMAIN Digit
  <2> HIDE DEF end
  <2> QED
    BY <1>3
<1>5. h[k] \in DOMAIN Digit => k \in E
  <2>1. \A i \in k .. k : i = k
    OBVIOUS
  <2>2. k \in k - 1 .. n
    BY <1>1
  <2> QED
    BY <2>1, <2>2
<1> HIDE DEF end, E, n
<1> DEFINE m == end - k + 1
<1>6. m \in Nat /\ \A i \in 1 .. m : k - 1 + i \in k .. end /\ k - 1 + i \in 1 .. n
  BY <1>1, <1>4 DEF n
<1>7. \A i \in 1 .. m : Digit[h[k - 1 + i]] \in Nat
  BY <1>4, <1>6, DigitIs
<1>8. d \in Seq(Nat) /\ Len(d) = m /\ \A i \in 1 .. m : d[i] = Digit[h[k - 1 + i]]
  <2> HIDE DEF m
  <2>1. d = [i \in 1 .. m |-> Digit[h[k - 1 + i]]]
    BY DEF m
  <2> HIDE DEF d
  <2>2. d \in [1 .. m -> Nat]
    BY <1>7, <2>1
  <2>3. \A i \in 1 .. m : d[i] = Digit[h[k - 1 + i]]
    BY <2>1
  <2> QED
    BY <1>6, <2>2, <2>3
<1>9. atoi(h, k) = Decimal(d)
  BY DEF atoi, end, E, n, m
<1> HIDE DEF d
<1>10. Decimal(d) \in Nat /\ (Decimal(d) = 0 <=> \A i \in 1 .. m : d[i] = 0)
  BY <1>8, DecimalZero
<1>11. ASSUME h[k] \in {"1", "2", "3"} PROVE Decimal(d) # 0
  <2>1. h[k] \in DOMAIN Digit /\ Digit[h[k]] # 0
    BY <1>11, DigitIs
  <2>2. k <= end
    BY <1>3, <1>5, <2>1
  <2>3. 1 \in 1 .. m /\ k - 1 + 1 = k
    BY <1>4, <2>2
  <2>4. d[1] = Digit[h[k]]
    BY <1>8, <2>3
  <2> QED
    BY <1>10, <2>1, <2>3, <2>4
<1>12. ASSUME \A i \in 1 .. n : h[i] \notin {"1", "2", "3"} PROVE Decimal(d) = 0
  <2>1. ASSUME NEW i \in 1 .. m PROVE d[i] = 0
    <3>1. h[k - 1 + i] \in DOMAIN Digit /\ h[k - 1 + i] \notin {"1", "2", "3"}
      BY <1>4, <1>6, <1>12
    <3> QED
      BY <1>8, <3>1, DigitIs
  <2> QED
    BY <1>10, <2>1
<1> QED
  BY <1>9, <1>10, <1>11, <1>12 DEF n

\* The number of a placeholder is 0 if it has no other digit.
LEMMA NumberZero ==
  ASSUME NEW A, NEW h \in Seq(A)
  PROVE  Number(h) \in Nat /\ (Number(h) = 0 <=> Range(h) \cap {"1", "2", "3"} = {})
<1> DEFINE n == Len(h)
           d == [k \in 1 .. n |-> atoi(h, k)]
<1>1. n \in Nat /\ DOMAIN h = 1 .. n
  BY LenProperties
<1>2. \A k \in 1 .. n : /\ atoi(h, k) \in Nat
                        /\ h[k] \in {"1", "2", "3"} => atoi(h, k) # 0
                        /\ (\A i \in 1 .. n : h[i] \notin {"1", "2", "3"}) => atoi(h, k) = 0
  BY AtoiZero
<1> HIDE DEF n
<1>3. d \in Seq(Nat) /\ Len(d) = n /\ \A k \in 1 .. n : d[k] = atoi(h, k)
  <2>1. d \in [1 .. n -> Nat] /\ \A k \in 1 .. n : d[k] = atoi(h, k)
    BY <1>2
  <2> HIDE DEF d
  <2> QED
    BY <1>1, <2>1
<1>4. Number(h) = Decimal(d)
  BY DEF Number, n
<1> HIDE DEF d
<1>5. Decimal(d) \in Nat /\ (Decimal(d) = 0 <=> \A i \in 1 .. n : d[i] = 0)
  BY <1>3, DecimalZero
<1>6. Range(h) \cap {"1", "2", "3"} = {} <=> \A i \in 1 .. n : h[i] \notin {"1", "2", "3"}
  BY <1>1 DEF Range
<1> QED
  BY <1>2, <1>3, <1>4, <1>5, <1>6

\* A placeholder of one digit has that number.
LEMMA NumberOfDigit ==
  ASSUME NEW c \in DOMAIN Digit
  PROVE  Number(<<c>>) = Digit[c]
<1> DEFINE h == <<c>>
           E == {e \in 1 - 1 .. Len(h) : \A i \in 1 .. e : h[i] \in DOMAIN Digit}
<1>1. Len(h) = 1 /\ h[1] = c
  OBVIOUS
<1> HIDE DEF h
<1>2. Max(E) = 1
  <2>1. E \subseteq 0 .. 1 /\ 1 \in E
    <3>1. \A i \in 1 .. 1 : i = 1
      OBVIOUS
    <3> QED
      BY <1>1, <3>1
  <2> HIDE DEF E
  <2>2. Max(E) \in E /\ 1 <= Max(E)
    BY <2>1, MaxIs
  <2>3. Max(E) \in 0 .. 1
    BY <2>1, <2>2
  <2> QED
    BY <2>2, <2>3
<1>3. atoi(h, 1) = Decimal([i \in 1 .. Max(E) - 1 + 1 |-> Digit[h[1 - 1 + i]]])
  BY DEF atoi
<1> HIDE DEF E
<1>4. [i \in 1 .. Max(E) - 1 + 1 |-> Digit[h[1 - 1 + i]]] = <<Digit[c]>>
  <2>1. Max(E) - 1 + 1 = 1 /\ 1 - 1 + 1 = 1
    BY <1>2
  <2>2. \A i \in 1 .. 1 : i = 1
    OBVIOUS
  <2> QED
    BY <1>1, <2>1, <2>2
<1>5. atoi(h, 1) = Digit[c]
  BY <1>3, <1>4, DigitIs, DecimalSingle
<1>6. Number(h) = Decimal([k \in 1 .. Len(h) |-> atoi(h, k)])
  BY DEF Number
<1>7. [k \in 1 .. Len(h) |-> atoi(h, k)] = <<atoi(h, 1)>>
  <2>1. \A i \in 1 .. 1 : i = 1
    OBVIOUS
  <2> QED
    BY <1>1, <2>1
<1> QED
  BY <1>5, <1>6, <1>7, DigitIs, DecimalSingle DEF h

-----------------------------------------------------------------------------
(* Templates.                                                              *)

Inner == Chars \ {"}"}
PieceSet == {Plain(c) : c \in Chars} \cup {Hole(h) : h \in Seq(Inner)} \cup {Unclosed(h) : h \in Seq(Inner)}
IsTemplate(t) == t \in Seq(PieceSet) /\ Readable(t)

\* The characters.
LEMMA CharsHave ==
  /\ {"t", "$", "{", "}", "0", "1", "2", "3"} = Chars /\ "$" \in Inner /\ "{" \in Inner
  /\ Inner \subseteq Chars /\ Seq(Inner) \subseteq Seq(Chars)
<1>1. {"t", "$", "{", "}", "0", "1", "2", "3"} = Chars
  BY DEF Chars, Digit
<1>2. Inner \subseteq Chars /\ "$" \in Inner /\ "{" \in Inner
  BY <1>1 DEF Inner
<1> QED
  BY <1>1, <1>2, SeqMonotonic

\* Sequences of one and of two elements.
LEMMA ShortSequences ==
  /\ \A S : \A c \in S : <<c>> \in Seq(S) /\ Len(<<c>>) = 1 /\ <<c>>[1] = c
  /\ \A S : \A c, d \in S : <<c, d>> \in Seq(S) /\ Len(<<c, d>>) = 2 /\ <<c, d>>[1] = c /\ <<c, d>>[2] = d
OBVIOUS

\* Each piece of the constant is one of a template.
LEMMA PiecesArePieces == Pieces \subseteq PieceSet
<1> SUFFICES ASSUME NEW p \in Pieces PROVE p \in PieceSet
  OBVIOUS
<1>1. CASE \E c \in Chars : p = Plain(c)
  BY <1>1 DEF PieceSet
<1>2. CASE p.s \in Seq(Chars \ {"}"}) /\ p \in {Hole(p.s), Unclosed(p.s)}
  <2> DEFINE h == p.s
  <2>1. h \in Seq(Inner) /\ (p = Hole(h) \/ p = Unclosed(h))
    BY <1>2 DEF Inner
  <2> HIDE DEF h
  <2> QED
    BY <2>1 DEF PieceSet
<1> QED
  BY <1>1, <1>2, PiecesAssumption

\* The characters of a placeholder, one by one.
LEMMA HoleSpelled ==
  ASSUME NEW h \in Seq(Inner)
  PROVE  LET n == Len(h)
             s == Spelled(Hole(h))
             u == Spelled(Unclosed(h))
         IN /\ n \in Nat /\ s \in Seq(Chars) /\ Len(s) = n + 3
            /\ s[1] = "$" /\ s[2] = "{" /\ s[n + 3] = "}" /\ \A k \in 1 .. n : s[k + 2] = h[k]
            /\ u \in Seq(Chars) /\ Len(u) = n + 2
            /\ u[1] = "$" /\ u[2] = "{" /\ \A k \in 1 .. n : u[k + 2] = h[k]
<1> DEFINE n == Len(h)
           b == <<"$", "{">>
           e == <<"}">>
           u == b \o h
           s == u \o e
<1>1. Spelled(Hole(h)) = s /\ Spelled(Unclosed(h)) = u \o <<>>
  BY DEF Spelled, Hole, Unclosed
<1>2. b \in Seq(Chars) /\ e \in Seq(Chars) /\ h \in Seq(Chars) /\ n \in Nat
  <2>1. "$" \in Chars /\ "{" \in Chars /\ "}" \in Chars
    BY CharsHave
  <2>2. h \in Seq(Chars)
    BY CharsHave
  <2>3. Len(h) \in Nat
    BY LenProperties
  <2>4. b \in Seq(Chars)
    BY <2>1, ShortSequences
  <2>5. e \in Seq(Chars)
    BY <2>1, ShortSequences
  <2> HIDE DEF b, e
  <2> QED
    BY <2>2, <2>3, <2>4, <2>5
<1>3. Len(b) = 2 /\ b[1] = "$" /\ b[2] = "{" /\ Len(e) = 1 /\ e[1] = "}"
  OBVIOUS
<1> HIDE DEF b, e
<1>4. /\ u \in Seq(Chars) /\ Len(u) = Len(b) + Len(h)
      /\ \A k \in 1 .. Len(b) + Len(h) : u[k] = IF k <= Len(b) THEN b[k] ELSE h[k - Len(b)]
  BY <1>2, ConcatProperties
<1> HIDE DEF u
<1>5. /\ s \in Seq(Chars) /\ Len(s) = Len(u) + Len(e)
      /\ \A k \in 1 .. Len(u) + Len(e) : s[k] = IF k <= Len(u) THEN u[k] ELSE e[k - Len(u)]
  <2>1. u \in Seq(Chars) /\ e \in Seq(Chars)
    BY <1>2, <1>4
  <2> QED
    BY <2>1, ConcatProperties
<1> HIDE DEF s
<1>6. u \o <<>> = u
  BY <1>4, ConcatEmptySeq
<1>7. Len(u) = n + 2 /\ \A k \in 1 .. n + 2 : u[k] = IF k <= 2 THEN b[k] ELSE h[k - 2]
  <2>1. 2 + n = n + 2
    BY <1>2
  <2> QED
    BY <1>3, <1>4, <2>1
<1>8. Len(s) = n + 3 /\ \A k \in 1 .. n + 3 : s[k] = IF k <= n + 2 THEN u[k] ELSE e[k - (n + 2)]
  <2>1. (n + 2) + 1 = n + 3
    BY <1>2
  <2> QED
    BY <1>3, <1>5, <1>7, <2>1
<1> HIDE DEF n
<1>9. u[1] = "$" /\ u[2] = "{" /\ \A k \in 1 .. n : u[k + 2] = h[k]
  <2>1. 1 \in 1 .. n + 2 /\ 2 \in 1 .. n + 2
    BY <1>2
  <2>2. \A k \in 1 .. n : k + 2 \in 1 .. n + 2 /\ ~(k + 2 <= 2) /\ (k + 2) - 2 = k
    BY <1>2
  <2> QED
    <3>1. u[1] = b[1] /\ u[2] = b[2]
      BY <1>7, <2>1
    <3>2. \A k \in 1 .. n : u[k + 2] = h[k]
      BY <1>7, <2>2
    <3> QED
      BY <1>3, <3>1, <3>2
<1>10. s[1] = "$" /\ s[2] = "{" /\ s[n + 3] = "}" /\ \A k \in 1 .. n : s[k + 2] = h[k]
  <2>1. /\ 1 \in 1 .. n + 3 /\ 1 <= n + 2 /\ 2 \in 1 .. n + 3 /\ 2 <= n + 2
        /\ n + 3 \in 1 .. n + 3 /\ ~(n + 3 <= n + 2) /\ (n + 3) - (n + 2) = 1
    BY <1>2
  <2>2. \A k \in 1 .. n : k + 2 \in 1 .. n + 3 /\ k + 2 <= n + 2
    BY <1>2
  <2> QED
    BY <1>3, <1>8, <1>9, <2>1, <2>2
<1> QED
  BY <1>1, <1>2, <1>4, <1>5, <1>6, <1>7, <1>8, <1>9, <1>10 DEF n

\* A piece is spelled by some characters, and tells its parts.
LEMMA PieceSpelled ==
  ASSUME NEW p \in PieceSet
  PROVE  /\ Spelled(p) \in Seq(Chars) /\ Len(Spelled(p)) \in Nat \ {0}
         /\ \A c \in Chars : p = Plain(c) => Spelled(p) = <<c>> /\ ~p.hole /\ p.s = <<c>>
         /\ \A h \in Seq(Inner) : p = Hole(h) => p.hole /\ p.s = h /\ p.end = <<"}">>
         /\ \A h \in Seq(Inner) : p = Unclosed(h) => p.hole /\ p.s = h /\ p.end = <<>>
<1>1. CASE \E c \in Chars : p = Plain(c)
  <2> PICK c \in Chars : p = Plain(c)
    BY <1>1
  <2>1. Spelled(p) = <<c>> /\ ~p.hole /\ p.s = <<c>>
    BY DEF Plain, Spelled
  <2>2. <<c>> \in Seq(Chars) /\ Len(<<c>>) = 1 /\ <<c>>[1] = c
    OBVIOUS
  <2>3. \A d : p = Plain(d) => d = c
    BY DEF Plain
  <2>4. \A h : p # Hole(h) /\ p # Unclosed(h)
    BY DEF Plain, Hole, Unclosed
  <2>5. Spelled(p) \in Seq(Chars) /\ Len(Spelled(p)) \in Nat \ {0}
    BY <2>1, <2>2
  <2>6. \A d \in Chars : p = Plain(d) => Spelled(p) = <<d>> /\ ~p.hole /\ p.s = <<d>>
    BY <2>1, <2>3
  <2> QED
    BY <2>4, <2>5, <2>6
<1>2. ASSUME NEW h \in Seq(Inner), p = Hole(h) \/ p = Unclosed(h)
      PROVE  Spelled(p) \in Seq(Chars) /\ Len(Spelled(p)) \in Nat \ {0}
  <2>1. Len(h) \in Nat /\ Len(h) + 3 \in Nat \ {0} /\ Len(h) + 2 \in Nat \ {0}
    BY LenProperties
  <2>2. /\ Spelled(Hole(h)) \in Seq(Chars) /\ Len(Spelled(Hole(h))) = Len(h) + 3
        /\ Spelled(Unclosed(h)) \in Seq(Chars) /\ Len(Spelled(Unclosed(h))) = Len(h) + 2
    BY HoleSpelled
  <2> QED
    BY <1>2, <2>1, <2>2
<1>3. \A h : /\ Hole(h).hole /\ Hole(h).s = h /\ Hole(h).end = <<"}">>
             /\ Unclosed(h).hole /\ Unclosed(h).s = h /\ Unclosed(h).end = <<>>
  BY DEF Hole, Unclosed
<1>4. \A h, c : Plain(c) # Hole(h) /\ Plain(c) # Unclosed(h)
  BY DEF Plain, Hole, Unclosed
<1> QED
  BY <1>1, <1>2, <1>3, <1>4 DEF PieceSet

\* The places of the pieces in a template that is spelled.
LEMMA SpellingParts ==
  ASSUME NEW t \in Seq(PieceSet)
  PROVE  /\ Spelling(t) \in Seq(Chars)
         /\ \E off \in [1 .. Len(t) + 1 -> Nat \ {0}] :
              Parts([i \in 1 .. Len(t) |-> Spelled(t[i])], Spelling(t), off)
<1> DEFINE n == Len(t)
           ss == [i \in 1 .. n |-> Spelled(t[i])]
<1>1. n \in Nat /\ DOMAIN t = 1 .. n /\ \A i \in 1 .. n : t[i] \in PieceSet
  BY ElementOfSeq, LenProperties
<1>2. \A i \in 1 .. n : Spelled(t[i]) \in Seq(Chars)
  BY <1>1, PieceSpelled
<1>3. ss \in Seq(Seq(Chars)) /\ Len(ss) = n
  <2> HIDE DEF n
  <2>1. ss \in [1 .. n -> Seq(Chars)]
    BY <1>2
  <2> QED
    BY <1>1, <2>1
<1>4. Spelling(t) = FlattenSeq(ss)
  BY <1>1 DEF Spelling
<1> HIDE DEF ss
<1>5. /\ FlattenSeq(ss) \in Seq(Chars)
      /\ \E off \in [1 .. Len(ss) + 1 -> Nat \ {0}] : Parts(ss, FlattenSeq(ss), off)
  BY <1>3, FlattenParts
<1> QED
  BY <1>3, <1>4, <1>5 DEF ss

\* The built-in templates, piece by piece.
LEMMA DigitHole ==
  ASSUME NEW c \in Inner
  PROVE  /\ <<c>> \in Seq(Inner) /\ Hole(<<c>>) \in PieceSet
         /\ LET s == Spelled(Hole(<<c>>))
            IN Len(s) = 4 /\ s[1] = "$" /\ s[2] = "{" /\ s[3] = c /\ s[4] = "}"
<1>1. <<c>> \in Seq(Inner) /\ Len(<<c>>) = 1 /\ <<c>>[1] = c /\ 1 \in 1 .. 1
  OBVIOUS
<1> DEFINE h == <<c>>
           s == Spelled(Hole(h))
<1> HIDE DEF h
<1>2. /\ Len(s) = Len(h) + 3
      /\ s[1] = "$" /\ s[2] = "{" /\ s[Len(h) + 3] = "}" /\ \A k \in 1 .. Len(h) : s[k + 2] = h[k]
  BY <1>1, HoleSpelled DEF h
<1>3. Len(h) + 3 = 4 /\ 1 + 2 = 3 /\ Len(h) = 1 /\ h[1] = c
  BY <1>1 DEF h
<1> HIDE DEF s
<1>4. Len(s) = 4 /\ s[4] = "}" /\ s[3] = c
  BY <1>1, <1>2, <1>3
<1>5. Hole(h) \in PieceSet
  BY <1>1 DEF PieceSet, h
<1> QED
  BY <1>1, <1>2, <1>4, <1>5 DEF s, h

\* The pieces of the built-in templates.
LEMMA DefaultPieces ==
  /\ Plain("t") \in PieceSet /\ Spelled(Plain("t")) = <<"t">> /\ Plain("t") # Plain("$")
  /\ \A c \in {"0", "1", "2"} :
       /\ Hole(<<c>>) \in PieceSet /\ Hole(<<c>>).hole /\ Hole(<<c>>) # Plain("$")
       /\ Hole(<<c>>).s = <<c>> /\ Hole(<<c>>).end # <<>>
  /\ ~Plain("t").hole /\ Plain("t").s = <<"t">>
<1>1. Plain("t") \in PieceSet
  BY CharsHave DEF PieceSet
<1>2. Spelled(Plain("t")) = <<"t">> /\ ~Plain("t").hole /\ Plain("t").s = <<"t">>
  BY DEF Plain, Spelled
<1>3. Plain("t") # Plain("$")
  <2>1. Plain("t").s = <<"t">> /\ Plain("$").s = <<"$">>
    BY DEF Plain
  <2>2. <<"t">> # <<"$">>
    OBVIOUS
  <2> QED
    BY <2>1, <2>2
<1>4. ASSUME NEW c \in {"0", "1", "2"}
      PROVE  /\ Hole(<<c>>) \in PieceSet /\ Hole(<<c>>).hole /\ Hole(<<c>>) # Plain("$")
             /\ Hole(<<c>>).s = <<c>> /\ Hole(<<c>>).end # <<>>
  <2>1. c \in Inner
    BY CharsHave DEF Inner
  <2>2. Hole(<<c>>) \in PieceSet
    BY <2>1, DigitHole
  <2>3. \A h : Hole(h).hole /\ ~Plain("$").hole /\ Hole(h).s = h /\ Hole(h).end = <<"}">>
    BY DEF Hole, Plain
  <2>4. <<"}">> # <<>>
    OBVIOUS
  <2> QED
    BY <2>2, <2>3, <2>4
<1> QED
  BY <1>1, <1>2, <1>3, <1>4

\* The built-in templates are templates.
LEMMA DefaultsAreTemplates == IsTemplate(DefaultRate) /\ IsTemplate(DefaultDeny)
<1>1. ASSUME NEW t, t \in {DefaultRate, DefaultDeny}
      PROVE  \A i \in 1 .. Len(t) : t[i] \in {Plain("t"), Hole(<<"0">>), Hole(<<"1">>), Hole(<<"2">>)}
  <2>1. CASE t = DefaultRate
    <3>1. \A i \in 1 .. 3 : i = 1 \/ i = 2 \/ i = 3
      OBVIOUS
    <3> QED
      BY <2>1, <3>1 DEF DefaultRate
  <2>2. CASE t = DefaultDeny
    <3>1. \A i \in 1 .. 9 : i = 1 \/ i = 2 \/ i = 3 \/ i = 4 \/ i = 5 \/ i = 6 \/ i = 7 \/ i = 8 \/ i = 9
      OBVIOUS
    <3> QED
      BY <2>2, <3>1 DEF DefaultDeny
  <2> QED
    BY <1>1, <2>1, <2>2
<1>2. \A p \in {Plain("t"), Hole(<<"0">>), Hole(<<"1">>), Hole(<<"2">>)} :
        p \in PieceSet /\ p # Plain("$") /\ ~(p.hole /\ p.end = <<>>)
  <2>1. "0" \in {"0", "1", "2"} /\ "1" \in {"0", "1", "2"} /\ "2" \in {"0", "1", "2"}
    OBVIOUS
  <2> QED
    BY <2>1, DefaultPieces
<1>3. DefaultRate \in Seq(PieceSet) /\ DefaultDeny \in Seq(PieceSet)
  <2>1. /\ Plain("t") \in PieceSet /\ Hole(<<"0">>) \in PieceSet
        /\ Hole(<<"1">>) \in PieceSet /\ Hole(<<"2">>) \in PieceSet
    BY <1>2
  <2> QED
    BY <2>1 DEF DefaultRate, DefaultDeny
<1>4. ASSUME NEW t \in Seq(PieceSet), t \in {DefaultRate, DefaultDeny} PROVE Readable(t)
  <2>1. \A i \in 1 .. Len(t) - 1 : i \in 1 .. Len(t)
    BY LenProperties
  <2> QED
    BY <1>1, <1>2, <1>4, <2>1 DEF Readable
<1> QED
  BY <1>3, <1>4 DEF IsTemplate

\* A template is not NULL.
LEMMA TemplatesAreSet == \A t : IsTemplate(t) => Spelling(t) \in Seq(Chars) /\ Spelling(t) # NULL
  BY SpellingParts, NullAssumption DEF IsTemplate

-----------------------------------------------------------------------------
(* Substitution.                                                           *)

\* What the scan of s reads at its place i: where a placeholder is closed, and the
\* page from there on, if f is the page from each later place on.
Brace == "}"
Opens(s, i) == s[i] = "$" /\ i < Len(s) /\ s[i + 1] = "{"
CloseOf(s, j) == Min({k \in j .. Len(s) : s[k] = "}"} \cup {Len(s) + 1})
Scan(s, kind, r, f, i) ==
  IF i > Len(s) THEN <<>>
  ELSE IF Opens(s, i)
       THEN Fill(kind, r, Number(SubSeq(s, i + 2, CloseOf(s, i + 2) - 1))) \o f[CloseOf(s, i + 2) + 1]
       ELSE <<s[i]>> \o f[i + 1]

\* The end of a placeholder is the next brace, or the end of the template.
LEMMA CloseIs ==
  ASSUME NEW A, NEW s \in Seq(A), NEW j \in 1 .. Len(s) + 1
  PROVE  /\ CloseOf(s, j) \in j .. Len(s) + 1
         /\ CloseOf(s, j) = Len(s) + 1 \/ s[CloseOf(s, j)] = Brace
         /\ \A k \in j .. CloseOf(s, j) - 1 : s[k] # Brace
<1> DEFINE n == Len(s)
           K == {k \in j .. n : s[k] = Brace} \cup {n + 1}
           c == Min(K)
<1>1. n \in Nat /\ j \in 1 .. n + 1
  BY LenProperties
<1> HIDE DEF n
<1>2. K \subseteq Nat /\ K # {} /\ n + 1 \in K
  <2>1. j .. n \subseteq Nat /\ n + 1 \in Nat
    BY <1>1
  <2> QED
    BY <2>1
<1>3. c \in K /\ \A y \in K : c <= y
  <2> HIDE DEF K
  <2> QED
    BY <1>2, MinIs
<1>4. c \in j .. n + 1 /\ (c = n + 1 \/ s[c] = Brace)
  <2> HIDE DEF c
  <2>1. n + 1 \in j .. n + 1 /\ \A k \in j .. n : k \in j .. n + 1
    BY <1>1
  <2> QED
    BY <1>3, <2>1
<1>5. \A x \in j .. n + 1 : \A y \in j .. x - 1 : y \in j .. n /\ ~(x <= y)
  <2> HIDE DEF K
  <2> QED
    BY <1>1
<1>6. \A k \in j .. c - 1 : s[k] # Brace
  <2> HIDE DEF c
  <2> SUFFICES ASSUME NEW k \in j .. c - 1, s[k] = Brace PROVE FALSE
    OBVIOUS
  <2>1. k \in j .. n /\ ~(c <= k)
    <3>1. c \in j .. n + 1
      BY <1>4
    <3> QED
      BY <1>5, <3>1
  <2> QED
    BY <1>3, <2>1
<1> QED
  BY <1>4, <1>6 DEF CloseOf, Brace, n

\* The scan reads only pages of later places.
LEMMA ScanIsLocal ==
  ASSUME NEW A, NEW s \in Seq(A), NEW kind, NEW r, NEW f, NEW g, NEW i \in 1 .. Len(s) + 2,
         \A k \in 1 .. Len(s) + 2 : k > i => f[k] = g[k]
  PROVE  Scan(s, kind, r, f, i) = Scan(s, kind, r, g, i)
<1> DEFINE n == Len(s)
<1>1. n \in Nat
  BY LenProperties
<1>2. CASE i > n
  BY <1>2 DEF Scan
<1>3. CASE ~(i > n) /\ Opens(s, i)
  <2>1. i + 2 \in 1 .. n + 1
    <3>1. i < n
      BY <1>3 DEF Opens
    <3> HIDE DEF n
    <3>2. i \in 1 .. n + 2
      BY DEF n
    <3> QED
      BY <1>1, <3>1, <3>2
  <2>2. CloseOf(s, i + 2) \in i + 2 .. n + 1
    BY <2>1, CloseIs
  <2> DEFINE c == CloseOf(s, i + 2) + 1
  <2>3. c \in 1 .. n + 2 /\ c > i
    BY <1>1, <2>2
  <2>4. f[c] = g[c]
    BY <2>3
  <2> QED
    BY <1>3, <2>4 DEF Scan
<1>4. CASE ~(i > n) /\ ~Opens(s, i)
  <2>1. i + 1 \in 1 .. n + 2 /\ i + 1 > i
    BY <1>1, <1>4
  <2>2. f[i + 1] = g[i + 1]
    BY <2>1
  <2> QED
    BY <1>4, <2>2 DEF Scan
<1> QED
  BY <1>2, <1>3, <1>4

\* The recursion of Substitute has a solution.
LEMMA SubstituteExists ==
  ASSUME NEW A, NEW s \in Seq(A), NEW kind, NEW r
  PROVE  \E f : f = [i \in 1 .. Len(s) + 2 |-> Scan(s, kind, r, f, i)]
<1> DEFINE n == Len(s)
           D == 1 .. n + 2
           Good(f, m) == /\ f = [i \in D |-> f[i]]
                         /\ \A i \in D : i > n - m => f[i] = Scan(s, kind, r, f, i)
           S == {m \in 0 .. n : \E f : Good(f, m)}
<1>1. n \in Nat
  BY LenProperties
<1>2. 0 \in S
  <2> DEFINE f == [i \in D |-> <<>>]
  <2>1. \A i \in D : f[i] = <<>>
    OBVIOUS
  <2>2. f = [i \in D |-> f[i]]
    OBVIOUS
  <2> HIDE DEF f
  <2>3. \A i \in D : i > n - 0 => f[i] = Scan(s, kind, r, f, i)
    <3>1. \A i \in D : i > n - 0 => i > n
      BY <1>1
    <3> QED
      BY <2>1, <3>1 DEF Scan
  <2>4. Good(f, 0)
    BY <2>2, <2>3
  <2> HIDE DEF Good
  <2> QED
    BY <1>1, <2>4
<1>3. ASSUME NEW m \in 0 .. n - 1, m \in S PROVE m + 1 \in S
  <2> HIDE DEF Good
  <2>1. PICK f : Good(f, m)
    BY <1>3
  <2> DEFINE j == n - m
             g == [i \in D |-> IF i = j THEN Scan(s, kind, r, f, j) ELSE f[i]]
  <2>2. j \in D /\ j = n - m /\ m + 1 \in 0 .. n
    BY <1>1
  <2> HIDE DEF j, n
  <2>3. g = [i \in D |-> g[i]] /\ g[j] = Scan(s, kind, r, f, j) /\ \A i \in D : i # j => g[i] = f[i]
    BY <2>2
  <2> HIDE DEF g
  <2>4. \A i \in D : i > n - (m + 1) => Scan(s, kind, r, g, i) = Scan(s, kind, r, f, i)
    <3> TAKE i \in D
    <3> HAVE i > n - (m + 1)
    <3>1. \A k \in D : k > i => k # j
      BY <1>1, <2>2
    <3>2. \A k \in D : k > i => g[k] = f[k]
      BY <2>3, <3>1
    <3> QED
      BY <3>2, ScanIsLocal DEF n
  <2>5. \A i \in D : i > n - (m + 1) => g[i] = Scan(s, kind, r, g, i)
    <3> TAKE i \in D
    <3> HAVE i > n - (m + 1)
    <3>1. CASE i = j
      BY <2>3, <2>4, <3>1
    <3>2. CASE i # j
      <4>1. i > n - m
        BY <1>1, <2>2, <3>2
      <4> QED
        BY <2>1, <2>3, <2>4, <3>2, <4>1 DEF Good
    <3> QED
      BY <3>1, <3>2
  <2>6. Good(g, m + 1)
    BY <2>3, <2>5 DEF Good
  <2> QED
    BY <2>2, <2>6
<1>4. n \in S
  <2> HIDE DEF S
  <2>1. \A m \in 0 .. n : m \in S
    <3> HIDE DEF n
    <3> QED
      BY <1>1, <1>2, <1>3, UpInduction
  <2> QED
    BY <1>1, <2>1
<1>5. PICK f : Good(f, n)
  BY <1>4
<1>6. \A i \in D : f[i] = Scan(s, kind, r, f, i)
  <2>1. \A i \in D : i > n - n
    BY <1>1
  <2> QED
    BY <1>5, <2>1
<1>7. f = [i \in D |-> f[i]]
  BY <1>5
<1>8. f = [i \in D |-> Scan(s, kind, r, f, i)]
  <2> HIDE DEF D
  <2> QED
    BY <1>6, <1>7
<1> QED
  BY <1>8

\* The page from each place of a template on, of which Substitute is the first.
LEMMA SubstituteIs ==
  ASSUME NEW A, NEW s \in Seq(A), NEW kind, NEW r
  PROVE  \E f : /\ \A i \in 1 .. Len(s) + 2 : f[i] = Scan(s, kind, r, f, i)
                /\ Substitute(s, kind, r) = f[1]
<1> DEFINE F(f) == [i \in 1 .. Len(s) + 2 |-> Scan(s, kind, r, f, i)]
           p == CHOOSE f : f = F(f)
<1>1. Substitute(s, kind, r) = p[1]
  BY DEF Substitute, Scan, Opens, CloseOf
<1>2. p = F(p)
  <2>1. \E f : f = F(f)
    BY SubstituteExists
  <2> HIDE DEF F
  <2> QED
    BY <2>1
<1> HIDE DEF p
<1>3. \A i \in 1 .. Len(s) + 2 : p[i] = Scan(s, kind, r, p, i)
  BY <1>2
<1> QED
  BY <1>1, <1>3

\* A placeholder of a template, with its brace or at the end, is read as a whole.
LEMMA HoleScan ==
  ASSUME NEW A, NEW s \in Seq(A), NEW h \in Seq(A), NEW o \in Nat \ {0}, NEW e \in Nat,
         e = o + 2 + Len(h), e <= Len(s) + 1, e = Len(s) + 1 \/ s[e] = Brace,
         \A k \in 1 .. Len(h) : s[o + 1 + k] = h[k] /\ h[k] # Brace
  PROVE  CloseOf(s, o + 2) = e /\ SubSeq(s, o + 2, e - 1) = h
<1> DEFINE n == Len(s)
           m == Len(h)
           c == CloseOf(s, o + 2)
<1>1. n \in Nat /\ m \in Nat
  BY LenProperties
<1> HIDE DEF n, m
<1>2. e = o + 2 + m /\ e <= n + 1 /\ o + 2 \in 1 .. n + 1
  BY <1>1 DEF n, m
<1>3. c \in o + 2 .. n + 1 /\ (c = n + 1 \/ s[c] = Brace) /\ \A k \in o + 2 .. c - 1 : s[k] # Brace
  BY <1>2, CloseIs DEF n
<1> HIDE DEF c
<1>4. \A k \in o + 2 .. e - 1 : s[k] # Brace
  <2> TAKE k \in o + 2 .. e - 1
  <2>1. k - (o + 1) \in 1 .. m /\ o + 1 + (k - (o + 1)) = k
    BY <1>1, <1>2
  <2> QED
    BY <2>1 DEF m
<1>5. \A x, y \in o + 2 .. n + 1 : x = y \/ x \in o + 2 .. y - 1 \/ y \in o + 2 .. x - 1
  BY <1>1
<1>6. e \in o + 2 .. n + 1 /\ (e = n + 1 \/ s[e] = Brace)
  BY <1>1, <1>2 DEF n
<1>7. \A x, y \in o + 2 .. n + 1 : x \in o + 2 .. y - 1 => x # n + 1
  BY <1>1
<1>8. c = e
  BY <1>3, <1>4, <1>5, <1>6, <1>7
<1>9. SubSeq(s, o + 2, e - 1) = h
  <2> DEFINE q == SubSeq(s, o + 2, e - 1)
  <2>1. o + 2 \in 1 .. n + 1 /\ e - 1 \in o + 2 - 1 .. n
    BY <1>1, <1>2
  <2>2. q \in Seq(A) /\ Len(q) = (e - 1) - (o + 2) + 1 /\ \A k \in 1 .. (e - 1) - (o + 2) + 1 : q[k] = s[o + 2 + k - 1]
    <3>1. \A k \in o + 2 .. e - 1 : k \in 1 .. n
      BY <1>1, <1>2
    <3>2. \A k \in o + 2 .. e - 1 : s[k] \in A
      BY <3>1, ElementOfSeq DEF n
    <3>3. o + 2 \in Int /\ e - 1 \in Int
      OBVIOUS
    <3>4. /\ q \in Seq(A) /\ Len(q) = IF o + 2 <= e - 1 THEN (e - 1) - (o + 2) + 1 ELSE 0
          /\ \A k \in 1 .. (e - 1) - (o + 2) + 1 : q[k] = s[o + 2 + k - 1]
      <4> DEFINE a == o + 2
                 b == e - 1
      <4>1. a \in Int /\ b \in Int /\ \A k \in a .. b : s[k] \in A
        BY <3>2, <3>3
      <4> HIDE DEF a, b
      <4>2. /\ SubSeq(s, a, b) \in Seq(A) /\ Len(SubSeq(s, a, b)) = IF a <= b THEN b - a + 1 ELSE 0
            /\ \A k \in 1 .. b - a + 1 : SubSeq(s, a, b)[k] = s[a + k - 1]
        BY <4>1, SubSeqProperties
      <4> QED
        BY <4>2 DEF a, b
    <3>5. ~(o + 2 <= e - 1) => (e - 1) - (o + 2) + 1 = 0
      BY <1>1, <1>2
    <3> QED
      BY <3>4, <3>5
  <2>3. (e - 1) - (o + 2) + 1 = m
    <3>1. \A x, y, z \in Nat : x = y + 2 + z => (x - 1) - (y + 2) + 1 = z
      OBVIOUS
    <3>2. e \in Nat /\ o \in Nat /\ m \in Nat /\ e = o + 2 + m
      BY <1>1, <1>2
    <3> QED
      BY <3>1, <3>2
  <2> HIDE DEF q
  <2>4. \A k \in 1 .. m : o + 2 + k - 1 = o + 1 + k
    BY <1>1
  <2>5. \A k \in 1 .. m : q[k] = h[k]
    BY <2>2, <2>3, <2>4 DEF m
  <2>6. q = h
    BY <2>2, <2>3, <2>5, SeqEqual DEF m
  <2> QED
    BY <2>6 DEF q
<1> QED
  BY <1>8, <1>9 DEF c

\* Where each piece of a template is in its spelling.
Layout(t, s, off) ==
  /\ off[1] = 1 /\ off[Len(t) + 1] = Len(s) + 1
  /\ \A i \in 1 .. Len(t) :
       /\ off[i + 1] = off[i] + Len(Spelled(t[i])) /\ off[i + 1] <= Len(s) + 1
       /\ \A k \in 1 .. Len(Spelled(t[i])) : s[off[i] + k - 1] = Spelled(t[i])[k]

\* Where the pieces of a template begin.
LEMMA TemplateLayout ==
  ASSUME NEW t \in Seq(PieceSet)
  PROVE  \E off \in [1 .. Len(t) + 1 -> Nat \ {0}] : Layout(t, Spelling(t), off)
<1> DEFINE m == Len(t)
           s == Spelling(t)
           n == Len(s)
           ss == [i \in 1 .. m |-> Spelled(t[i])]
<1>1. PICK off \in [1 .. m + 1 -> Nat \ {0}] : Parts(ss, s, off)
  BY SpellingParts
<1>2. m \in Nat /\ n \in Nat
  <2>1. s \in Seq(Chars)
    BY SpellingParts
  <2> HIDE DEF s
  <2> QED
    BY <2>1, LenProperties
<1>3. \A i \in 1 .. m : Len(Spelled(t[i])) \in Nat
  <2>1. \A i \in 1 .. m : t[i] \in PieceSet
    BY ElementOfSeq
  <2> QED
    BY <2>1, PieceSpelled
<1>4. Len(ss) = m /\ \A i \in 1 .. m : ss[i] = Spelled(t[i])
  <2> HIDE DEF m
  <2> QED
    BY <1>2
<1> HIDE DEF s, ss
<1>5. /\ off[1] = 1 /\ n = off[m + 1] - 1
      /\ \A i \in 1 .. m : /\ off[i + 1] = off[i] + Len(Spelled(t[i]))
                           /\ \A k \in 1 .. Len(Spelled(t[i])) : s[off[i] + k - 1] = Spelled(t[i])[k]
  <2> HIDE DEF m
  <2> QED
    BY <1>1, <1>4 DEF Parts
<1> HIDE DEF n, m
<1>6. off[m + 1] = n + 1
  <2>1. off[m + 1] \in Nat
    BY <1>2
  <2> QED
    BY <1>5, <2>1
<1> DEFINE S == {j \in 0 .. m : off[j + 1] <= n + 1}
<1>7. \A j \in 0 .. m : j \in S
  <2>1. m \in S
    BY <1>2, <1>6
  <2>2. ASSUME NEW j \in 1 .. m, j \in S PROVE j - 1 \in S
    <3>1. (j - 1) + 1 = j /\ j - 1 \in 0 .. m
      BY <1>2
    <3>2. off[j] \in Nat /\ Len(Spelled(t[j])) \in Nat /\ off[j + 1] = off[j] + Len(Spelled(t[j])) /\ off[j + 1] <= n + 1
      BY <1>2, <1>3, <1>5, <2>2
    <3>3. off[j] <= n + 1
      BY <1>2, <3>2
    <3> QED
      BY <3>1, <3>3
  <2> HIDE DEF S
  <2> QED
    BY <1>2, <2>1, <2>2, DownInduction
<1>8. \A i \in 1 .. m : off[i + 1] <= n + 1
  <2>1. \A i \in 1 .. m : i \in 0 .. m
    BY <1>2
  <2> QED
    BY <1>7, <2>1
<1>9. Layout(t, s, off)
  BY <1>5, <1>6, <1>8 DEF Layout, n, m
<1> QED
  BY <1>9 DEF s, m

Scanned(s, kind, r, f) == \A i \in 1 .. Len(s) + 2 : f[i] = Scan(s, kind, r, f, i)

\* What a page has in place of a piece.
Result(p, kind, r) == IF p.hole THEN Fill(kind, r, Number(p.s)) ELSE p.s

\* The page from the piece i of a template on is the piece's part and the rest.
PieceScanned(t, kind, r, f, off, i) == f[off[i]] = Result(t[i], kind, r) \o f[off[i + 1]]
Reading(t, kind, r, f, off, i) ==
  /\ IsTemplate(t) /\ off \in [1 .. Len(t) + 1 -> Nat \ {0}] /\ Layout(t, Spelling(t), off)
  /\ Scanned(Spelling(t), kind, r, f) /\ i \in 1 .. Len(t)

\* An ordinary character is copied.
LEMMA PlainScan ==
  ASSUME NEW t, NEW kind, NEW r, NEW f, NEW off, NEW i, Reading(t, kind, r, f, off, i),
         \E c \in Chars : t[i] = Plain(c)
  PROVE  PieceScanned(t, kind, r, f, off, i)
<1> USE DEF Reading
<1> PICK c \in Chars : t[i] = Plain(c)
  OBVIOUS
<1> SUFFICES f[off[i]] = Result(t[i], kind, r) \o f[off[i + 1]]
  BY DEF PieceScanned
<1> DEFINE m == Len(t)
           s == Spelling(t)
           n == Len(s)
           o == off[i]
<1>1. m \in Nat /\ n \in Nat /\ s \in Seq(Chars) /\ \A j \in 1 .. m : t[j] \in PieceSet
  <2>1. t \in Seq(PieceSet)
    BY DEF IsTemplate
  <2>2. s \in Seq(Chars)
    BY <2>1, SpellingParts
  <2> HIDE DEF s
  <2> QED
    BY <2>1, <2>2, LenProperties, ElementOfSeq
<1>2. Spelled(t[i]) = <<c>> /\ ~t[i].hole /\ t[i].s = <<c>> /\ Len(<<c>>) = 1 /\ <<c>>[1] = c
  <2>1. t[i] \in PieceSet
    BY <1>1
  <2>2. Spelled(t[i]) = <<c>> /\ ~t[i].hole /\ t[i].s = <<c>>
    BY <2>1, PieceSpelled
  <2>3. Len(<<c>>) = 1 /\ <<c>>[1] = c
    BY ShortSequences
  <2> QED
    BY <2>2, <2>3
<1> HIDE DEF s
<1>3. off[i + 1] = o + 1 /\ off[i + 1] <= n + 1 /\ s[o + 1 - 1] = c
  <2>1. /\ off[i + 1] = off[i] + Len(Spelled(t[i])) /\ off[i + 1] <= Len(s) + 1
        /\ \A k \in 1 .. Len(Spelled(t[i])) : s[off[i] + k - 1] = Spelled(t[i])[k]
    BY DEF Layout, s
  <2>2. 1 \in 1 .. 1
    OBVIOUS
  <2> QED
    BY <1>2, <2>1, <2>2
<1>4. o \in Nat \ {0} /\ i \in 1 .. m + 1 /\ off[m + 1] = n + 1
  <2>1. i \in 1 .. m + 1
    BY <1>1
  <2> QED
    BY <2>1 DEF Layout, s
<1> HIDE DEF n
<1>5. o \in 1 .. n /\ o + 1 - 1 = o
  <2> HIDE DEF o
  <2> QED
    BY <1>1, <1>3, <1>4
<1>6. ~Opens(s, o)
  <2> SUFFICES ASSUME Opens(s, o) PROVE FALSE
    OBVIOUS
  <2>1. c = "$" /\ o < n /\ s[o + 1] = "{"
    BY <1>3, <1>5 DEF Opens, n
  <2>2. i # m
    <3>1. off[i + 1] < n + 1
      <4>1. o < n
        BY <2>1
      <4>2. off[i + 1] = o + 1
        BY <1>3
      <4> HIDE DEF o
      <4> QED
        BY <1>1, <1>5, <4>1, <4>2
    <3> QED
      BY <1>1, <1>4, <3>1
  <2>3. i \in 1 .. m - 1 /\ i + 1 \in 1 .. m
    BY <1>1, <2>2
  <2>4. Len(Spelled(t[i + 1])) \in Nat \ {0}
    BY <1>1, <2>3, PieceSpelled
  <2>5. s[off[i + 1] + 1 - 1] = Spelled(t[i + 1])[1]
    <3>1. 1 \in 1 .. Len(Spelled(t[i + 1]))
      BY <2>4
    <3> QED
      BY <2>3, <3>1 DEF Layout, s
  <2>6. off[i + 1] + 1 - 1 = o + 1
    BY <1>3, <1>4
  <2>7. Spelled(t[i + 1])[1] = "{"
    BY <2>1, <2>5, <2>6
  <2>8. t[i] = Plain("$")
    BY <2>1
  <2> QED
    BY <2>3, <2>7, <2>8 DEF IsTemplate, Readable
<1>7. f[o] = Scan(s, kind, r, f, o)
  <2>1. o \in 1 .. n + 2
    BY <1>1, <1>5
  <2> QED
    BY <2>1 DEF n, s, Scanned
<1>8. Scan(s, kind, r, f, o) = <<s[o]>> \o f[o + 1]
  <2>1. ~(o > n)
    BY <1>1, <1>5
  <2> QED
    BY <1>6, <2>1 DEF Scan, n
<1>9. Result(t[i], kind, r) = <<c>>
  BY <1>2 DEF Result
<1> QED
  BY <1>3, <1>5, <1>7, <1>8, <1>9

\* A placeholder is replaced, and the scan goes on behind it.
LEMMA HolesScan ==
  ASSUME NEW t, NEW kind, NEW r, NEW f, NEW off, NEW i, Reading(t, kind, r, f, off, i),
         \E h \in Seq(Inner) : t[i] = Hole(h) \/ t[i] = Unclosed(h)
  PROVE  PieceScanned(t, kind, r, f, off, i)
<1> USE DEF Reading
<1> PICK h \in Seq(Inner) : t[i] = Hole(h) \/ t[i] = Unclosed(h)
  OBVIOUS
<1> SUFFICES f[off[i]] = Result(t[i], kind, r) \o f[off[i + 1]]
  BY DEF PieceScanned
<1> DEFINE m == Len(t)
           s == Spelling(t)
           n == Len(s)
           o == off[i]
           l == Len(h)
           u == Spelled(t[i])
           e == o + 2 + l
<1>1. m \in Nat /\ n \in Nat /\ s \in Seq(Chars) /\ t[i] \in PieceSet /\ l \in Nat
  <2>1. t \in Seq(PieceSet)
    BY DEF IsTemplate
  <2>2. s \in Seq(Chars)
    BY <2>1, SpellingParts
  <2> HIDE DEF s
  <2> QED
    BY <2>1, <2>2, LenProperties, ElementOfSeq
<1>2. /\ t[i].hole /\ t[i].s = h
      /\ u[1] = "$" /\ u[2] = "{" /\ \A k \in 1 .. l : u[k + 2] = h[k]
      /\ Len(u) \in {l + 2, l + 3}
      /\ t[i] = Hole(h) => Len(u) = l + 3 /\ u[l + 3] = Brace
      /\ t[i] = Unclosed(h) => Len(u) = l + 2 /\ t[i].end = <<>>
  <2>1. CASE t[i] = Hole(h)
    <3>1. t[i] # Unclosed(h)
      <4>1. Hole(h).end = <<"}">> /\ Unclosed(h).end = <<>>
        BY DEF Hole, Unclosed
      <4>2. <<"}">> # <<>>
        OBVIOUS
      <4> QED
        BY <2>1, <4>1, <4>2
    <3>2. t[i].hole /\ t[i].s = h
      <4>1. Hole(h).hole /\ Hole(h).s = h
        BY DEF Hole
      <4> QED
        BY <2>1, <4>1
    <3>3. /\ Len(Spelled(Hole(h))) = l + 3
          /\ Spelled(Hole(h))[1] = "$" /\ Spelled(Hole(h))[2] = "{" /\ Spelled(Hole(h))[l + 3] = "}"
          /\ \A k \in 1 .. l : Spelled(Hole(h))[k + 2] = h[k]
      BY HoleSpelled
    <3> QED
      BY <2>1, <3>1, <3>2, <3>3 DEF Brace
  <2>2. CASE t[i] = Unclosed(h)
    <3>1. t[i] # Hole(h)
      <4>1. Hole(h).end = <<"}">> /\ Unclosed(h).end = <<>>
        BY DEF Hole, Unclosed
      <4>2. <<"}">> # <<>>
        OBVIOUS
      <4> QED
        BY <2>2, <4>1, <4>2
    <3>2. t[i].hole /\ t[i].s = h /\ t[i].end = <<>>
      BY <2>2 DEF Unclosed
    <3>3. /\ Len(Spelled(Unclosed(h))) = l + 2
          /\ Spelled(Unclosed(h))[1] = "$" /\ Spelled(Unclosed(h))[2] = "{"
          /\ \A k \in 1 .. l : Spelled(Unclosed(h))[k + 2] = h[k]
      BY HoleSpelled
    <3> QED
      BY <2>2, <3>1, <3>2, <3>3
  <2> QED
    BY <2>1, <2>2
<1> HIDE DEF u
<1>3. /\ off[i + 1] = o + Len(u) /\ off[i + 1] <= n + 1 /\ off[m + 1] = n + 1
      /\ \A k \in 1 .. Len(u) : s[o + k - 1] = u[k]
  BY DEF Layout, u
<1>4. o \in Nat \ {0} /\ h \in Seq(Chars) /\ \A k \in 1 .. l : h[k] # Brace
  <2>1. i \in 1 .. m + 1
    BY <1>1
  <2>2. o \in Nat \ {0}
    BY <2>1
  <2>3. \A k \in 1 .. l : h[k] \in Inner
    BY ElementOfSeq
  <2>4. Brace \notin Inner
    BY DEF Inner, Brace
  <2> HIDE DEF o
  <2> QED
    BY <2>2, <2>3, <2>4, CharsHave
<1> HIDE DEF s, n, o, l, m
<1>5. /\ 1 \in 1 .. Len(u) /\ 2 \in 1 .. Len(u) /\ \A k \in 1 .. l : k + 2 \in 1 .. Len(u)
      /\ o + 1 - 1 = o /\ o + 2 - 1 = o + 1 /\ \A k \in 1 .. l : o + (k + 2) - 1 = o + 1 + k
      /\ o < n /\ o \in 1 .. n /\ e \in Nat /\ e <= n + 1
  <2>1. \A a, b, c, d \in Nat :
          a # 0 /\ b \in {c + 2, c + 3} /\ a + b <= d + 1 =>
            /\ 1 \in 1 .. b /\ 2 \in 1 .. b /\ \A k \in 1 .. c : k + 2 \in 1 .. b
            /\ a + 1 - 1 = a /\ a + 2 - 1 = a + 1 /\ \A k \in 1 .. c : a + (k + 2) - 1 = a + 1 + k
            /\ a < d /\ a \in 1 .. d /\ a + 2 + c \in Nat /\ a + 2 + c <= d + 1
    OBVIOUS
  <2>2. Len(u) \in {l + 2, l + 3}
    BY <1>2
  <2>3. o \in Nat /\ Len(u) \in Nat /\ l \in Nat /\ n \in Nat /\ o # 0
    BY <1>1, <1>4, <2>2
  <2>4. o + Len(u) <= n + 1
    BY <1>3
  <2> DEFINE b == Len(u)
  <2> HIDE DEF b
  <2>5. /\ 1 \in 1 .. b /\ 2 \in 1 .. b /\ \A k \in 1 .. l : k + 2 \in 1 .. b
        /\ o + 1 - 1 = o /\ o + 2 - 1 = o + 1 /\ \A k \in 1 .. l : o + (k + 2) - 1 = o + 1 + k
        /\ o < n /\ o \in 1 .. n /\ o + 2 + l \in Nat /\ o + 2 + l <= n + 1
    <3>1. b \in Nat /\ b \in {l + 2, l + 3} /\ o + b <= n + 1
      BY <2>2, <2>3, <2>4 DEF b
    <3> QED
      BY <2>1, <2>3, <3>1
  <2> QED
    BY <2>5 DEF b
<1>6. Opens(s, o)
  <2>1. s[o] = "$" /\ s[o + 1] = "{"
    <3>1. s[o + 1 - 1] = u[1] /\ s[o + 2 - 1] = u[2]
      BY <1>3, <1>5
    <3> QED
      BY <1>2, <1>5, <3>1
  <2> QED
    BY <1>5, <2>1 DEF Opens, n
<1>7. \A k \in 1 .. l : s[o + 1 + k] = h[k] /\ h[k] # Brace
  <2> TAKE k \in 1 .. l
  <2>1. s[o + (k + 2) - 1] = u[k + 2]
    BY <1>3, <1>5
  <2> QED
    BY <1>2, <1>4, <1>5, <2>1
<1>8. f[o] = Scan(s, kind, r, f, o) /\ f[n + 1] = <<>> /\ f[n + 2] = <<>>
  <2>1. o \in 1 .. n + 2 /\ n + 1 \in 1 .. n + 2 /\ n + 2 \in 1 .. n + 2 /\ n + 1 > n /\ n + 2 > n
    BY <1>1, <1>5
  <2>2. \A j \in 1 .. n + 2 : f[j] = Scan(s, kind, r, f, j)
    BY DEF n, s, Scanned
  <2> QED
    BY <2>1, <2>2 DEF Scan, n
<1>9. (e = n + 1 \/ s[e] = Brace) /\ f[e + 1] = f[off[i + 1]]
  <2>1. CASE t[i] = Hole(h)
    <3>1. Len(u) = l + 3 /\ u[l + 3] = Brace
      BY <1>2, <2>1
    <3>2. off[i + 1] = e + 1 /\ l + 3 \in 1 .. Len(u) /\ o + (l + 3) - 1 = e
      BY <1>1, <1>3, <1>4, <3>1
    <3>3. s[o + (l + 3) - 1] = u[l + 3]
      BY <1>3, <3>2
    <3> QED
      BY <3>1, <3>2, <3>3
  <2>2. CASE t[i] = Unclosed(h)
    <3>1. Len(u) = l + 2 /\ t[i].end = <<>>
      BY <1>2, <2>2
    <3>2. off[i + 1] = e
      BY <1>1, <1>3, <1>4, <3>1
    <3>3. i = m
      <4>1. i \notin 1 .. m - 1
        BY <1>2, <3>1 DEF IsTemplate, Readable, m
      <4>2. i \in 1 .. m
        BY DEF m
      <4> QED
        BY <1>1, <4>1, <4>2
    <3>4. e = n + 1
      BY <1>3, <3>2, <3>3
    <3>5. e + 1 = n + 2
      BY <1>1, <3>4
    <3> QED
      BY <1>8, <3>2, <3>4, <3>5
  <2> QED
    BY <2>1, <2>2
<1>10. CloseOf(s, o + 2) = e /\ SubSeq(s, o + 2, e - 1) = h
  <2>1. e = o + 2 + Len(h) /\ e <= Len(s) + 1 /\ (e = Len(s) + 1 \/ s[e] = Brace)
    BY <1>5, <1>9 DEF l, n
  <2>2. \A k \in 1 .. Len(h) : s[o + 1 + k] = h[k] /\ h[k] # Brace
    BY <1>7 DEF l
  <2>3. e \in Nat
    BY <1>5
  <2> HIDE DEF e
  <2> QED
    BY <1>1, <1>4, <2>1, <2>2, <2>3, HoleScan
<1>11. Scan(s, kind, r, f, o) = Fill(kind, r, Number(h)) \o f[e + 1]
  <2>1. ~(o > n)
    BY <1>1, <1>5
  <2> HIDE DEF e
  <2> QED
    BY <1>6, <1>10, <2>1 DEF Scan, n
<1>12. Result(t[i], kind, r) = Fill(kind, r, Number(h))
  BY <1>2 DEF Result
<1>13. f[o] = Result(t[i], kind, r) \o f[off[i + 1]]
  BY <1>8, <1>9, <1>11, <1>12
<1> QED
  BY <1>13 DEF o
\* The part of a page that a piece gives is a sequence.
LEMMA ResultIs ==
  ASSUME NEW p \in PieceSet, NEW kind, NEW r
  PROVE  Result(p, kind, r) \in Seq(Chars \cup {r.status, r.client})
<1> DEFINE B == Chars \cup {r.status, r.client}
<1>1. Seq(Chars) \subseteq Seq(B)
  <2>1. Chars \subseteq B
    OBVIOUS
  <2> HIDE DEF B
  <2> QED
    BY <2>1, SeqMonotonic
<1>2. \A n : Fill(kind, r, n) \in Seq(B)
  <2>1. <<r.status>> \in Seq(B) /\ <<r.client>> \in Seq(B)
    <3>1. r.status \in B /\ r.client \in B
      OBVIOUS
    <3> HIDE DEF B
    <3> QED
      BY <3>1, ShortSequences
  <2>2. <<>> \in Seq(B)
    OBVIOUS
  <2> HIDE DEF B
  <2>3. \A n : Fill(kind, r, n) \in {<<r.status>>, <<r.client>>, <<>>}
    BY DEF Fill
  <2> QED
    BY <2>1, <2>2, <2>3
<1> SUFFICES Result(p, kind, r) \in Seq(B)
  OBVIOUS
<1> HIDE DEF B
<1>3. CASE p.hole
  BY <1>2, <1>3 DEF Result
<1>4. CASE ~p.hole
  <2>1. PICK c \in Chars : p = Plain(c)
    BY <1>4, PieceSpelled DEF PieceSet
  <2>2. p.s = <<c>> /\ <<c>> \in Seq(Chars)
    BY <2>1, PieceSpelled, ShortSequences
  <2> QED
    BY <1>1, <1>4, <2>2 DEF Result
<1> QED
  BY <1>3, <1>4

\* A page is its template with each placeholder replaced, and nothing else.
LEMMA TemplateFilled ==
  ASSUME NEW t, IsTemplate(t), NEW kind, NEW r
  PROVE  /\ [i \in 1 .. Len(t) |-> Result(t[i], kind, r)] \in Seq(Seq(Chars \cup {r.status, r.client}))
         /\ Substitute(Spelling(t), kind, r) = FlattenSeq([i \in 1 .. Len(t) |-> Result(t[i], kind, r)])
<1> DEFINE m == Len(t)
           s == Spelling(t)
           n == Len(s)
           B == Chars \cup {r.status, r.client}
           ss == [i \in 1 .. m |-> Result(t[i], kind, r)]
<1>1. m \in Nat /\ n \in Nat /\ s \in Seq(Chars) /\ t \in Seq(PieceSet) /\ \A j \in 1 .. m : t[j] \in PieceSet
  <2>1. t \in Seq(PieceSet)
    BY DEF IsTemplate
  <2>2. s \in Seq(Chars)
    BY <2>1, SpellingParts
  <2> HIDE DEF s
  <2> QED
    BY <2>1, <2>2, LenProperties, ElementOfSeq
<1>2. PICK off \in [1 .. m + 1 -> Nat \ {0}] : Layout(t, s, off)
  BY <1>1, TemplateLayout
<1>3. PICK f : /\ \A i \in 1 .. n + 2 : f[i] = Scan(s, kind, r, f, i)
               /\ Substitute(s, kind, r) = f[1]
  BY <1>1, SubstituteIs
<1>4. \A i \in 1 .. m : f[off[i]] = Result(t[i], kind, r) \o f[off[i + 1]]
  <2> TAKE i \in 1 .. m
  <2> SUFFICES PieceScanned(t, kind, r, f, off, i)
    BY DEF PieceScanned
  <2>1. t[i] \in PieceSet
    BY <1>1
  <2>4. Scanned(s, kind, r, f)
    BY <1>3 DEF Scanned
  <2>5. Reading(t, kind, r, f, off, i)
    BY <1>2, <2>4 DEF Reading
  <2>2. CASE \E c \in Chars : t[i] = Plain(c)
    BY <2>2, <2>5, PlainScan, Zenon
  <2>3. CASE \E h \in Seq(Inner) : t[i] = Hole(h) \/ t[i] = Unclosed(h)
    BY <2>3, <2>5, HolesScan, Zenon
  <2> QED
    BY <2>1, <2>2, <2>3 DEF PieceSet
<1>5. ss \in Seq(Seq(B)) /\ Len(ss) = m /\ \A i \in 1 .. m : ss[i] = Result(t[i], kind, r)
  <2>1. \A i \in 1 .. m : Result(t[i], kind, r) \in Seq(B)
    BY <1>1, ResultIs
  <2> HIDE DEF B, m
  <2>2. ss \in [1 .. m -> Seq(B)]
    BY <2>1
  <2>3. \A i \in 1 .. m : ss[i] = Result(t[i], kind, r)
    OBVIOUS
  <2> HIDE DEF ss
  <2> QED
    BY <1>1, <2>2, <2>3
<1> HIDE DEF ss, B
<1>6. f[off[m + 1]] = <<>> /\ off[1] = 1
  <2>1. off[m + 1] = n + 1 /\ off[1] = 1
    BY <1>2 DEF Layout
  <2> HIDE DEF n, m
  <2>2. n + 1 \in 1 .. n + 2 /\ n + 1 > n
    BY <1>1
  <2>3. f[n + 1] = Scan(s, kind, r, f, n + 1)
    BY <1>3, <2>2
  <2> QED
    BY <2>1, <2>2, <2>3 DEF Scan, n
<1> DEFINE p == [i \in 1 .. m + 1 |-> f[off[i]]]
<1>7. p[1] = f[1] /\ p[m + 1] = <<>> /\ \A i \in 1 .. m : p[i] = ss[i] \o p[i + 1]
  <2> HIDE DEF m
  <2>1. 1 \in 1 .. m + 1 /\ m + 1 \in 1 .. m + 1 /\ \A i \in 1 .. m : i \in 1 .. m + 1 /\ i + 1 \in 1 .. m + 1
    BY <1>1
  <2>2. p[1] = f[off[1]] /\ p[m + 1] = f[off[m + 1]]
        /\ \A i \in 1 .. m : p[i] = f[off[i]] /\ p[i + 1] = f[off[i + 1]]
    BY <2>1
  <2> HIDE DEF p
  <2> QED
    BY <1>4, <1>5, <1>6, <2>2
<1> HIDE DEF p
<1>8. p[1] = FlattenSeq(ss)
  <2>1. p[Len(ss) + 1] = <<>> /\ \A i \in 1 .. Len(ss) : p[i] = ss[i] \o p[i + 1]
    BY <1>5, <1>7
  <2> HIDE DEF m
  <2> QED
    BY <1>5, <2>1, ChainFlatten
<1>9. Substitute(s, kind, r) = FlattenSeq(ss)
  BY <1>3, <1>7, <1>8
<1> QED
  BY <1>5, <1>9 DEF ss, B, s

\* The bytes of a page are at most those of its template, and one address for each
\* placeholder.
Holes(t) == {i \in DOMAIN t : t[i].hole}

LEMMA PageIsShort ==
  ASSUME NEW t, IsTemplate(t), NEW kind, NEW r, r.client \in Addresses, length[kind] \in Nat
  PROVE  /\ PageLength(Substitute(Spelling(t), kind, r), kind, r) \in Nat
         /\ PageLength(Substitute(Spelling(t), kind, r), kind, r)
              <= length[kind] + Cardinality(Holes(t)) * AddressLength[r.client]
<1> DEFINE A == Chars \cup {r.status, r.client}
           ss == [i \in 1 .. Len(t) |-> Result(t[i], kind, r)]
           page == Substitute(Spelling(t), kind, r)
<1>1. /\ t \in Seq(PieceSet) /\ Len(t) \in Nat /\ DOMAIN t = 1 .. Len(t)
      /\ \A i \in 1 .. Len(t) : t[i] \in PieceSet
  <2>1. t \in Seq(PieceSet)
    BY DEF IsTemplate
  <2> QED
    BY <2>1, ElementOfSeq, LenProperties
<1>2. ss \in Seq(Seq(A)) /\ page = FlattenSeq(ss)
  BY TemplateFilled
<1>3. Len(ss) = Len(t) /\ \A i \in 1 .. Len(t) : ss[i] = Result(t[i], kind, r)
  BY <1>1
<1> HIDE DEF A, ss, page
<1>4. \A i \in Holes(t) : Len(ss[i]) <= 1
  <2> TAKE i \in Holes(t)
  <2>1. i \in 1 .. Len(t) /\ t[i].hole
    BY <1>1 DEF Holes
  <2>2. ss[i] = Fill(kind, r, Number(t[i].s))
    BY <1>3, <2>1 DEF Result
  <2>3. \A n : Fill(kind, r, n) \in {<<r.status>>, <<r.client>>, <<>>}
    BY DEF Fill
  <2>4. Len(<<r.status>>) <= 1
    OBVIOUS
  <2>5. Len(<<r.client>>) <= 1
    OBVIOUS
  <2>6. Len(<<>>) <= 1
    OBVIOUS
  <2> QED
    BY <2>2, <2>3, <2>4, <2>5, <2>6
<1>5. \A i \in (1 .. Len(ss)) \ Holes(t) : \A k \in 1 .. Len(ss[i]) : ss[i][k] \notin Addresses
  <2> TAKE i \in (1 .. Len(ss)) \ Holes(t)
  <2>1. i \in 1 .. Len(t) /\ ~t[i].hole /\ t[i] \in PieceSet
    BY <1>1, <1>3 DEF Holes
  <2>2. PICK c \in Chars : t[i] = Plain(c)
    BY <2>1, PieceSpelled DEF PieceSet
  <2>3. ss[i] = <<c>>
    BY <1>3, <2>1, <2>2, PieceSpelled DEF Result
  <2>4. Len(<<c>>) = 1 /\ <<c>>[1] = c
    BY ShortSequences
  <2>5. \A k \in 1 .. 1 : k = 1
    OBVIOUS
  <2>6. c \notin Addresses
    BY AddressAssumption
  <2> QED
    BY <2>3, <2>4, <2>5, <2>6
<1>6. Holes(t) \in SUBSET (1 .. Len(ss))
  BY <1>1, <1>3 DEF Holes
<1>7. /\ IsFiniteSet(Marked(page, Addresses)) /\ IsFiniteSet(Holes(t))
      /\ Cardinality(Marked(page, Addresses)) <= Cardinality(Holes(t))
  BY <1>2, <1>4, <1>5, <1>6, MarkedParts
<1>8. page \in Seq(A)
  BY <1>2, FlattenParts
<1>9. Marked(page, Addresses) = {i \in DOMAIN page : page[i] \in Addresses}
  BY <1>8, LenProperties DEF Marked
<1> DEFINE m == Cardinality(Marked(page, Addresses))
           h == Cardinality(Holes(t))
           a == AddressLength[r.client]
<1>10. m \in Nat /\ h \in Nat /\ a \in Nat /\ m <= h
  BY <1>7, FS_CardinalityType, SizesAssumption
<1>11. PageLength(page, kind, r) = length[kind] + m * a
  BY <1>9 DEF PageLength
<1> HIDE DEF m, h, a
<1>12. m * a \in Nat /\ h * a \in Nat /\ m * a <= h * a
  <2>1. h - m \in Nat /\ h = m + (h - m)
    BY <1>10
  <2>2. (h - m) * a \in Nat /\ m * a \in Nat
    BY <1>10, <2>1
  <2>3. h * a = m * a + (h - m) * a
    BY <1>10, <2>1
  <2> QED
    BY <2>2, <2>3
<1> QED
  BY <1>11, <1>12 DEF page, h, a

-----------------------------------------------------------------------------
(* The client of a request.                                                *)

\* NULL is no command, text or address.
LEMMA NullIsNone ==
  /\ NULL \notin Range(Commands) /\ NULL \notin Texts /\ NULL \notin Addresses
  /\ Range(Commands) = {"status", "enable", "disable"}
  /\ DOMAIN Commands = 1 .. 3 /\ Len(Commands) = 3
  /\ \A i \in 1 .. 3 : Commands[i] \in Range(Commands)
<1>1. DOMAIN Commands = 1 .. 3 /\ Len(Commands) = 3
  BY DEF Commands
<1>2. Range(Commands) = {Commands[i] : i \in 1 .. 3}
  BY <1>1 DEF Range
<1>3. Commands[1] = "status" /\ Commands[2] = "enable" /\ Commands[3] = "disable"
  BY DEF Commands
<1>4. \A i : i \in 1 .. 3 <=> i \in {1, 2, 3}
  OBVIOUS
<1>5. Range(Commands) = {"status", "enable", "disable"}
  BY <1>2, <1>3, <1>4
<1> QED
  BY <1>1, <1>2, <1>5, NullAssumption

\* The last address of a list that no prefix matches, if there is one.
IsLastPublic(list, n, c) ==
  \/ c = NULL /\ \A j \in 1 .. n : list[j] \in Private
  \/ \E i \in 1 .. n : list[i] = c /\ c \in Public /\ \A j \in i + 1 .. n : list[j] \in Private

\* find_client_ip finds the last address that no prefix matches.
LEMMA FindClientIs ==
  ASSUME NEW n \in Nat, NEW list \in [1 .. n -> Addresses]
  PROVE  IsLastPublic(list, n, find_client_ip(list))
<1> DEFINE V == Addresses \cup {NULL}
           e(i, v) == IF v # NULL THEN v ELSE IF list[i] \in Private THEN NULL ELSE list[i]
           F(p) == [i \in 1 .. Len(list) + 1 |->
                     IF i > Len(list) THEN NULL
                     ELSE IF p[i + 1] # NULL THEN p[i + 1]
                     ELSE IF list[i] \in Private THEN NULL ELSE list[i]]
           d(i, v) == e(n + 1 - i, v)
           G == {<<i, v, d(i, v)>> : i \in 1 .. n, v \in V}
           p == CHOOSE x : x = F(x)
<1>1. Len(list) = n
  OBVIOUS
<1>2. find_client_ip(list) = p[1]
  BY DEF find_client_ip
<1>3. \A i \in 1 .. n : \A v \in V : e(i, v) \in V
  OBVIOUS
<1>30. \A i \in 1 .. n : \A v \in V : d(i, v) \in V
  <2> SUFFICES ASSUME NEW i \in 1 .. n, NEW v \in V PROVE d(i, v) \in V
    OBVIOUS
  <2>1. n + 1 - i \in 1 .. n
    OBVIOUS
  <2> HIDE DEF e, V
  <2> QED
    BY <1>3, <2>1
<1> HIDE DEF V, e, d
<1>4. PICK g \in [0 .. n -> V] : g[0] = NULL /\ \A i \in 1 .. n : <<i, g[i - 1], g[i]>> \in G
  <2>1. \A i \in 1 .. n : \A v \in V : \E w \in V : <<i, v, w>> \in G
    <3>1. \A i \in 1 .. n : \A v \in V : <<i, v, d(i, v)>> \in G
      OBVIOUS
    <3> HIDE DEF G
    <3> QED
      BY <1>30, <3>1
  <2>2. NULL \in V
    BY DEF V
  <2> HIDE DEF G
  <2>3. Steppable(n, V, NULL, G)
    BY <2>1, <2>2 DEF Steppable
  <2>4. Stepped(n, V, NULL, G)
    BY <2>3, RecursionExists, Zenon
  <2> QED
    BY <2>4 DEF Stepped
<1>5. \A i \in 1 .. n : g[i] = e(n + 1 - i, g[i - 1])
  <2>1. \A i \in 1 .. n : g[i] = d(i, g[i - 1])
    BY <1>4
  <2> QED
    BY <2>1 DEF d
<1> HIDE DEF G
<1> DEFINE f == [i \in 1 .. n + 1 |-> g[n + 1 - i]]
<1>6. f = F(f)
  <2>1. \A i \in 1 .. n + 1 : f[i] = IF i > n THEN NULL ELSE e(i, f[i + 1])
    <3> TAKE i \in 1 .. n + 1
    <3>1. CASE i = n + 1
      <4>1. n + 1 - i = 0 /\ i > n
        BY <3>1
      <4> QED
        BY <1>4, <4>1
    <3>2. CASE i # n + 1
      <4>1. n + 1 - i \in 1 .. n /\ n + 1 - (n + 1 - i) = i /\ (n + 1 - i) - 1 = n + 1 - (i + 1) /\ ~(i > n)
             /\ i + 1 \in 1 .. n + 1
        BY <3>2
      <4>2. g[n + 1 - i] = e(i, g[n + 1 - (i + 1)])
        BY <1>5, <4>1
      <4> QED
        BY <4>1, <4>2
    <3> QED
      BY <3>1, <3>2
  <2>2. f = [i \in 1 .. n + 1 |-> f[i]]
    OBVIOUS
  <2> HIDE DEF f
  <2>3. f = [i \in 1 .. n + 1 |-> IF i > n THEN NULL ELSE e(i, f[i + 1])]
    BY <2>1, <2>2
  <2> QED
    BY <1>1, <2>3 DEF e
<1>7. p = F(p)
  <2> HIDE DEF f
  <2> QED
    BY <1>6
<1> HIDE DEF p
<1>8. \A i \in 1 .. n + 1 : p[i] = IF i > n THEN NULL ELSE e(i, p[i + 1])
  BY <1>1, <1>7 DEF e
<1> DEFINE R(i) == \/ p[i + 1] = NULL /\ \A j \in i + 1 .. n : list[j] \in Private
                   \/ \E k \in i + 1 .. n : /\ list[k] = p[i + 1] /\ p[i + 1] \in Public
                                            /\ \A j \in k + 1 .. n : list[j] \in Private
           S == {i \in 0 .. n : R(i)}
<1>9. n \in S
  <2>1. n + 1 \in 1 .. n + 1 /\ n + 1 > n /\ n + 1 .. n = {} /\ n \in 0 .. n
    OBVIOUS
  <2> QED
    BY <1>8, <2>1
<1>10. ASSUME NEW i \in 1 .. n, i \in S PROVE i - 1 \in S
  <2>1. i \in 1 .. n + 1 /\ ~(i > n) /\ (i - 1) + 1 = i /\ i - 1 \in 0 .. n
    OBVIOUS
  <2>2. p[i] = e(i, p[i + 1])
    BY <1>8, <2>1
  <2>3. list[i] \in Private \/ list[i] \in Public
    BY DEF Addresses
  <2>4. \A a \in Public : a # NULL
    BY NullIsNone DEF Addresses
  <2>5. R(i)
    BY <1>10
  <2>6. i + 1 .. n \subseteq i .. n /\ i .. n = {i} \cup (i + 1 .. n)
    OBVIOUS
  <2>7. CASE p[i + 1] = NULL /\ \A j \in i + 1 .. n : list[j] \in Private
    <3>1. CASE list[i] \in Private
      <4>1. p[i] = NULL
        BY <2>2, <2>7, <3>1 DEF e
      <4>2. \A j \in i .. n : list[j] \in Private
        BY <2>6, <2>7, <3>1
      <4> QED
        BY <2>1, <4>1, <4>2
    <3>2. CASE list[i] \notin Private
      <4>1. p[i] = list[i]
        BY <2>2, <2>7, <3>2 DEF e
      <4>2. i \in i .. n
        OBVIOUS
      <4> QED
        BY <2>1, <2>3, <2>7, <3>2, <4>1, <4>2
    <3> QED
      BY <3>1, <3>2
  <2>8. CASE \E k \in i + 1 .. n : /\ list[k] = p[i + 1] /\ p[i + 1] \in Public
                                    /\ \A j \in k + 1 .. n : list[j] \in Private
    <3>1. p[i] = p[i + 1]
      BY <2>2, <2>4, <2>8 DEF e
    <3> QED
      BY <2>1, <2>6, <2>8, <3>1
  <2> QED
    BY <2>5, <2>7, <2>8
<1>11. 0 \in S
  <2>1. 0 \in 0 .. n
    OBVIOUS
  <2> HIDE DEF S
  <2> QED
    BY <1>9, <1>10, <2>1, DownInduction
<1> QED
  BY <1>2, <1>11 DEF IsLastPublic

\* IsClient, of the request r.
ClientOf(r, a) ==
  LET hops == <<r.peer>> \o Reverse(r.forwarded)
  IN \/ \E i \in DOMAIN hops : hops[i] = a /\ a \in Public /\ \A j \in 1 .. i - 1 : hops[j] \in Private
     \/ a = r.peer /\ Range(hops) \subseteq Private

\* The address that counts as the client's is the one nearest to the server
\* that no prefix matches.
LEMMA ClientIs ==
  ASSUME NEW n \in Nat, NEW forwarded \in [1 .. n -> Addresses], NEW peer \in Addresses, NEW r,
         r.peer = peer, r.forwarded = forwarded
  PROVE  ClientOf(r, get_client_ip(peer, forwarded)) /\ get_client_ip(peer, forwarded) \in Addresses
<1> DEFINE hops == <<peer>> \o Reverse(forwarded)
           c == find_client_ip(forwarded)
           a == get_client_ip(peer, forwarded)
<1>1. Reverse(forwarded) = [i \in 1 .. n |-> forwarded[n - i + 1]] /\ Reverse(forwarded) \in Seq(Addresses)
  <2>1. Len(forwarded) = n
    OBVIOUS
  <2>2. Reverse(forwarded) = [i \in 1 .. n |-> forwarded[n - i + 1]]
    BY <2>1 DEF Reverse
  <2>3. \A i \in 1 .. n : n - i + 1 \in 1 .. n
    OBVIOUS
  <2>4. [i \in 1 .. n |-> forwarded[n - i + 1]] \in [1 .. n -> Addresses]
    BY <2>3
  <2> QED
    BY <2>2, <2>4
<1>2. /\ Len(hops) = n + 1 /\ hops \in Seq(Addresses) /\ DOMAIN hops = 1 .. n + 1
      /\ hops[1] = peer /\ \A i \in 1 .. n : hops[i + 1] = forwarded[n - i + 1]
  <2> DEFINE v == Reverse(forwarded)
  <2>1. v \in Seq(Addresses) /\ Len(v) = n /\ \A i \in 1 .. n : v[i] = forwarded[n - i + 1]
    BY <1>1
  <2>2. <<peer>> \in Seq(Addresses) /\ Len(<<peer>>) = 1 /\ <<peer>>[1] = peer
    BY ShortSequences
  <2> DEFINE u == <<peer>>
  <2> HIDE DEF v, u
  <2>3. /\ u \o v \in Seq(Addresses) /\ Len(u \o v) = 1 + n /\ (u \o v)[1] = u[1]
        /\ \A i \in 1 .. n : (u \o v)[i + 1] = v[i]
    BY <2>1, <2>2, ConcatProperties DEF u
  <2>4. DOMAIN (u \o v) = 1 .. n + 1
    BY <2>3, LenProperties
  <2> QED
    BY <2>1, <2>2, <2>3, <2>4 DEF u, v
<1>3. IsLastPublic(forwarded, n, c)
  BY FindClientIs
<1>4. a = IF peer \in Private /\ c # NULL THEN c ELSE peer
  BY DEF get_client_ip
<1>5. peer \in Private \/ peer \in Public
  BY DEF Addresses
<1> HIDE DEF hops, c, a
<1>6. SUFFICES /\ a \in Addresses
               /\ \/ \E i \in 1 .. n + 1 : hops[i] = a /\ a \in Public /\ \A j \in 1 .. i - 1 : hops[j] \in Private
                  \/ a = peer /\ Range(hops) \subseteq Private
  BY <1>2 DEF ClientOf, hops, a
<1>7. CASE peer \notin Private
  <2>1. 1 \in 1 .. n + 1 /\ 1 .. 1 - 1 = {}
    OBVIOUS
  <2>2. a = peer /\ peer \in Public
    BY <1>4, <1>5, <1>7
  <2> QED
    BY <1>2, <2>1, <2>2
<1>8. CASE peer \in Private /\ c = NULL /\ \A j \in 1 .. n : forwarded[j] \in Private
  <2>1. \A i \in 1 .. n + 1 : hops[i] \in Private
    <3> TAKE i \in 1 .. n + 1
    <3>1. CASE i = 1
      BY <1>2, <1>8, <3>1
    <3>2. CASE i # 1
      <4>1. i - 1 \in 1 .. n /\ (i - 1) + 1 = i /\ n - (i - 1) + 1 \in 1 .. n
        BY <3>2
      <4>2. hops[i] = forwarded[n - (i - 1) + 1]
        BY <1>2, <4>1
      <4> QED
        BY <1>8, <4>1, <4>2
    <3> QED
      BY <3>1, <3>2
  <2>2. Range(hops) \subseteq Private
    BY <1>2, <2>1 DEF Range
  <2> QED
    BY <1>4, <1>8, <2>2
<1>9. CASE peer \in Private /\ \E i \in 1 .. n : /\ forwarded[i] = c /\ c \in Public
                                             /\ \A j \in i + 1 .. n : forwarded[j] \in Private
  <2>1. PICK i \in 1 .. n : forwarded[i] = c /\ c \in Public /\ \A j \in i + 1 .. n : forwarded[j] \in Private
    BY <1>9
  <2>2. c # NULL /\ a = c /\ c \in Addresses
    BY <1>4, <1>9, <2>1, NullIsNone DEF Addresses
  <2>3. hops[n + 2 - i] = c /\ n + 2 - i \in 1 .. n + 1
    <3>1. n + 1 - i \in 1 .. n /\ n - (n + 1 - i) + 1 = i /\ (n + 1 - i) + 1 = n + 2 - i /\ n + 2 - i \in 1 .. n + 1
      OBVIOUS
    <3>2. hops[(n + 1 - i) + 1] = forwarded[n - (n + 1 - i) + 1]
      BY <1>2, <3>1
    <3> QED
      BY <2>1, <3>1, <3>2
  <2>4. \A j \in 1 .. (n + 2 - i) - 1 : hops[j] \in Private
    <3> TAKE j \in 1 .. (n + 2 - i) - 1
    <3>1. CASE j = 1
      BY <1>2, <1>9, <3>1
    <3>2. CASE j # 1
      <4>1. j - 1 \in 1 .. n /\ (j - 1) + 1 = j /\ n - (j - 1) + 1 \in i + 1 .. n
        BY <3>2
      <4>2. hops[(j - 1) + 1] = forwarded[n - (j - 1) + 1]
        BY <1>2, <4>1
      <4> QED
        BY <2>1, <4>1, <4>2
    <3> QED
      BY <3>1, <3>2
  <2> QED
    BY <2>1, <2>2, <2>3, <2>4
<1> QED
  BY <1>3, <1>7, <1>8, <1>9 DEF IsLastPublic

\* A request that is denied.
Asked(r) ==
  /\ r.peer \in Addresses /\ r.client = get_client_ip(r.peer, r.forwarded)
  /\ \E n \in Nat : r.forwarded \in [1 .. n -> Addresses]

\* Its client is the one that get_client_ip finds.
LEMMA AskedClient ==
  ASSUME NEW r, Asked(r)
  PROVE  ClientOf(r, r.client) /\ r.client \in Addresses
<1>1. PICK n \in Nat : r.forwarded \in [1 .. n -> Addresses]
  BY DEF Asked
<1>2. r.peer \in Addresses /\ r.client = get_client_ip(r.peer, r.forwarded)
  BY DEF Asked
<1> QED
  BY <1>1, <1>2, ClientIs

\* Filter asks for a page of such a request.
Kinds == {"deny", "rate"}
LEMMA FilterAsks ==
  ASSUME Filter
  PROVE  /\ Asked(request') /\ request' # Nothing
         /\ \E kind \in Kinds : request'.status \in Statuses[kind] /\ responseDeny(kind, request')
<1>1. PICK peer \in Peers, n \in 0 .. MaxForwarded, kind \in Kinds :
        \E forwarded \in [1 .. n -> Addresses], status \in Statuses[kind] \cap Judgements :
          /\ request' = [status |-> status, client |-> get_client_ip(peer, forwarded),
                         peer |-> peer, forwarded |-> forwarded]
          /\ responseDeny(kind, request')
  BY DEF Filter, Kinds
<1>2. PICK forwarded \in [1 .. n -> Addresses], status \in Statuses[kind] \cap Judgements :
          /\ request' = [status |-> status, client |-> get_client_ip(peer, forwarded),
                         peer |-> peer, forwarded |-> forwarded]
          /\ responseDeny(kind, request')
  BY <1>1
<1>3. n \in Nat
  BY BoundsAssumption
<1>4. /\ peer \in Addresses /\ request'.status = status /\ request'.peer = peer /\ request'.forwarded = forwarded
      /\ request'.client = get_client_ip(peer, forwarded) /\ request' # Nothing
  BY <1>2 DEF Peers, Nothing
<1> QED
  BY <1>2, <1>3, <1>4 DEF Asked

-----------------------------------------------------------------------------
(* Why a worker dies.                                                      *)

\* A command can be compared with all URLs only if all were delivered.
LEMMA TriedIs ==
  ASSUME NEW matched, Tried(matched) = NULL, Tried(matched) # "none"
  PROVE  Range(Commands) \ url # {}
<1> DEFINE F(p) == [i \in 1 .. Len(Commands) + 1 |->
                     IF i > Len(Commands) THEN "none"
                     ELSE IF Commands[i] \notin url THEN NULL
                     ELSE IF Commands[i] \in matched THEN Commands[i] ELSE p[i + 1]]
           e(i, v) == IF Commands[i] \notin url THEN NULL
                      ELSE IF Commands[i] \in matched THEN Commands[i] ELSE v
           q3 == e(3, "none")
           q2 == e(2, q3)
           q1 == e(1, q2)
           q == [i \in 1 .. 4 |-> IF i = 4 THEN "none" ELSE IF i = 3 THEN q3 ELSE IF i = 2 THEN q2 ELSE q1]
           p == CHOOSE x : x = F(x)
<1>1. Tried(matched) = p[1]
  BY DEF Tried
<1>2. q = F(q)
  <2> HIDE DEF e
  <2>1. q[4] = "none" /\ q[3] = q3 /\ q[2] = q2 /\ q[1] = q1
    OBVIOUS
  <2>2. q = [i \in 1 .. 4 |-> q[i]]
    OBVIOUS
  <2> HIDE DEF q
  <2>3. \A i \in 1 .. 4 : q[i] = IF i > 3 THEN "none" ELSE e(i, q[i + 1])
    <3> TAKE i \in 1 .. 4
    <3>1. i = 1 \/ i = 2 \/ i = 3 \/ i = 4
      OBVIOUS
    <3> QED
      BY <2>1, <3>1
  <2>4. q = [i \in 1 .. 4 |-> IF i > 3 THEN "none" ELSE e(i, q[i + 1])]
    BY <2>2, <2>3
  <2> QED
    BY <2>4, NullIsNone DEF e
<1>3. p = F(p)
  BY <1>2
<1>4. \A i \in 1 .. 4 : p[i] = IF i > 3 THEN "none" ELSE e(i, p[i + 1])
  <2> HIDE DEF p
  <2> QED
    BY <1>3, NullIsNone
<1> HIDE DEF p
<1> SUFFICES ASSUME \A i \in 1 .. 3 : Commands[i] \in url PROVE FALSE
  BY NullIsNone DEF Range
<1>5. \A i \in 1 .. 3 : p[i] = Commands[i] \/ p[i] = p[i + 1]
  BY <1>4
<1>6. p[4] = "none"
  BY <1>4
<1>7. p[1] # NULL \/ p[1] = "none"
  BY <1>5, <1>6, NullIsNone
<1> QED
  BY <1>1, <1>7

\* The bytes of the status page as a function of the texts and of their lengths.
LengthOf(tx, ln) ==
  LET upto[i \in 0 .. Len(StatusKeys)] ==
        IF i = 0 THEN 2
        ELSE upto[i - 1] + (IF tx[StatusKeys[i]] = NULL THEN 0
                            ELSE KeyLength + ln[StatusKeys[i]])
  IN upto[Len(StatusKeys)]

\* The keys of the status page.
LEMMA FiveKeys == Len(StatusKeys) = 5 /\ \A i \in 1 .. 5 : StatusKeys[i] \in Range(StatusKeys)
<1>1. Len(StatusKeys) = 5 /\ DOMAIN StatusKeys = 1 .. 5
  BY DEF StatusKeys
<1> QED
  BY <1>1 DEF Range

\* The status fits if each list is within its share.
LEMMA StatusFits ==
  ASSUME NEW tx, NEW ln, \A k \in Range(StatusKeys) : ln[k] \in Nat /\ KeyLength + ln[k] <= Share
  PROVE  LengthOf(tx, ln) \in Nat /\ LengthOf(tx, ln) < StatusSize
<1> DEFINE F(p) == [i \in 0 .. Len(StatusKeys) |->
                     IF i = 0 THEN 2
                     ELSE p[i - 1] + (IF tx[StatusKeys[i]] = NULL THEN 0
                                      ELSE KeyLength + ln[StatusKeys[i]])]
           e(i) == IF tx[StatusKeys[i]] = NULL THEN 0 ELSE KeyLength + ln[StatusKeys[i]]
           q1 == 2 + e(1)
           q2 == q1 + e(2)
           q3 == q2 + e(3)
           q4 == q3 + e(4)
           q5 == q4 + e(5)
           q == [i \in 0 .. 5 |-> IF i = 0 THEN 2 ELSE IF i = 1 THEN q1 ELSE IF i = 2 THEN q2
                                  ELSE IF i = 3 THEN q3 ELSE IF i = 4 THEN q4 ELSE q5]
           p == CHOOSE x : x = F(x)
<1>1. LengthOf(tx, ln) = p[Len(StatusKeys)]
  BY DEF LengthOf
<1>2. q = F(q)
  <2> HIDE DEF e
  <2>1. q[0] = 2 /\ q[1] = q1 /\ q[2] = q2 /\ q[3] = q3 /\ q[4] = q4 /\ q[5] = q5
    OBVIOUS
  <2>2. q = [i \in 0 .. 5 |-> q[i]]
    OBVIOUS
  <2> HIDE DEF q
  <2>3. \A i \in 0 .. 5 : q[i] = IF i = 0 THEN 2 ELSE q[i - 1] + e(i)
    <3> TAKE i \in 0 .. 5
    <3>1. i = 0 \/ i = 1 \/ i = 2 \/ i = 3 \/ i = 4 \/ i = 5
      OBVIOUS
    <3> QED
      BY <2>1, <3>1
  <2>4. q = [i \in 0 .. 5 |-> IF i = 0 THEN 2 ELSE q[i - 1] + e(i)]
    BY <2>2, <2>3
  <2> QED
    BY <2>4, FiveKeys DEF e
<1>3. p = F(p)
  BY <1>2
<1>4. \A i \in 0 .. 5 : p[i] = IF i = 0 THEN 2 ELSE p[i - 1] + e(i)
  <2> HIDE DEF p
  <2> QED
    BY <1>3, FiveKeys
<1> HIDE DEF p
<1>5. \A i \in 1 .. 5 : e(i) \in Nat /\ e(i) <= Share
  <2> TAKE i \in 1 .. 5
  <2>1. StatusKeys[i] \in Range(StatusKeys)
    BY FiveKeys
  <2>2. ln[StatusKeys[i]] \in Nat /\ KeyLength + ln[StatusKeys[i]] <= Share
    BY <2>1
  <2>3. KeyLength \in Nat /\ Share \in Nat
    BY SizesAssumption
  <2>4. 0 <= Share /\ KeyLength + ln[StatusKeys[i]] \in Nat
    BY <2>2, <2>3
  <2> QED
    BY <2>2, <2>4
<1> HIDE DEF e
<1>6. /\ p[0] = 2 /\ p[1] = p[0] + e(1) /\ p[2] = p[1] + e(2)
      /\ p[3] = p[2] + e(3) /\ p[4] = p[3] + e(4) /\ p[5] = p[4] + e(5)
  BY <1>4
<1>7. Share \in Nat /\ StatusSize \in Nat /\ 2 + 5 * Share < StatusSize
  BY SizesAssumption, FiveKeys
<1>8. p[5] <= 2 + 5 * Share /\ p[5] \in Nat
  BY <1>5, <1>6, <1>7
<1> QED
  BY <1>1, <1>7, <1>8, FiveKeys

\* The templates are what was configured or delivered.
Templates ==
  /\ template.deny \in {NULL, Spelling(DefaultDeny)}
  /\ IsTemplate(pieces) /\ template.rate \in {NULL, Spelling(pieces)}
  /\ DOMAIN template = Kinds

\* Lengths are numbers.
Sized ==
  /\ DOMAIN length = Range(StatusKeys) \cup Kinds
  /\ \A k \in Range(StatusKeys) \cup Kinds : length[k] \in Nat

\* A template that is missing is explained.
Missing ==
  /\ short \in BOOLEAN
  /\ DOMAIN template = Kinds
  /\ \A kind \in Kinds : template[kind] = NULL => short \/ kind \in configured
DeathInv == Templates /\ Sized /\ Missing /\ DeathsExplained

\* What is delivered is a template.
LEMMA UpdatesAreTemplates ==
  ASSUME UpdateMessage
  PROVE  \E t : \E bytes \in Nat :
           /\ IsTemplate(t) /\ pieces' = t /\ template' = [template EXCEPT !.rate = Spelling(t)]
           /\ length' = [length EXCEPT !.rate = bytes]
<1>1. PICK n \in 0 .. MaxPieces : \E t \in [1 .. n -> Pieces], bytes \in Lengths :
        /\ Readable(t) /\ pieces' = t /\ template' = [template EXCEPT !.rate = Spelling(t)]
        /\ length' = [length EXCEPT !.rate = bytes]
  BY DEF UpdateMessage
<1>2. PICK t \in [1 .. n -> Pieces], bytes \in Lengths :
        /\ Readable(t) /\ pieces' = t /\ template' = [template EXCEPT !.rate = Spelling(t)]
        /\ length' = [length EXCEPT !.rate = bytes]
  BY <1>1
<1>3. n \in Nat
  BY BoundsAssumption
<1>4. t \in [1 .. n -> PieceSet]
  BY PiecesArePieces
<1>5. t \in Seq(PieceSet)
  BY <1>3, <1>4
<1>6. bytes \in Nat
  BY SizesAssumption
<1> QED
  BY <1>2, <1>5, <1>6 DEF IsTemplate

\* At first a template is missing for a reason.
LEMMA DeathInit == Init => DeathInv
<1> SUFFICES ASSUME Init PROVE DeathInv
  OBVIOUS
<1>1. PICK failed \in SUBSET {"deny", "rate", "acceptHttpMethod"} :
        /\ template \in [deny : {NULL, Spelling(DefaultDeny)}, rate : {NULL, Spelling(DefaultRate)}]
        /\ set_default(failed)
        /\ short = (failed # {})
  BY DEF Init
<1>2. Missing
  <2>1. Spelling(DefaultDeny) # NULL /\ Spelling(DefaultRate) # NULL
    BY DefaultsAreTemplates, TemplatesAreSet
  <2> QED
    BY <1>1, <2>1 DEF Missing, Kinds, set_default
<1>3. Templates
  <2>1. pieces = DefaultRate /\ IsTemplate(pieces)
    BY DefaultsAreTemplates DEF Init
  <2> QED
    BY <1>1, <2>1 DEF Templates, Kinds
<1>4. Sized
  <2>1. length = [k \in Range(StatusKeys) \cup Kinds |-> IF k \in Kinds THEN BuiltIn ELSE 0]
    BY DEF Init, Kinds
  <2>2. BuiltIn \in Nat
    BY SizesAssumption
  <2> QED
    BY <2>1, <2>2 DEF Sized
<1> QED
  BY <1>2, <1>3, <1>4 DEF DeathInv, DeathsExplained, Init

\* A template changes only with its pieces.
LEMMA TemplatesStep == Templates /\ [Next]_vars => Templates'
<1> SUFFICES ASSUME Templates, [Next]_vars PROVE Templates'
  OBVIOUS
<1>1. CASE UpdateMessage
  <2>1. PICK t : IsTemplate(t) /\ pieces' = t /\ template' = [template EXCEPT !.rate = Spelling(t)]
    BY <1>1, UpdatesAreTemplates
  <2>2. template'.deny = template.deny /\ template'.rate = Spelling(t) /\ DOMAIN template' = Kinds
    BY <2>1 DEF Templates, Kinds
  <2> QED
    BY <2>1, <2>2 DEF Templates
<1>2. CASE UNCHANGED <<template, pieces>>
  BY <1>2 DEF Templates
<1>3. UpdateMessage \/ UNCHANGED <<template, pieces>>
  BY DEF Next, vars, UpdateSwitch, UpdateList, UpdateURL, Internal, Filter, Finish
<1> QED
  BY <1>1, <1>2, <1>3

\* Lengths are delivered.
LEMMA SizedStep == Sized /\ [Next]_vars => Sized'
<1> SUFFICES ASSUME Sized, [Next]_vars PROVE Sized'
  OBVIOUS
<1>1. UNCHANGED length \/ \E k \in Range(StatusKeys) \cup Kinds, n \in Nat : length' = [length EXCEPT ![k] = n]
  <2>1. CASE UpdateList
    <3>1. PICK k \in Range(StatusKeys), n \in Lengths : length' = [length EXCEPT ![k] = n]
      BY <2>1 DEF UpdateList
    <3> QED
      BY <3>1, SizesAssumption
  <2>2. CASE UpdateMessage
    <3>1. PICK bytes \in Nat : length' = [length EXCEPT !["rate"] = bytes]
      BY <2>2, UpdatesAreTemplates
    <3> QED
      BY <3>1 DEF Kinds
  <2>3. UpdateList \/ UpdateMessage \/ UNCHANGED length
    BY DEF Next, vars, UpdateSwitch, UpdateURL, Internal, Filter, Finish
  <2> QED
    BY <2>1, <2>2, <2>3
<1> QED
  BY <1>1 DEF Sized

\* A page that does not fit had too long a template or address.
LEMMA OverflowExplained ==
  ASSUME Templates, Sized, NEW kind \in Kinds, template[kind] # NULL, NEW r, r.client \in Addresses,
         PageLength(Substitute(template[kind], kind, r), kind, r) >= PageSize
  PROVE  LET t == IF kind = "rate" THEN pieces ELSE DefaultDeny
         IN length[kind] + Cardinality(Holes(t)) * AddressLength[r.client] >= PageSize
<1> DEFINE t == IF kind = "rate" THEN pieces ELSE DefaultDeny
<1>1. IsTemplate(t) /\ template[kind] = Spelling(t)
  BY DefaultsAreTemplates DEF Templates, Kinds
<1>2. length[kind] \in Nat
  BY DEF Sized
<1> HIDE DEF t
<1> DEFINE size == PageLength(Substitute(Spelling(t), kind, r), kind, r)
           longest == length[kind] + Cardinality(Holes(t)) * AddressLength[r.client]
<1>3. size \in Nat /\ size <= longest
  BY <1>1, <1>2, PageIsShort
<1>4. size >= PageSize
  BY <1>1
<1>5. longest \in Nat
  <2>1. IsFiniteSet(Holes(t))
    <3>1. t \in Seq(PieceSet)
      BY <1>1 DEF IsTemplate
    <3>2. DOMAIN t = 1 .. Len(t) /\ Len(t) \in Nat
      BY <3>1, LenProperties
    <3>3. 1 \in Int /\ Len(t) \in Int
      BY <3>2
    <3>4. IsFiniteSet(1 .. Len(t)) /\ Holes(t) \in SUBSET (1 .. Len(t))
      BY <3>2, <3>3, FS_Interval DEF Holes
    <3> QED
      BY <3>4, FS_Subset
  <2>2. Cardinality(Holes(t)) \in Nat
    BY <2>1, FS_CardinalityType
  <2>3. AddressLength[r.client] \in Nat
    BY SizesAssumption
  <2> QED
    BY <1>2, <2>2, <2>3
<1>6. PageSize \in Nat
  BY SizesAssumption
<1> HIDE DEF size, longest
<1>7. longest >= PageSize
  BY <1>3, <1>4, <1>5, <1>6
<1> QED
  BY <1>7 DEF t, longest

\* Every way of making a page leaves a death explained.
LEMMA DeathStep == DeathInv /\ [Next]_vars => DeathInv'
<1> SUFFICES ASSUME DeathInv, [Next]_vars PROVE Missing' /\ DeathsExplained'
  BY TemplatesStep, SizedStep DEF DeathInv
<1>0. Templates /\ Sized /\ Missing /\ DeathsExplained
  BY DEF DeathInv
<1>1. CASE UpdateSwitch \/ UpdateList \/ UpdateURL \/ Finish
  <2>1. ~dead' /\ UNCHANGED <<short, template, configured>>
    BY <1>1 DEF UpdateSwitch, UpdateList, UpdateURL, Finish, Update
  <2> QED
    BY <1>0, <2>1 DEF DeathsExplained, Missing
<1>2. CASE UpdateMessage
  <2>1. ~dead' /\ UNCHANGED <<short, configured>>
    BY <1>2 DEF UpdateMessage, Update
  <2>2. PICK t : IsTemplate(t) /\ template' = [template EXCEPT !.rate = Spelling(t)]
    BY <1>2, UpdatesAreTemplates
  <2>3. Spelling(t) # NULL
    BY <2>2, TemplatesAreSet
  <2> QED
    BY <1>0, <2>1, <2>2, <2>3 DEF DeathsExplained, Missing, Kinds
<1>3. CASE Internal
  <2>1. UNCHANGED <<template, configured, url, length>> /\ ~dead /\ request' = Nothing
    BY <1>3 DEF Internal
  <2>2. PICK c : /\ c # "none"
                 /\ c = NULL => Range(Commands) \ url # {}
                 /\ IF c = NULL THEN Die /\ UNCHANGED short
                                ELSE responseStatus(dumpStatus', StatusLength')
    <3>1. PICK matched \in SUBSET Range(Commands) :
            /\ Tried(matched) # "none"
            /\ IF Tried(matched) = NULL THEN Die /\ UNCHANGED short
                                        ELSE responseStatus(dumpStatus', StatusLength')
      BY <1>3 DEF Internal
    <3> QED
      BY <3>1, TriedIs
  <2>3. CASE c = NULL
    BY <1>0, <2>1, <2>2, <2>3 DEF Die, DeathsExplained, Missing
  <2>4. CASE c # NULL
    <3>1. CASE StatusLength' < StatusSize /\ Sent("status", dumpStatus')
      BY <1>0, <2>1, <3>1 DEF Sent, DeathsExplained, Missing
    <3>2. CASE StatusLength' >= StatusSize /\ Die /\ UNCHANGED short
      <4>1. PICK k \in Range(StatusKeys) : ~(KeyLength + length[k] <= Share)
        <5> SUFFICES ASSUME \A k \in Range(StatusKeys) : KeyLength + length[k] <= Share PROVE FALSE
          OBVIOUS
        <5>1. \A k \in Range(StatusKeys) : length'[k] \in Nat /\ KeyLength + length'[k] <= Share
          BY <1>0, <2>1 DEF Sized
        <5>2. LengthOf(text', length') \in Nat /\ LengthOf(text', length') < StatusSize
          BY <5>1, StatusFits
        <5>3. StatusLength' = LengthOf(text', length')
          BY DEF StatusLength, LengthOf
        <5>4. StatusSize \in Nat
          BY SizesAssumption
        <5> QED
          BY <3>2, <5>2, <5>3, <5>4
      <4>2. KeyLength + length[k] > Share
        <5>1. KeyLength \in Nat /\ Share \in Nat /\ length[k] \in Nat
          BY <1>0, SizesAssumption DEF Sized
        <5> QED
          BY <4>1, <5>1
      <4> QED
        BY <1>0, <2>1, <3>2, <4>2 DEF Die, DeathsExplained, Missing
    <3>3. CASE Unsent("status")
      BY <1>0, <2>1, <3>3 DEF Unsent, DeathsExplained, Missing
    <3>4. CASE Die /\ short' = TRUE
      BY <1>0, <2>1, <3>4 DEF Die, DeathsExplained, Missing
    <3> QED
      BY <2>2, <2>4, <3>1, <3>2, <3>3, <3>4 DEF responseStatus
  <2> QED
    BY <2>3, <2>4
<1>4. CASE Filter
  <2>1. UNCHANGED <<template, configured, url, length, pieces>> /\ ~dead
    BY <1>4 DEF Filter
  <2>2. PICK kind \in Kinds :
          /\ request' # Nothing /\ request'.status \in Statuses[kind]
          /\ request'.client \in Addresses
          /\ responseDeny(kind, request')
    BY <1>4, FilterAsks, AskedClient
  <2> DEFINE page == Substitute(template[kind], kind, request')
             size == PageLength(page, kind, request')
  <2>3. CASE template[kind] # NULL /\ size < PageSize /\ Sent(kind, page)
    BY <1>0, <2>1, <2>3 DEF Sent, DeathsExplained, Missing
  <2>4. CASE template[kind] # NULL /\ size >= PageSize /\ Die /\ UNCHANGED short
    <3> DEFINE t == IF kind = "rate" THEN pieces ELSE DefaultDeny
    <3>1. length[kind] + Cardinality(Holes(t)) * AddressLength[request'.client] >= PageSize
      BY <1>0, <2>2, <2>4, OverflowExplained
    <3>2. LongestPage(kind)' = length[kind] + Cardinality(Holes(t)) * AddressLength[request'.client]
      BY <2>1 DEF LongestPage, Holes
    <3>3. LongestPage(kind)' >= PageSize
      BY <3>1, <3>2
    <3> QED
      BY <1>0, <2>1, <2>2, <2>4, <3>3 DEF Die, DeathsExplained, Missing, Kinds
  <2>5. CASE template[kind] = NULL /\ Die /\ UNCHANGED short
    <3>1. short \/ kind \in configured
      BY <1>0, <2>5 DEF Missing
    <3> QED
      BY <1>0, <2>1, <2>2, <2>5, <3>1 DEF Die, DeathsExplained, Missing, Kinds
  <2>6. CASE Unsent(kind)
    BY <1>0, <2>1, <2>6 DEF Unsent, DeathsExplained, Missing
  <2> QED
    BY <2>2, <2>3, <2>4, <2>5, <2>6 DEF responseDeny
<1>5. CASE UNCHANGED vars
  BY <1>0, <1>5 DEF vars, DeathsExplained, Missing, LongestPage
<1> QED
  BY <1>1, <1>2, <1>3, <1>4, <1>5 DEF Next

\* A worker dies in making a page only if memory was short, its configuration has a
\* message for the page, a command comes before all URLs, or what fills a buffer is
\* too long for it; for messages, addresses and lists of any length
\* (responseDenyMessage, responseDenyRateMessage, handleInternalRequestIfNeeded,
\* dumpStatus).
THEOREM ExplainsDeaths == Spec => []DeathsExplained
<1>1. DeathInv => DeathsExplained
  BY DEF DeathInv
<1> QED
  BY <1>1, DeathInit, DeathStep, PTL DEF Spec

-----------------------------------------------------------------------------
(* The pages made from a template.                                         *)

\* The rate page is its template with the client's address in the placeholders
\* that ask for it.
LEMMA RateFilled ==
  ASSUME NEW t, IsTemplate(t), NEW r
  PROVE  Substitute(Spelling(t), "rate", r) = FlattenSeq([i \in DOMAIN t |-> Filled(t[i], r.client)])
<1>1. Substitute(Spelling(t), "rate", r) = FlattenSeq([i \in 1 .. Len(t) |-> Result(t[i], "rate", r)])
  BY TemplateFilled
<1>2. DOMAIN t = 1 .. Len(t) /\ \A i \in 1 .. Len(t) : t[i] \in PieceSet
  BY LenProperties, ElementOfSeq DEF IsTemplate
<1>3. \A p \in PieceSet : Result(p, "rate", r) = Filled(p, r.client)
  <2> TAKE p \in PieceSet
  <2>1. CASE \E c \in Chars : p = Plain(c)
    <3>1. ~p.hole
      BY <2>1, PieceSpelled
    <3> QED
      BY <3>1 DEF Result, Filled
  <2>2. CASE \E h \in Seq(Inner) : p = Hole(h) \/ p = Unclosed(h)
    <3>1. PICK h \in Seq(Inner) : p = Hole(h) \/ p = Unclosed(h)
      BY <2>2
    <3>2. p.hole /\ p.s = h
      BY <3>1, PieceSpelled
    <3>3. Number(h) = 0 <=> Range(h) \cap {"1", "2", "3"} = {}
      BY NumberZero
    <3>4. Fill("rate", r, Number(h)) = IF Number(h) = 0 THEN <<r.client>> ELSE <<>>
      BY DEF Fill
    <3> QED
      BY <3>2, <3>3, <3>4 DEF Result, Filled
  <2> QED
    BY <2>1, <2>2 DEF PieceSet
<1>4. [i \in 1 .. Len(t) |-> Result(t[i], "rate", r)] = [i \in DOMAIN t |-> Filled(t[i], r.client)]
  BY <1>2, <1>3
<1> QED
  BY <1>1, <1>4

\* The built-in deny page.
LEMMA DenyFilled ==
  ASSUME NEW r
  PROVE  LET page == Substitute(Spelling(DefaultDeny), "deny", r)
         IN /\ DOMAIN page = 1 .. 7 /\ page[3] = r.status /\ page[5] = r.client
            /\ \A k \in 1 .. 7 : k \notin {3, 5} => page[k] = "t"
<1> DEFINE ss == [i \in 1 .. Len(DefaultDeny) |-> Result(DefaultDeny[i], "deny", r)]
           A == Chars \cup {r.status, r.client}
<1>1. ss \in Seq(Seq(A)) /\ Substitute(Spelling(DefaultDeny), "deny", r) = FlattenSeq(ss)
  BY DefaultsAreTemplates, TemplateFilled
<1>2. /\ Result(Plain("t"), "deny", r) = <<"t">>
      /\ Result(Hole(<<"0">>), "deny", r) = <<>>
      /\ Result(Hole(<<"1">>), "deny", r) = <<r.status>>
      /\ Result(Hole(<<"2">>), "deny", r) = <<r.client>>
  <2>1. Number(<<"0">>) = 0 /\ Number(<<"1">>) = 1 /\ Number(<<"2">>) = 2
    <3>1. "0" \in DOMAIN Digit /\ "1" \in DOMAIN Digit /\ "2" \in DOMAIN Digit
      BY DigitIs
    <3> QED
      BY <3>1, NumberOfDigit, DigitIs
  <2>2. /\ Fill("deny", r, 0) = <<>> /\ Fill("deny", r, 1) = <<r.status>>
        /\ Fill("deny", r, 2) = <<r.client>>
    BY DEF Fill
  <2>3. /\ Hole(<<"0">>).hole /\ Hole(<<"0">>).s = <<"0">>
        /\ Hole(<<"1">>).hole /\ Hole(<<"1">>).s = <<"1">>
        /\ Hole(<<"2">>).hole /\ Hole(<<"2">>).s = <<"2">>
        /\ ~Plain("t").hole /\ Plain("t").s = <<"t">>
    BY DefaultPieces
  <2> QED
    BY <2>1, <2>2, <2>3 DEF Result
<1>3. /\ Len(ss) = 9
      /\ ss[1] = <<"t">> /\ ss[2] = <<>> /\ ss[3] = <<"t">> /\ ss[4] = <<r.status>> /\ ss[5] = <<"t">>
      /\ ss[6] = <<r.client>> /\ ss[7] = <<"t">> /\ ss[8] = <<>> /\ ss[9] = <<"t">>
  <2>1. Len(DefaultDeny) = 9
    BY DEF DefaultDeny
  <2>2. /\ DefaultDeny[1] = Plain("t") /\ DefaultDeny[2] = Hole(<<"0">>) /\ DefaultDeny[3] = Plain("t")
        /\ DefaultDeny[4] = Hole(<<"1">>) /\ DefaultDeny[5] = Plain("t") /\ DefaultDeny[6] = Hole(<<"2">>)
        /\ DefaultDeny[7] = Plain("t") /\ DefaultDeny[8] = Hole(<<"0">>) /\ DefaultDeny[9] = Plain("t")
    BY DEF DefaultDeny
  <2> QED
    BY <1>2, <2>1, <2>2
<1> HIDE DEF ss, A
<1>4. PICK off \in [1 .. 10 -> Nat \ {0}] : Parts(ss, FlattenSeq(ss), off)
  <2>1. \E off \in [1 .. Len(ss) + 1 -> Nat \ {0}] : Parts(ss, FlattenSeq(ss), off)
    BY <1>1, FlattenParts
  <2>2. Len(ss) + 1 = 10
    BY <1>3
  <2> QED
    BY <2>1, <2>2
<1>5. /\ FlattenSeq(ss) \in Seq(A)
      /\ \A i \in 1 .. 9 : Len(ss[i]) = IF i \in {2, 8} THEN 0 ELSE 1
      /\ \A i \in 1 .. 9 : i \notin {2, 8} =>
           ss[i][1] = IF i = 4 THEN r.status ELSE IF i = 6 THEN r.client ELSE "t"
  <2>1. FlattenSeq(ss) \in Seq(A)
    BY <1>1, FlattenParts
  <2>2. \A i \in 1 .. 9 : i = 1 \/ i = 2 \/ i = 3 \/ i = 4 \/ i = 5 \/ i = 6 \/ i = 7 \/ i = 8 \/ i = 9
    OBVIOUS
  <2>3. Len(<<>>) = 0 /\ \A c : Len(<<c>>) = 1 /\ <<c>>[1] = c
    OBVIOUS
  <2>4. /\ Len(ss[1]) = 1 /\ Len(ss[2]) = 0 /\ Len(ss[3]) = 1 /\ Len(ss[4]) = 1 /\ Len(ss[5]) = 1
        /\ Len(ss[6]) = 1 /\ Len(ss[7]) = 1 /\ Len(ss[8]) = 0 /\ Len(ss[9]) = 1
    BY <1>3, <2>3
  <2>5. /\ ss[1][1] = "t" /\ ss[3][1] = "t" /\ ss[4][1] = r.status /\ ss[5][1] = "t"
        /\ ss[6][1] = r.client /\ ss[7][1] = "t" /\ ss[9][1] = "t"
    BY <1>3, <2>3
  <2>6. \A i \in 1 .. 9 : Len(ss[i]) = IF i \in {2, 8} THEN 0 ELSE 1
    BY <2>2, <2>4
  <2>7. \A i \in 1 .. 9 : i \notin {2, 8} =>
           ss[i][1] = IF i = 4 THEN r.status ELSE IF i = 6 THEN r.client ELSE "t"
    BY <2>2, <2>5
  <2> QED
    BY <2>1, <2>6, <2>7
<1> DEFINE page == FlattenSeq(ss)
           L(i) == IF i \in {2, 8} THEN 0 ELSE 1
           C(i) == ss[i][1]
<1>6. /\ off[1] = 1 /\ Len(page) = off[10] - 1
      /\ \A i \in 1 .. 9 : off[i + 1] = off[i] + L(i)
      /\ \A i \in 1 .. 9 : i \notin {2, 8} => page[off[i]] = C(i)
  <2>1. /\ off[1] = 1 /\ Len(page) = off[10] - 1
        /\ \A i \in 1 .. 9 : off[i + 1] = off[i] + Len(ss[i])
        /\ \A i \in 1 .. 9 : \A k \in 1 .. Len(ss[i]) : page[off[i] + k - 1] = ss[i][k]
    BY <1>3, <1>4 DEF Parts
  <2>2. \A i \in 1 .. 9 : Len(ss[i]) = L(i)
    BY <1>5
  <2> HIDE DEF page
  <2>3. \A i \in 1 .. 9 : i \notin {2, 8} => 1 \in 1 .. L(i) /\ off[i] + 1 - 1 = off[i]
    OBVIOUS
  <2> HIDE DEF L
  <2>4. \A i \in 1 .. 9 : i \notin {2, 8} => page[off[i] + 1 - 1] = ss[i][1]
    BY <2>1, <2>2, <2>3
  <2>5. \A i \in 1 .. 9 : i \notin {2, 8} => page[off[i]] = ss[i][1]
    BY <2>3, <2>4
  <2> QED
    BY <2>1, <2>2, <2>5
<1> HIDE DEF page, C
<1>7. /\ off[2] = 2 /\ off[3] = 2 /\ off[4] = 3 /\ off[5] = 4 /\ off[6] = 5
      /\ off[7] = 6 /\ off[8] = 7 /\ off[9] = 7 /\ off[10] = 8
  <2>1. /\ 1 + 1 = 2 /\ 2 + 1 = 3 /\ 3 + 1 = 4 /\ 4 + 1 = 5 /\ 5 + 1 = 6
        /\ 6 + 1 = 7 /\ 7 + 1 = 8 /\ 8 + 1 = 9 /\ 9 + 1 = 10
    OBVIOUS
  <2>2. off[1] = 1 /\ \A i \in 1 .. 9 : off[i + 1] = off[i] + L(i)
    BY <1>6
  <2>3. /\ L(1) = 1 /\ L(2) = 0 /\ L(3) = 1 /\ L(4) = 1 /\ L(5) = 1
        /\ L(6) = 1 /\ L(7) = 1 /\ L(8) = 0 /\ L(9) = 1
    OBVIOUS
  <2> HIDE DEF L
  <2>4. /\ off[2] = off[1] + 1 /\ off[3] = off[2] + 0 /\ off[4] = off[3] + 1 /\ off[5] = off[4] + 1
        /\ off[6] = off[5] + 1 /\ off[7] = off[6] + 1 /\ off[8] = off[7] + 1 /\ off[9] = off[8] + 0
        /\ off[10] = off[9] + 1
    BY <2>1, <2>2, <2>3
  <2> QED
    BY <2>2, <2>4
<1>8. /\ Len(page) = 7
      /\ page[1] = C(1) /\ page[2] = C(3) /\ page[3] = C(4) /\ page[4] = C(5) /\ page[5] = C(6)
      /\ page[6] = C(7) /\ page[7] = C(9)
  BY <1>6, <1>7
<1>9. \A k \in 1 .. 7 : k \notin {3, 5} => page[k] = "t"
  <2>1. C(1) = "t" /\ C(3) = "t" /\ C(5) = "t" /\ C(7) = "t" /\ C(9) = "t"
    BY <1>5 DEF C
  <2>2. \A k \in 1 .. 7 : k \notin {3, 5} => k = 1 \/ k = 2 \/ k = 4 \/ k = 6 \/ k = 7
    OBVIOUS
  <2> QED
    BY <1>8, <2>1, <2>2
<1>10. C(4) = r.status /\ C(6) = r.client
  BY <1>5 DEF C
<1>11. DOMAIN page = 1 .. 7
  BY <1>5, <1>8, LenProperties DEF page
<1> QED
  BY <1>1, <1>8, <1>9, <1>10, <1>11 DEF page

-----------------------------------------------------------------------------
(* The status page.                                                        *)

\* dumpStatus, of the texts tx.
EntryOf(tx, k) == IF tx[k] = NULL THEN <<>>
                  ELSE IF k = "denyNOVisitorIDURL" THEN << <<k, tx[k]>> >>
                  ELSE << <<k, tx[k]>>, Comma >>
StatusOf(tx) ==
  <<Begin>> \o FlattenSeq([i \in DOMAIN StatusKeys |-> EntryOf(tx, StatusKeys[i])]) \o <<End>>

\* The keys of the status page: the last one is printed without a comma.
LEMMA StatusKeysAre ==
  /\ DOMAIN StatusKeys = 1 .. 5 /\ Range(StatusKeys) = {StatusKeys[i] : i \in 1 .. 5}
  /\ \A i \in 1 .. 5 : StatusKeys[i] = "denyNOVisitorIDURL" <=> i = 5
  /\ "enable" \in Range(StatusKeys) /\ "mount" \in Range(StatusKeys)
  /\ \A i, j \in 1 .. 5 : StatusKeys[i] = StatusKeys[j] => i = j
<1>1. DOMAIN StatusKeys = 1 .. 5
  BY DEF StatusKeys
<1>2. Range(StatusKeys) = {StatusKeys[i] : i \in 1 .. 5}
  BY <1>1 DEF Range
<1>3. /\ StatusKeys[1] = "enable" /\ StatusKeys[2] = "mount" /\ StatusKeys[3] = "denyIPAddress"
      /\ StatusKeys[4] = "acceptHttpMethod" /\ StatusKeys[5] = "denyNOVisitorIDURL"
  BY DEF StatusKeys
<1>4. \A i \in 1 .. 5 : i = 1 \/ i = 2 \/ i = 3 \/ i = 4 \/ i = 5
  OBVIOUS
<1>5. \A i \in 1 .. 5 : StatusKeys[i] = "denyNOVisitorIDURL" <=> i = 5
  BY <1>3, <1>4
<1>6. "enable" \in Range(StatusKeys) /\ "mount" \in Range(StatusKeys)
  <2>1. 1 \in 1 .. 5 /\ 2 \in 1 .. 5
    OBVIOUS
  <2> QED
    BY <1>2, <1>3, <2>1
<1>7. \A i, j \in 1 .. 5 : StatusKeys[i] = StatusKeys[j] => i = j
  BY <1>3, <1>4
<1> QED
  BY <1>1, <1>2, <1>5, <1>6, <1>7

\* s has the entries pr[k], for the k up to i of has, each with a comma behind it.
Alternates(s, i, pr, has) ==
  \A j \in 1 .. Len(s) : /\ j % 2 = 0 => s[j] = Comma
                         /\ j % 2 = 1 => \E k \in has : k <= i /\ s[j] = pr[k]
Lists(s, i, pr, has) == \A k \in has : k <= i => \E j \in 1 .. Len(s) : s[j] = pr[k]
Row(s, i, pr, has) ==
  /\ Alternates(s, i, pr, has) /\ Lists(s, i, pr, has)
  /\ Len(s) % 2 = 0
  /\ Len(s) = 0 <=> \A k \in has : k > i
RowStart(A, s, i, pr, has) ==
  /\ s \in Seq(A) /\ i \in 1 .. 5 /\ Row(s, i - 1, pr, has)
  /\ has \subseteq 1 .. 5 /\ Comma \in A /\ \A k \in 1 .. 5 : pr[k] \in A

\* One more entry makes a row of the next key.
LEMMA RowStep ==
  ASSUME NEW A, NEW s, NEW i, NEW pr, NEW has, RowStart(A, s, i, pr, has)
  PROVE  Row(IF i \in has THEN s \o <<pr[i], Comma>> ELSE s, i, pr, has)
<1>1. s \in Seq(A) /\ i \in 1 .. 5 /\ has \subseteq 1 .. 5 /\ Comma \in A /\ pr[i] \in A
  BY DEF RowStart
<1>2. /\ Len(s) % 2 = 0
      /\ \A j \in 1 .. Len(s) : /\ j % 2 = 0 => s[j] = Comma
                                /\ j % 2 = 1 => \E k \in has : k <= i - 1 /\ s[j] = pr[k]
      /\ \A k \in has : k <= i - 1 => \E j \in 1 .. Len(s) : s[j] = pr[k]
      /\ Len(s) = 0 <=> \A k \in has : k > i - 1
  BY DEF RowStart, Row, Alternates, Lists
<1>3. \A k \in has : (k <= i <=> k <= i - 1 \/ k = i) /\ (k > i - 1 <=> k > i \/ k = i)
  BY <1>1
<1>4. CASE i \notin has
  <2>1. \A k \in has : (k <= i <=> k <= i - 1) /\ (k > i - 1 <=> k > i)
    BY <1>3, <1>4
  <2>2. Alternates(s, i, pr, has) /\ Lists(s, i, pr, has)
    BY <1>2, <2>1 DEF Alternates, Lists
  <2>3. Len(s) = 0 <=> \A k \in has : k > i
    BY <1>2, <2>1
  <2> QED
    BY <1>2, <1>4, <2>2, <2>3 DEF Row
<1>5. CASE i \in has
  <2> DEFINE n == Len(s)
             t == s \o <<pr[i], Comma>>
  <2>1. <<pr[i], Comma>> \in Seq(A) /\ Len(<<pr[i], Comma>>) = 2
        /\ <<pr[i], Comma>>[1] = pr[i] /\ <<pr[i], Comma>>[2] = Comma
    BY <1>1, ShortSequences
  <2>2. n \in Nat
    BY <1>1, LenProperties
  <2>3. Len(t) = n + 2 /\ (\A j \in 1 .. n : t[j] = s[j]) /\ t[n + 1] = pr[i] /\ t[n + 2] = Comma
    <3> DEFINE u == <<pr[i], Comma>>
    <3>1. u \in Seq(A) /\ Len(u) = 2 /\ u[1] = pr[i] /\ u[2] = Comma
      BY <2>1
    <3> HIDE DEF u
    <3>2. /\ Len(s \o u) = Len(s) + Len(u)
          /\ \A j \in 1 .. Len(s) + Len(u) : (s \o u)[j] = IF j <= Len(s) THEN s[j] ELSE u[j - Len(s)]
      BY <1>1, <3>1, ConcatProperties
    <3>3. /\ \A j \in 1 .. n : j \in 1 .. n + 2 /\ j <= n
          /\ n + 1 \in 1 .. n + 2 /\ n + 2 \in 1 .. n + 2 /\ ~(n + 1 <= n) /\ ~(n + 2 <= n)
          /\ (n + 1) - n = 1 /\ (n + 2) - n = 2
      BY <2>2
    <3> QED
      BY <3>1, <3>2, <3>3 DEF u
  <2>4. n % 2 = 0 /\ (n + 2) % 2 = 0 /\ (n + 1) % 2 = 1 /\ n + 2 # 0
        /\ \A j \in 1 .. n + 2 : j \in 1 .. n \/ j = n + 1 \/ j = n + 2
    BY <1>2, <2>2
  <2>5. n + 1 \in 1 .. n + 2 /\ 1 .. n \subseteq 1 .. n + 2 /\ i <= i /\ ~(i > i)
    BY <1>1, <2>2
  <2> HIDE DEF t
  <2>6. Alternates(t, i, pr, has)
    <3> SUFFICES ASSUME NEW j \in 1 .. Len(t)
                 PROVE  /\ j % 2 = 0 => t[j] = Comma
                        /\ j % 2 = 1 => \E k \in has : k <= i /\ t[j] = pr[k]
      BY DEF Alternates
    <3>1. CASE j \in 1 .. n
      BY <1>2, <1>3, <2>3, <3>1
    <3>2. CASE j = n + 1
      BY <1>5, <2>3, <2>4, <2>5, <3>2
    <3>3. CASE j = n + 2
      BY <2>3, <2>4, <3>3
    <3> QED
      BY <2>3, <2>4, <3>1, <3>2, <3>3
  <2>7. Lists(t, i, pr, has)
    <3> SUFFICES ASSUME NEW k \in has, k <= i PROVE \E j \in 1 .. Len(t) : t[j] = pr[k]
      BY DEF Lists
    <3>1. CASE k = i
      BY <2>3, <2>5, <3>1
    <3>2. CASE k <= i - 1
      <4>1. PICK j \in 1 .. n : s[j] = pr[k]
        BY <1>2, <3>2
      <4> QED
        BY <2>3, <2>5, <4>1
    <3> QED
      BY <1>3, <3>1, <3>2
  <2>8. Len(t) # 0 /\ ~(\A k \in has : k > i)
    BY <1>5, <2>3, <2>4, <2>5
  <2>9. Row(t, i, pr, has)
    <3>1. Len(t) % 2 = 0
      BY <2>3, <2>4
    <3>2. Len(t) = 0 <=> \A k \in has : k > i
      BY <2>8
    <3> QED
      BY <2>6, <2>7, <3>1, <3>2 DEF Row
  <2> QED
    BY <1>5, <2>9 DEF t
<1> QED
  BY <1>4, <1>5

\* The pairs of the page, and the keys that have a text.
Pairs(tx) == [i \in 1 .. 5 |-> <<StatusKeys[i], tx[StatusKeys[i]]>>]
Having(tx) == {i \in 1 .. 5 : tx[StatusKeys[i]] # NULL}
Items(tx) == {Pairs(tx)[i] : i \in 1 .. 5} \cup {Comma}

\* All of the page but the entry that is printed last is a row of entries.
LEMMA StatusRow ==
  ASSUME NEW tx
  PROVE  \E g \in Seq(Items(tx)) :
           /\ Row(g, 4, Pairs(tx), Having(tx))
           /\ StatusOf(tx) =
                 <<Begin>> \o (IF 5 \in Having(tx) THEN g \o <<Pairs(tx)[5]>> ELSE g) \o <<End>>
<1> DEFINE pr == Pairs(tx)
           has == Having(tx)
           A == Items(tx)
           ss == [i \in DOMAIN StatusKeys |-> EntryOf(tx, StatusKeys[i])]
<1>1. has \subseteq 1 .. 5 /\ Comma \in A /\ \A k \in 1 .. 5 : pr[k] \in A
  BY DEF Having, Items
<1>2. \A i \in 1 .. 5 : ss[i] = IF i \notin has THEN <<>> ELSE IF i = 5 THEN <<pr[i]>> ELSE <<pr[i], Comma>>
  BY StatusKeysAre DEF EntryOf, Having, Pairs
<1>3. DOMAIN ss = 1 .. 5
  BY StatusKeysAre
<1> HIDE DEF pr, has, A
<1>4. ss \in Seq(Seq(A)) /\ Len(ss) = 5 /\ \A i \in 1 .. 5 : ss[i] \in Seq(A)
  <2>1. \A i \in 1 .. 5 : <<pr[i]>> \in Seq(A) /\ <<pr[i], Comma>> \in Seq(A)
    BY <1>1, ShortSequences
  <2>2. <<>> \in Seq(A)
    OBVIOUS
  <2>3. \A i \in 1 .. 5 : ss[i] \in {<<>>, <<pr[i]>>, <<pr[i], Comma>>}
    BY <1>2
  <2>4. \A i \in 1 .. 5 : ss[i] \in Seq(A)
    BY <2>1, <2>2, <2>3
  <2>5. ss = [i \in 1 .. 5 |-> ss[i]]
    BY StatusKeysAre
  <2> HIDE DEF ss
  <2> QED
    BY <2>4, <2>5
<1> HIDE DEF ss
<1>5. PICK f \in [0 .. 5 -> Seq(A)] :
        f[0] = <<>> /\ (\A i \in 1 .. 5 : f[i] = f[i - 1] \o ss[i]) /\ FlattenSeq(ss) = f[5]
  <2>1. \E f \in [0 .. Len(ss) -> Seq(A)] :
          f[0] = <<>> /\ (\A i \in 1 .. Len(ss) : f[i] = f[i - 1] \o ss[i]) /\ FlattenSeq(ss) = f[Len(ss)]
    BY <1>4, FlattenIs
  <2>2. Len(ss) = 5
    BY <1>4
  <2> QED
    BY <2>1, <2>2
<1>6. \A i \in 0 .. 4 : i \in {j \in 0 .. 4 : Row(f[j], j, pr, has)}
  <2> DEFINE S == {j \in 0 .. 4 : Row(f[j], j, pr, has)}
  <2>1. 0 \in S
    <3>1. Len(<<>>) = 0 /\ 0 % 2 = 0 /\ 1 .. 0 = {} /\ \A k \in has : k > 0 /\ ~(k <= 0)
      BY <1>1
    <3>2. Row(<<>>, 0, pr, has)
      BY <3>1 DEF Row, Alternates, Lists
    <3> QED
      BY <1>5, <3>2
  <2>2. ASSUME NEW i \in 0 .. 4 - 1, i \in S PROVE i + 1 \in S
    <3> DEFINE k == i + 1
    <3>1. k \in 1 .. 5 /\ k \in 1 .. 4 /\ k \in 0 .. 4 /\ k - 1 = i /\ i \in 0 .. 5 /\ k # 5
      OBVIOUS
    <3> HIDE DEF k
    <3>2. RowStart(A, f[i], k, pr, has)
      BY <1>1, <1>5, <2>2, <3>1 DEF RowStart
    <3>3. Row(IF k \in has THEN f[i] \o <<pr[k], Comma>> ELSE f[i], k, pr, has)
      BY <3>2, RowStep
    <3>4. f[k] = IF k \in has THEN f[i] \o <<pr[k], Comma>> ELSE f[i]
      <4>1. f[k] = f[i] \o ss[k] /\ f[i] \in Seq(A)
        BY <1>5, <3>1
      <4>2. f[i] \o <<>> = f[i]
        BY <4>1, ConcatEmptySeq
      <4>3. CASE k \in has
        BY <1>2, <3>1, <4>1, <4>3
      <4>4. CASE k \notin has
        BY <1>2, <3>1, <4>1, <4>2, <4>4
      <4> QED
        BY <4>3, <4>4
    <3>5. Row(f[k], k, pr, has)
      BY <3>3, <3>4
    <3> QED
      BY <3>1, <3>5 DEF k
  <2> HIDE DEF S
  <2>3. \A i \in 0 .. 4 : i \in S
    BY <2>1, <2>2, UpInduction
  <2> QED
    BY <2>3 DEF S
<1>7. Row(f[4], 4, pr, has) /\ f[4] \in Seq(A)
  BY <1>5, <1>6
<1>8. f[5] = IF 5 \in has THEN f[4] \o <<pr[5]>> ELSE f[4]
  <2>1. f[5] = f[4] \o ss[5]
    BY <1>5
  <2>2. f[4] \o <<>> = f[4]
    BY <1>7, ConcatEmptySeq
  <2>3. ss[5] = IF 5 \notin has THEN <<>> ELSE <<pr[5]>>
    BY <1>2
  <2>4. CASE 5 \in has
    BY <2>1, <2>3, <2>4
  <2>5. CASE 5 \notin has
    BY <2>1, <2>2, <2>3, <2>5
  <2> QED
    BY <2>4, <2>5
<1>9. StatusOf(tx) = <<Begin>> \o f[5] \o <<End>>
  BY <1>5 DEF StatusOf, ss
<1> QED
  BY <1>7, <1>8, <1>9 DEF pr, has, A

\* WellFormed, of all that is between the braces.
Inside(s) ==
  /\ Len(s) = 0 \/ Len(s) % 2 = 1
  /\ \A j \in 1 .. Len(s) : s[j] \notin {Begin, End} /\ (s[j] = Comma <=> j % 2 = 0)

\* A page is well-formed if what is between its braces is.
LEMMA WellFormedInside ==
  ASSUME NEW A, NEW s \in Seq(A)
  PROVE  /\ Range(<<Begin>> \o s \o <<End>>) = Range(s) \cup {Begin, End}
         /\ WellFormed(<<Begin>> \o s \o <<End>>) <=> Inside(s)
<1> DEFINE m == Len(s)
           B == A \cup {Begin, End}
           b == <<Begin>>
           e == <<End>>
           p == b \o s
           q == p \o e
           n == Len(q)
<1>1. m \in Nat /\ DOMAIN s = 1 .. m
  BY LenProperties
<1>2. /\ b \in Seq(B) /\ Len(b) = 1 /\ b[1] = Begin
      /\ e \in Seq(B) /\ Len(e) = 1 /\ e[1] = End
  <2>1. Begin \in B /\ End \in B
    OBVIOUS
  <2> HIDE DEF B
  <2> QED
    BY <2>1, ShortSequences
<1>3. s \in Seq(B)
  BY SeqMonotonic
<1> HIDE DEF b, e, B
<1>4. /\ p \in Seq(B) /\ Len(p) = m + 1 /\ p[1] = Begin
      /\ \A j \in 1 .. m : p[j + 1] = s[j]
  <2>1. /\ p \in Seq(B) /\ Len(p) = 1 + m
        /\ \A i \in 1 .. 1 + m : p[i] = IF i <= 1 THEN b[i] ELSE s[i - 1]
    <3>1. /\ p \in Seq(B) /\ Len(p) = Len(b) + Len(s)
          /\ \A i \in 1 .. Len(b) + Len(s) : p[i] = IF i <= Len(b) THEN b[i] ELSE s[i - Len(b)]
      BY <1>2, <1>3, ConcatProperties
    <3> QED
      BY <1>2, <3>1
  <2>2. 1 \in 1 .. 1 + m /\ 1 <= 1 /\ \A j \in 1 .. m : j + 1 \in 1 .. 1 + m /\ ~(j + 1 <= 1) /\ (j + 1) - 1 = j
    BY <1>1
  <2> HIDE DEF p, m
  <2> QED
    BY <1>1, <1>2, <2>1, <2>2
<1> HIDE DEF p
<1>5. /\ q \in Seq(B) /\ n = m + 2 /\ q[1] = Begin /\ q[m + 2] = End
      /\ \A j \in 1 .. m : q[j + 1] = s[j]
  <2> HIDE DEF m
  <2>1. /\ q \in Seq(B) /\ Len(q) = (m + 1) + 1
        /\ \A i \in 1 .. (m + 1) + 1 : q[i] = IF i <= m + 1 THEN p[i] ELSE e[i - (m + 1)]
    <3>1. p \in Seq(B) /\ e \in Seq(B) /\ Len(p) = m + 1 /\ Len(e) = 1
      BY <1>2, <1>4
    <3>2. /\ q \in Seq(B) /\ Len(q) = Len(p) + Len(e)
          /\ \A i \in 1 .. Len(p) + Len(e) : q[i] = IF i <= Len(p) THEN p[i] ELSE e[i - Len(p)]
      BY <3>1, ConcatProperties
    <3> QED
      BY <3>1, <3>2
  <2>2. /\ 1 \in 1 .. (m + 1) + 1 /\ 1 <= m + 1 /\ m + 2 \in 1 .. (m + 1) + 1 /\ ~(m + 2 <= m + 1)
        /\ (m + 2) - (m + 1) = 1 /\ (m + 1) + 1 = m + 2
        /\ \A j \in 1 .. m : j + 1 \in 1 .. (m + 1) + 1 /\ j + 1 <= m + 1
    BY <1>1
  <2> HIDE DEF q, m
  <2> QED
    BY <1>2, <1>4, <2>1, <2>2
<1>6. DOMAIN q = 1 .. m + 2
  BY <1>5, LenProperties
<1>7. q = <<Begin>> \o s \o <<End>>
  BY DEF p, b, e
<1> HIDE DEF q, m
<1>8. \A i \in 1 .. m + 2 : i = 1 \/ i = m + 2 \/ (i - 1 \in 1 .. m /\ (i - 1) + 1 = i)
  BY <1>1
<1>9. 1 \in 1 .. m + 2 /\ m + 2 \in 1 .. m + 2 /\ \A j \in 1 .. m : j + 1 \in 1 .. m + 2
  BY <1>1
<1>10. Range(q) = Range(s) \cup {Begin, End}
  <2>1. Range(q) = {q[i] : i \in 1 .. m + 2} /\ Range(s) = {s[j] : j \in 1 .. m}
    BY <1>1, <1>6 DEF Range
  <2>2. ASSUME NEW x \in Range(q) PROVE x \in Range(s) \cup {Begin, End}
    <3>1. PICK i \in 1 .. m + 2 : x = q[i]
      BY <2>1
    <3>2. CASE i = 1 \/ i = m + 2
      BY <1>5, <3>1, <3>2
    <3>3. CASE i - 1 \in 1 .. m /\ (i - 1) + 1 = i
      <4>1. q[(i - 1) + 1] = s[i - 1]
        BY <1>5, <3>3
      <4> QED
        BY <2>1, <3>1, <3>3, <4>1
    <3> QED
      BY <1>8, <3>2, <3>3
  <2>3. ASSUME NEW x \in Range(s) \cup {Begin, End} PROVE x \in Range(q)
    BY <1>5, <1>9, <2>1
  <2> QED
    BY <2>2, <2>3
<1>11. WellFormed(q) <=> Inside(s)
  <2>1. WellFormed(q) <=> /\ m + 2 = 2 \/ (m + 2) % 2 = 1
                         /\ \A i \in 2 .. m + 1 : q[i] \notin {Begin, End} /\ (q[i] = Comma <=> i % 2 = 1)
    <3>1. Len(q) = m + 2 /\ (m + 2) - 1 = m + 1
      BY <1>1, <1>5
    <3> QED
      BY <1>5, <3>1 DEF WellFormed
  <2>2. (m + 2 = 2 <=> m = 0) /\ ((m + 2) % 2 = 1 <=> m % 2 = 1)
    BY <1>1
  <2>3. /\ \A j \in 1 .. m : j + 1 \in 2 .. m + 1 /\ (j % 2 = 0 <=> (j + 1) % 2 = 1)
        /\ \A i \in 2 .. m + 1 : i - 1 \in 1 .. m /\ (i - 1) + 1 = i
    BY <1>1
  <2>4. (\A i \in 2 .. m + 1 : q[i] \notin {Begin, End} /\ (q[i] = Comma <=> i % 2 = 1))
          <=> \A j \in 1 .. m : s[j] \notin {Begin, End} /\ (s[j] = Comma <=> j % 2 = 0)
    <3>1. ASSUME \A i \in 2 .. m + 1 : q[i] \notin {Begin, End} /\ (q[i] = Comma <=> i % 2 = 1),
                 NEW j \in 1 .. m
          PROVE  s[j] \notin {Begin, End} /\ (s[j] = Comma <=> j % 2 = 0)
      BY <1>5, <2>3, <3>1
    <3>2. ASSUME \A j \in 1 .. m : s[j] \notin {Begin, End} /\ (s[j] = Comma <=> j % 2 = 0),
                 NEW i \in 2 .. m + 1
          PROVE  q[i] \notin {Begin, End} /\ (q[i] = Comma <=> i % 2 = 1)
      <4>1. q[i] = s[i - 1] /\ i - 1 \in 1 .. m /\ ((i - 1) % 2 = 0 <=> i % 2 = 1)
        <5>1. i - 1 \in 1 .. m /\ (i - 1) + 1 = i
          BY <2>3
        <5> QED
          BY <1>5, <2>3, <5>1
      <4> QED
        BY <3>2, <4>1
    <3> QED
      BY <3>1, <3>2
  <2> QED
    BY <2>1, <2>2, <2>4 DEF Inside, m
<1> QED
  BY <1>7, <1>10, <1>11

\* An entry is neither a brace nor a comma.
LEMMA PairsDiffer ==
  /\ Begin # Comma /\ End # Comma
  /\ \A x, y : <<x, y>> \notin {Begin, End, Comma}
<1>1. Len(Begin) = 1 /\ Len(End) = 1 /\ Len(Comma) = 1
  BY DEF Begin, End, Comma
<1>2. \A x, y : Len(<<x, y>>) = 2
  OBVIOUS
<1>3. Begin[1] = "{" /\ End[1] = "}" /\ Comma[1] = ","
  BY DEF Begin, End, Comma
<1>4. Begin # Comma /\ End # Comma
  BY <1>3
<1>5. \A x, y : <<x, y>> \notin {Begin, End, Comma}
  BY <1>1, <1>2
<1> QED
  BY <1>4, <1>5

\* The page is an object if it ends with the key that is printed last, or has no
\* key, and it has the pairs of the keys with a text.
LEMMA RowInside ==
  ASSUME NEW A, NEW g \in Seq(A), NEW pr, NEW has \in SUBSET (1 .. 5), Row(g, 4, pr, has),
         pr[5] \in A, \A k \in 1 .. 5 : pr[k] \notin {Begin, End, Comma}
  PROVE  LET s == IF 5 \in has THEN g \o <<pr[5]>> ELSE g
         IN /\ s \in Seq(A)
            /\ Inside(s) <=> 5 \in has \/ has = {}
            /\ Range(s) \subseteq {Comma} \cup {pr[k] : k \in has}
            /\ {pr[k] : k \in has} \subseteq Range(s)
<1> DEFINE m == Len(g)
           s == IF 5 \in has THEN g \o <<pr[5]>> ELSE g
           good(x) == x = Comma \/ \E k \in has : x = pr[k]
<1>1. m \in Nat /\ m % 2 = 0 /\ m % 2 # 1 /\ DOMAIN g = 1 .. m
  BY LenProperties DEF Row
<1>2. \A j \in 1 .. m : j % 2 = 0 \/ j % 2 = 1
  BY <1>1
<1>3. \A j \in 1 .. m : good(g[j]) /\ g[j] \notin {Begin, End} /\ (g[j] = Comma <=> j % 2 = 0)
  <2> TAKE j \in 1 .. m
  <2>1. CASE j % 2 = 0
    <3>1. g[j] = Comma
      BY <2>1 DEF Row, Alternates
    <3> QED
      BY <2>1, <3>1, PairsDiffer
  <2>2. CASE j % 2 = 1
    <3>1. PICK k \in has : g[j] = pr[k]
      BY <2>2 DEF Row, Alternates
    <3>2. pr[k] \notin {Begin, End, Comma}
      BY <3>1
    <3>3. j % 2 # 0
      BY <2>2
    <3> QED
      BY <3>1, <3>2, <3>3
  <2> QED
    BY <1>2, <2>1, <2>2
<1>4. \A k \in has : k <= 4 => \E j \in 1 .. m : g[j] = pr[k]
  BY DEF Row, Lists
<1>5. m = 0 <=> \A k \in has : k > 4
  BY DEF Row
<1>6. \A k \in has : k \in 1 .. 5 /\ (k <= 4 \/ k = 5) /\ (k > 4 <=> k = 5)
  OBVIOUS
<1>7. CASE 5 \in has
  <2> DEFINE e == <<pr[5]>>
             t == g \o e
  <2>1. e \in Seq(A) /\ Len(e) = 1 /\ e[1] = pr[5]
    BY ShortSequences
  <2> HIDE DEF e
  <2>2. /\ t \in Seq(A) /\ Len(t) = m + 1
        /\ \A j \in 1 .. m + 1 : t[j] = IF j <= m THEN g[j] ELSE e[j - m]
    <3>1. /\ t \in Seq(A) /\ Len(t) = Len(g) + Len(e)
          /\ \A j \in 1 .. Len(g) + Len(e) : t[j] = IF j <= Len(g) THEN g[j] ELSE e[j - Len(g)]
      BY <2>1, ConcatProperties
    <3> HIDE DEF t
    <3> QED
      BY <2>1, <3>1
  <2>3. /\ \A j \in 1 .. m + 1 : j \in 1 .. m \/ j = m + 1
        /\ \A j \in 1 .. m : j <= m /\ j \in 1 .. m + 1
        /\ m + 1 \in 1 .. m + 1 /\ ~(m + 1 <= m) /\ (m + 1) - m = 1
        /\ (m + 1) % 2 = 1 /\ (m + 1) % 2 # 0
    BY <1>1
  <2> HIDE DEF m
  <2>4. (\A j \in 1 .. m : t[j] = g[j]) /\ t[m + 1] = pr[5]
    BY <2>1, <2>2, <2>3
  <2> HIDE DEF t
  <2>5. DOMAIN t = 1 .. m + 1
    BY <2>2, LenProperties
  <2>6. pr[5] \notin {Begin, End, Comma}
    OBVIOUS
  <2>7. \A j \in 1 .. m + 1 : good(t[j]) /\ t[j] \notin {Begin, End} /\ (t[j] = Comma <=> j % 2 = 0)
    BY <1>3, <1>7, <2>3, <2>4, <2>6
  <2>8. Inside(t)
    BY <2>2, <2>3, <2>7 DEF Inside
  <2>9. Range(t) \subseteq {Comma} \cup {pr[k] : k \in has}
    BY <2>5, <2>7 DEF Range
  <2>10. \A k \in has : \E j \in 1 .. m + 1 : t[j] = pr[k]
    BY <1>4, <1>6, <2>3, <2>4
  <2>11. {pr[k] : k \in has} \subseteq Range(t)
    BY <2>5, <2>10 DEF Range
  <2> QED
    BY <1>7, <2>2, <2>8, <2>9, <2>11 DEF t, e
<1>8. CASE 5 \notin has
  <2>1. m = 0 <=> has = {}
    BY <1>5, <1>6, <1>8
  <2>2. Inside(g) <=> has = {}
    BY <1>1, <1>3, <2>1 DEF Inside
  <2>3. Range(g) \subseteq {Comma} \cup {pr[k] : k \in has}
    BY <1>1, <1>3 DEF Range
  <2>4. \A k \in has : \E j \in 1 .. m : g[j] = pr[k]
    BY <1>4, <1>6, <1>8
  <2>5. {pr[k] : k \in has} \subseteq Range(g)
    BY <1>1, <2>4 DEF Range
  <2> QED
    BY <1>8, <2>2, <2>3, <2>5
<1> QED
  BY <1>7, <1>8

\* The status page has the pairs of the texts, and is an object as StatusTells says.
LEMMA StatusIs ==
  ASSUME NEW tx
  PROVE  /\ WellFormed(StatusOf(tx)) <=>
              tx.denyNOVisitorIDURL # NULL \/ \A k \in Range(StatusKeys) : tx[k] = NULL
         /\ \A k \in Range(StatusKeys) : <<k, "true">> \in Range(StatusOf(tx)) <=> tx[k] = "true"
<1> DEFINE pr == Pairs(tx)
           has == Having(tx)
           A == Items(tx)
           page == StatusOf(tx)
<1>1. \A k \in 1 .. 5 : pr[k] = <<StatusKeys[k], tx[StatusKeys[k]]>> /\ pr[k] \in A
  BY DEF Pairs, Items
<1>2. has \in SUBSET (1 .. 5) /\ \A k \in 1 .. 5 : k \in has <=> tx[StatusKeys[k]] # NULL
  BY DEF Having
<1>3. \A k \in 1 .. 5 : pr[k] \notin {Begin, End, Comma}
  BY <1>1, PairsDiffer
<1> HIDE DEF pr, has, A
<1>4. PICK g \in Seq(A) :
        /\ Row(g, 4, pr, has)
        /\ page = <<Begin>> \o (IF 5 \in has THEN g \o <<pr[5]>> ELSE g) \o <<End>>
  BY StatusRow DEF pr, has, A
<1> HIDE DEF page
<1> DEFINE s == IF 5 \in has THEN g \o <<pr[5]>> ELSE g
<1>5. /\ s \in Seq(A)
      /\ Inside(s) <=> 5 \in has \/ has = {}
      /\ Range(s) \subseteq {Comma} \cup {pr[k] : k \in has}
      /\ {pr[k] : k \in has} \subseteq Range(s)
  <2>1. pr[5] \in A
    BY <1>1
  <2> QED
    BY <1>2, <1>3, <1>4, <2>1, RowInside
<1>6. page = <<Begin>> \o s \o <<End>>
  BY <1>4
<1> HIDE DEF s
<1>7. Range(page) = Range(s) \cup {Begin, End} /\ (WellFormed(page) <=> Inside(s))
  BY <1>5, <1>6, WellFormedInside
<1>8. WellFormed(page) <=> tx.denyNOVisitorIDURL # NULL \/ \A k \in Range(StatusKeys) : tx[k] = NULL
  <2>1. 5 \in has <=> tx.denyNOVisitorIDURL # NULL
    <3>1. StatusKeys[5] = "denyNOVisitorIDURL" /\ 5 \in 1 .. 5
      BY StatusKeysAre
    <3> QED
      BY <1>2, <3>1
  <2>2. has = {} <=> \A k \in Range(StatusKeys) : tx[k] = NULL
    BY <1>2, StatusKeysAre
  <2> QED
    BY <1>5, <1>7, <2>1, <2>2
<1>9. ASSUME NEW k \in Range(StatusKeys) PROVE <<k, "true">> \in Range(page) <=> tx[k] = "true"
  <2>1. PICK i \in 1 .. 5 : k = StatusKeys[i]
    BY StatusKeysAre
  <2>2. ASSUME <<k, "true">> \in Range(page) PROVE tx[k] = "true"
    <3>1. <<k, "true">> \notin {Begin, End, Comma}
      BY PairsDiffer
    <3>2. PICK j \in has : <<k, "true">> = pr[j]
      BY <1>5, <1>7, <2>2, <3>1
    <3>3. j \in 1 .. 5 /\ <<k, "true">> = <<StatusKeys[j], tx[StatusKeys[j]]>>
      BY <1>1, <1>2, <3>2
    <3> QED
      BY <3>3
  <2>3. ASSUME tx[k] = "true" PROVE <<k, "true">> \in Range(page)
    <3>1. tx[k] # NULL
      BY <2>3, NullIsNone DEF Texts
    <3>2. i \in has /\ pr[i] = <<k, "true">>
      BY <1>1, <1>2, <2>1, <2>3, <3>1
    <3> QED
      BY <1>5, <1>7, <3>2
  <2> QED
    BY <2>2, <2>3
<1> QED
  BY <1>8, <1>9 DEF page

-----------------------------------------------------------------------------
(* What a page tells is true.                                              *)

\* A text that could be replaced agrees with its switch.
Agreeing ==
  /\ DOMAIN text = Range(StatusKeys) /\ DOMAIN switch = Switches
  /\ \A k \in Switches \ stale : text[k] = "true" <=> switch[k]
TellInv == Templates /\ Agreeing /\ PagesTell

\* No page tells nothing wrong.
LEMMA NoPageTells == response = Nothing => PagesTell
  BY DEF Nothing, PagesTell, StatusTells, RateTells, DenyTells

\* So it is after a step.
LEMMA NoPageTellsNext == response' = Nothing => PagesTell'
<1> SUFFICES ASSUME response' = Nothing PROVE PagesTell'
  OBVIOUS
<1>1. response'.kind \notin {"status", "rate", "deny"}
  BY DEF Nothing
<1>2. StatusTells'
  BY <1>1 DEF StatusTells
<1>3. RateTells'
  BY <1>1 DEF RateTells
<1>4. DenyTells'
  BY <1>1 DEF DenyTells
<1> QED
  BY <1>2, <1>3, <1>4 DEF PagesTell

\* What was true stays true while nothing it speaks of changes.
LEMMA SameTells ==
  UNCHANGED <<response, request, pieces, text, switch, stale>> /\ PagesTell => PagesTell'
<1> SUFFICES ASSUME UNCHANGED <<response, request, pieces, text, switch, stale>>, PagesTell
             PROVE  PagesTell'
  OBVIOUS
<1>1. StatusTells'
  <2>1. StatusTells
    BY DEF PagesTell
  <2> QED
    BY <2>1 DEF StatusTells, WellFormed
<1>2. \A a : IsClient(a)' <=> IsClient(a)
  BY DEF IsClient
<1>3. RateTells'
  <2>1. RateTells
    BY DEF PagesTell
  <2> QED
    BY <1>2, <2>1 DEF RateTells, Filled
<1>4. DenyTells'
  <2>1. DenyTells
    BY DEF PagesTell
  <2> QED
    BY <2>1 DEF DenyTells, IsClient
<1> QED
  BY <1>1, <1>3, <1>4 DEF PagesTell

\* At first.
LEMMA TellInit == Init => TellInv
<1> SUFFICES ASSUME Init PROVE TellInv
  OBVIOUS
<1>1. PICK failed \in SUBSET {"deny", "rate", "acceptHttpMethod"} :
        /\ template \in [deny : {NULL, Spelling(DefaultDeny)}, rate : {NULL, Spelling(DefaultRate)}]
        /\ text = [k \in Range(StatusKeys) |->
                     IF k = "acceptHttpMethod" /\ k \notin failed THEN "methods" ELSE NULL]
  BY DEF Init
<1>2. Templates
  <2>1. pieces = DefaultRate /\ IsTemplate(pieces)
    BY DefaultsAreTemplates DEF Init
  <2> QED
    BY <1>1, <2>1 DEF Templates, Kinds
<1>3. Agreeing
  <2>1. switch = [k \in Switches |-> FALSE]
    BY DEF Init
  <2>2. \A k \in Switches : k \in Range(StatusKeys) /\ k # "acceptHttpMethod"
    BY StatusKeysAre DEF Switches
  <2>3. NULL # "true"
    BY NullIsNone DEF Texts
  <2>4. \A k \in Switches : text[k] = NULL
    BY <1>1, <2>2
  <2> QED
    BY <1>1, <2>1, <2>3, <2>4 DEF Agreeing
<1>4. PagesTell
  BY NoPageTells DEF Init
<1> QED
  BY <1>2, <1>3, <1>4 DEF TellInv

\* The page of the commands.
LEMMA StatusTold ==
  ASSUME Agreeing', response' = [kind |-> "status", body |-> dumpStatus']
  PROVE  PagesTell'
<1>1. dumpStatus' = StatusOf(text')
  BY DEF dumpStatus, StatusOf, EntryOf
<1>2. response'.kind = "status" /\ response'.body = StatusOf(text')
  BY <1>1
<1>3. WellFormed(response.body)' <=>
        text'.denyNOVisitorIDURL # NULL \/ \A k \in Range(StatusKeys) : text'[k] = NULL
  BY <1>2, StatusIs DEF WellFormed
<1>4. \A k \in Switches \ stale' : <<k, "true">> \in Range(response'.body) <=> switch'[k]
  <2>1. \A k \in Switches : k \in Range(StatusKeys)
    BY StatusKeysAre DEF Switches
  <2>2. \A k \in Switches \ stale' : <<k, "true">> \in Range(response'.body) <=> text'[k] = "true"
    BY <1>2, <2>1, StatusIs
  <2> QED
    BY <2>2 DEF Agreeing
<1>5. StatusTells'
  BY <1>3, <1>4 DEF StatusTells
<1> QED
  BY <1>2, <1>5 DEF PagesTell, RateTells, DenyTells

\* A page made from a template tells the truth.
LEMMA DenialTold ==
  ASSUME Templates, UNCHANGED pieces, NEW kind \in Kinds, template[kind] # NULL, Asked(request'),
         response' = [kind |-> kind, body |-> Substitute(template[kind], kind, request')]
  PROVE  PagesTell'
<1>1. ClientOf(request', request'.client) /\ request'.client \in Addresses
  BY AskedClient
<1>2. /\ \A a : IsClient(a)' <=> ClientOf(request', a)
      /\ IsClient(request.client)' <=> ClientOf(request', request'.client)
  BY DEF IsClient, ClientOf
<1>3. response'.kind = kind /\ response'.body = Substitute(template[kind], kind, request')
  OBVIOUS
<1>4. CASE kind = "rate"
  <2>1. template[kind] = Spelling(pieces) /\ IsTemplate(pieces)
    BY <1>4 DEF Templates
  <2>2. response'.body = FlattenSeq([i \in DOMAIN pieces |-> Filled(pieces[i], request'.client)])
    BY <1>3, <1>4, <2>1, RateFilled
  <2>3. RateTells'
    <3>1. PICK a \in Addresses : a = request'.client
      BY <1>1
    <3>2. IsClient(a)'
      BY <1>1, <1>2, <3>1
    <3>3. (response.body = FlattenSeq([i \in DOMAIN pieces |-> Filled(pieces[i], a)]))'
      BY <2>2, <3>1 DEF Filled
    <3> QED
      BY <3>2, <3>3 DEF RateTells
  <2> QED
    BY <1>3, <1>4, <2>3 DEF PagesTell, StatusTells, DenyTells
<1>5. CASE kind = "deny"
  <2>1. template[kind] = Spelling(DefaultDeny)
    BY <1>5 DEF Templates
  <2> DEFINE page == response'.body
  <2>2. /\ DOMAIN page = 1 .. 7 /\ page[3] = request'.status /\ page[5] = request'.client
        /\ \A k \in 1 .. 7 : k \notin {3, 5} => page[k] = "t"
    BY <1>3, <1>5, <2>1, DenyFilled
  <2>3. 3 \in DOMAIN page /\ 5 \in DOMAIN page /\ 3 < 5
    BY <2>2
  <2>4. \A k \in DOMAIN page \ {3, 5} : page[k] = "t"
    BY <2>2
  <2>5. DenyTells'
    BY <1>1, <1>2, <2>2, <2>3, <2>4 DEF DenyTells
  <2> QED
    BY <1>3, <1>5, <2>5 DEF PagesTell, StatusTells, RateTells
<1> QED
  BY <1>4, <1>5 DEF Kinds

\* A page without a body tells nothing.
LEMMA NoBodyTells ==
  ASSUME NEW kind, response' = [kind |-> kind, body |-> NULL]
  PROVE  PagesTell'
<1>1. response'.body = NULL
  OBVIOUS
<1>2. StatusTells'
  BY <1>1 DEF StatusTells
<1>3. RateTells'
  BY <1>1 DEF RateTells
<1>4. DenyTells'
  BY <1>1 DEF DenyTells
<1> QED
  BY <1>2, <1>3, <1>4 DEF PagesTell

\* A switch and its text are set together, or the switch becomes stale.
LEMMA SwitchesAgree ==
  ASSUME Agreeing, NEW k \in Switches, NEW v \in {"true", "false"},
         switch' = [switch EXCEPT ![k] = (v = "true")],
         \/ text' = [text EXCEPT ![k] = v] /\ stale' = stale \ {k}
         \/ UNCHANGED text /\ stale' = stale \cup {k}
  PROVE  Agreeing'
<1>1. k \in Range(StatusKeys)
  BY StatusKeysAre DEF Switches
<1>2. switch'[k] = (v = "true") /\ (\A l \in Switches \ {k} : switch'[l] = switch[l]) /\ DOMAIN switch' = Switches
  BY DEF Agreeing
<1>3. CASE text' = [text EXCEPT ![k] = v] /\ stale' = stale \ {k}
  <2>1. text'[k] = v /\ (\A l \in Switches \ {k} : text'[l] = text[l]) /\ DOMAIN text' = Range(StatusKeys)
    BY <1>1, <1>3, StatusKeysAre DEF Agreeing, Switches
  <2>2. \A l \in Switches \ stale' : text'[l] = "true" <=> switch'[l]
    <3> TAKE l \in Switches \ stale'
    <3>1. CASE l = k
      BY <1>2, <2>1, <3>1
    <3>2. CASE l # k
      BY <1>2, <1>3, <2>1, <3>2 DEF Agreeing
    <3> QED
      BY <3>1, <3>2
  <2> QED
    BY <1>2, <2>1, <2>2 DEF Agreeing
<1>4. CASE UNCHANGED text /\ stale' = stale \cup {k}
  BY <1>2, <1>4 DEF Agreeing
<1> QED
  BY <1>3, <1>4

\* Every action leaves the page true.
LEMMA TellStep == TellInv /\ [Next]_vars => TellInv'
<1> SUFFICES ASSUME TellInv, [Next]_vars PROVE Agreeing' /\ PagesTell'
  BY TemplatesStep DEF TellInv
<1> USE DEF TellInv
<1>1. CASE UpdateSwitch
  <2>1. response' = Nothing /\ UNCHANGED <<template, pieces>>
    BY <1>1 DEF UpdateSwitch, Update
  <2>2. PICK k \in Switches, v \in {"true", "false"} :
          /\ switch' = [switch EXCEPT ![k] = (v = "true")]
          /\ \/ text' = [text EXCEPT ![k] = v] /\ stale' = stale \ {k}
             \/ UNCHANGED text /\ stale' = stale \cup {k}
    BY <1>1 DEF UpdateSwitch
  <2>3. Agreeing'
    BY <2>2, SwitchesAgree
  <2> QED
    BY <2>1, <2>3, NoPageTellsNext
<1>2. CASE UpdateList
  <2>1. response' = Nothing /\ UNCHANGED <<template, pieces, switch, stale>>
    BY <1>2 DEF UpdateList, Update
  <2>2. Agreeing'
    <3>1. PICK k \in Range(StatusKeys) \ Switches : text' = [text EXCEPT ![k] = "list"]
      BY <1>2 DEF UpdateList
    <3>2. \A l \in Switches : text'[l] = text[l]
      BY <3>1, StatusKeysAre DEF Agreeing, Switches
    <3> QED
      BY <2>1, <3>1, <3>2 DEF Agreeing
  <2> QED
    BY <2>1, <2>2, NoPageTellsNext DEF Agreeing
<1>3. CASE UpdateURL
  <2>1. response' = Nothing /\ UNCHANGED <<template, pieces, text, switch, stale>>
    BY <1>3 DEF UpdateURL, Update
  <2> QED
    BY <2>1, NoPageTellsNext DEF Agreeing
<1>4. CASE UpdateMessage
  <2>1. response' = Nothing /\ UNCHANGED <<text, switch, stale>>
    BY <1>4 DEF UpdateMessage, Update
  <2> QED
    BY <2>1, NoPageTellsNext DEF Agreeing
<1>5. CASE Internal
  <2>1. UNCHANGED <<template, pieces>>
    BY <1>5 DEF Internal
  <2>2. PICK matched \in SUBSET Range(Commands) :
          LET c == Tried(matched)
          IN /\ IF c \in {"enable", "disable"} THEN SetEnable(c = "enable")
                                               ELSE UNCHANGED <<switch, text, stale>>
             /\ IF c = NULL THEN Die /\ UNCHANGED short ELSE responseStatus(dumpStatus', StatusLength')
    BY <1>5 DEF Internal
  <2>3. UNCHANGED <<switch, text, stale>> => Agreeing'
    BY DEF Agreeing
  <2>4. ASSUME \E on \in BOOLEAN : SetEnable(on) PROVE Agreeing'
    <3>1. PICK on \in BOOLEAN : SetEnable(on)
      BY <2>4
    <3> DEFINE v == IF on THEN "true" ELSE "false"
    <3>2. "enable" \in Switches /\ v \in {"true", "false"} /\ on = (v = "true")
      BY DEF Switches
    <3> HIDE DEF v
    <3>3. /\ switch' = [switch EXCEPT !["enable"] = (v = "true")]
          /\ \/ text' = [text EXCEPT !["enable"] = v] /\ stale' = stale \ {"enable"}
             \/ UNCHANGED text /\ stale' = stale \cup {"enable"}
      BY <3>1, <3>2 DEF SetEnable, v
    <3> QED
      BY <3>2, <3>3, SwitchesAgree
  <2>5. Agreeing'
    <3>1. UNCHANGED <<switch, text, stale>> \/ \E on \in BOOLEAN : SetEnable(on)
      BY <2>2
    <3> QED
      BY <2>3, <2>4, <3>1
  <2>6. PagesTell'
    <3>1. Die \/ responseStatus(dumpStatus', StatusLength')
      BY <2>2
    <3>2. CASE response' = Nothing
      BY <3>2, NoPageTellsNext
    <3>3. CASE response' = [kind |-> "status", body |-> dumpStatus']
      BY <2>5, <3>3, StatusTold
    <3>4. CASE response' = [kind |-> "status", body |-> NULL]
      BY <3>4, NoBodyTells
    <3> QED
      BY <3>1, <3>2, <3>3, <3>4 DEF Die, responseStatus, Sent, Unsent
  <2> QED
    BY <2>5, <2>6
<1>6. CASE Filter
  <2>1. UNCHANGED <<template, pieces, text, switch, stale>>
    BY <1>6 DEF Filter
  <2>2. PICK kind \in Kinds : responseDeny(kind, request')
    BY <1>6, FilterAsks
  <2>3. PagesTell'
    <3>1. CASE template[kind] # NULL /\ Sent(kind, Substitute(template[kind], kind, request'))
      <4>1. Asked(request')
        BY <1>6, FilterAsks
      <4>2. response' = [kind |-> kind, body |-> Substitute(template[kind], kind, request')]
        BY <3>1 DEF Sent
      <4> QED
        BY <2>1, <3>1, <4>1, <4>2, DenialTold
    <3>2. CASE Die
      BY <3>2, NoPageTellsNext DEF Die
    <3>3. CASE Unsent(kind)
      BY <3>3, NoBodyTells DEF Unsent
    <3> QED
      BY <2>2, <3>1, <3>2, <3>3 DEF responseDeny
  <2> QED
    BY <2>1, <2>3 DEF Agreeing
<1>7. CASE Finish
  BY <1>7, NoPageTellsNext DEF Finish, Agreeing
<1>8. CASE UNCHANGED vars
  BY <1>8, SameTells DEF vars, Agreeing
<1> QED
  BY <1>1, <1>2, <1>3, <1>4, <1>5, <1>6, <1>7, <1>8 DEF Next

\* Whatever page is sent tells the truth, for any addresses, templates and numbers
\* of them (dumpStatus, getResponseDenyMessage, getResponseDenyRateMessage,
\* get_client_ip).
THEOREM TellsTheTruth == Spec => []PagesTell
<1>1. TellInv => PagesTell
  BY DEF TellInv
<1> QED
  BY <1>1, TellInit, TellStep, PTL DEF Spec
=============================================================================
