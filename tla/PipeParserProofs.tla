---------------------------- MODULE PipeParserProofs ----------------------------
(***************************************************************************)
(* What ngx_pipe_handler cuts out of the bytes it read, for byte streams   *)
(* of any length: whatever the stream, an update is what stands between a  *)
(* key and the next end mark; of whole messages it is every one of them,   *)
(* in order.                                                               *)
(*                                                                         *)
(* Length and Parsing are recursive functions.  That they are the fixed    *)
(* points of their equations, and what follows from these for every index, *)
(* is shown with a least or a greatest index that does not conform.        *)
(***************************************************************************)
EXTENDS PipeParser, SequenceTheorems, FiniteSetTheorems, TLAPS

-----------------------------------------------------------------------------
(* Least and greatest elements.                                            *)

LEMMA LeastExists ==
  ASSUME NEW S, S \subseteq Nat, S # {}
  PROVE  \E x \in S : \A y \in S : x <= y
<1> DEFINE U == {0 .. n : n \in S}
           R == StrictSubsetOrdering(Nat)
<1>1. U \subseteq FiniteSubsetsOf(Nat) /\ U # {}
  <2>1. \A n \in Nat : 0 .. n \subseteq Nat /\ IsFiniteSet(0 .. n)
    BY FS_Interval
  <2> QED
    BY <2>1 DEF FiniteSubsetsOf
<1>2. IsWellFoundedOn(R, FiniteSubsetsOf(Nat))
  BY FS_StrictSubsetOrderingWellFounded
<1>3. PICK X \in U : \A Y \in U : <<Y, X>> \notin R
  BY <1>1, <1>2, WFMin, Zenon
<1>4. PICK x \in S : X = 0 .. x
  OBVIOUS
<1>5. ASSUME NEW y \in S, y < x PROVE FALSE
  <2>1. 0 .. y \in U
    OBVIOUS
  <2>2. 0 .. y \subseteq 0 .. x /\ 0 .. y # 0 .. x
    BY <1>5
  <2>3. <<0 .. y, 0 .. x>> \in R
    BY <2>2 DEF StrictSubsetOrdering
  <2> QED
    BY <1>3, <1>4, <2>1, <2>3
<1>6. \A y \in S : x <= y
  BY <1>5
<1> QED
  BY <1>6

LEMMA GreatestExists ==
  ASSUME NEW n \in Nat, NEW S, S \subseteq 0 .. n, S # {}
  PROVE  \E x \in S : \A y \in S : y <= x
<1> DEFINE T == {m \in 0 .. n : n - m \in S}
<1>1. T \subseteq Nat /\ T # {}
  <2>1. PICK x : x \in S
    OBVIOUS
  <2>2. n - x \in T
    BY <2>1
  <2> QED
    BY <2>2
<1>2. PICK m \in T : \A k \in T : m <= k
  BY <1>1, LeastExists
<1>3. ASSUME NEW y \in S PROVE y <= n - m
  <2>1. n - y \in T
    OBVIOUS
  <2>2. m <= n - y
    BY <1>2, <2>1
  <2> QED
    BY <2>2
<1> QED
  BY <1>2, <1>3

-----------------------------------------------------------------------------
(* Lengths.                                                                *)

\* The function that Length evaluates, from its values p at smaller indices.
Sums(s, p) == [i \in 0 .. Len(s) |-> IF i = 0 THEN 0 ELSE p[i - 1] + Bytes(s[i])]

LEMMA SumsExist ==
  ASSUME NEW T, NEW s \in Seq(T)
  PROVE  \E p : p = Sums(s, p)
<1> DEFINE Sound(m, p) ==
      p = [i \in 0 .. m |-> IF i = 0 THEN 0 ELSE p[i - 1] + Bytes(s[i])]
<1> DEFINE Bad == {m \in 0 .. Len(s) : ~ \E p : Sound(m, p)}
<1>1. Len(s) \in Nat
  OBVIOUS
<1>2. ASSUME Bad # {} PROVE FALSE
  <2>1. PICK m \in Bad : \A n \in Bad : m <= n
    <3>1. Bad \subseteq Nat
      BY <1>1
    <3> QED
      BY <1>2, <3>1, LeastExists
  <2>2. CASE m = 0
    <3>1. Sound(0, [i \in 0 .. 0 |-> 0])
      OBVIOUS
    <3> QED
      BY <2>1, <2>2, <3>1
  <2>3. CASE m # 0
    <3>1. m - 1 \in 0 .. Len(s) /\ m - 1 \notin Bad
      <4>1. m \in 0 .. Len(s) /\ m - 1 \in 0 .. Len(s) /\ ~(m <= m - 1)
        BY <1>1, <2>3
      <4> HIDE DEF Bad
      <4> QED
        BY <2>1, <4>1
    <3>2. PICK q : Sound(m - 1, q)
      BY <3>1
    <3> DEFINE p == [i \in 0 .. m |-> IF i = 0 THEN 0 ELSE q[i - 1] + Bytes(s[i])]
    <3>3. \A i \in 0 .. m - 1 : q[i] = IF i = 0 THEN 0 ELSE q[i - 1] + Bytes(s[i])
      BY <3>2
    <3>4. \A i \in 0 .. m : p[i] = IF i = 0 THEN 0 ELSE q[i - 1] + Bytes(s[i])
      OBVIOUS
    <3>5. \A i \in 0 .. m - 1 : p[i] = q[i]
      BY <3>3, <3>4
    <3>6. \A i \in 0 .. m : i # 0 => i - 1 \in 0 .. m - 1
      BY <2>1, <1>1
    <3>7. \A i \in 0 .. m : i # 0 => p[i - 1] = q[i - 1]
      BY <3>5, <3>6
    <3> HIDE DEF p
    <3>8. p = [i \in 0 .. m |-> IF i = 0 THEN 0 ELSE p[i - 1] + Bytes(s[i])]
      <4>1. p = [i \in 0 .. m |-> IF i = 0 THEN 0 ELSE q[i - 1] + Bytes(s[i])]
        BY DEF p
      <4> QED
        BY <3>7, <4>1
    <3> QED
      BY <2>1, <3>8
  <2> QED
    BY <2>2, <2>3
<1>3. Len(s) \notin Bad
  BY <1>2
<1>4. PICK p : Sound(Len(s), p)
  BY <1>1, <1>3
<1> QED
  BY <1>4 DEF Sums

\* A length is the sum of the lengths of the tokens: it is a number, and that
\* of a single token is its own.
LEMMA LengthProperties ==
  ASSUME NEW T, \A t \in T : Bytes(t) \in Nat, NEW s \in Seq(T)
  PROVE  Length(s) \in Nat /\ (Len(s) = 1 => Length(s) = Bytes(s[1]))
<1> DEFINE p == CHOOSE p : p = Sums(s, p)
<1>1. p = Sums(s, p)
  BY SumsExist
<1>2. Length(s) = p[Len(s)]
  BY DEF Length, Sums
<1> HIDE DEF p
<1>3. \A i \in 0 .. Len(s) : p[i] = IF i = 0 THEN 0 ELSE p[i - 1] + Bytes(s[i])
  BY <1>1 DEF Sums
<1> DEFINE Bad == {m \in 0 .. Len(s) : p[m] \notin Nat}
<1>4. Len(s) \in Nat
  OBVIOUS
<1>5. ASSUME Bad # {} PROVE FALSE
  <2>1. PICK m \in Bad : \A n \in Bad : m <= n
    <3>1. Bad \subseteq Nat
      BY <1>4
    <3> QED
      BY <1>5, <3>1, LeastExists
  <2>2. m # 0
    BY <1>3, <1>4, <2>1
  <2>3. m - 1 \in 0 .. Len(s) /\ m - 1 \notin Bad /\ m \in 1 .. Len(s)
    BY <2>1, <2>2
  <2>4. p[m - 1] \in Nat /\ Bytes(s[m]) \in Nat
    BY <2>3
  <2> QED
    BY <1>3, <2>1, <2>2, <2>4
<1>6. Length(s) \in Nat
  BY <1>2, <1>4, <1>5
<1>7. ASSUME Len(s) = 1 PROVE Length(s) = Bytes(s[1])
  <2>1. p[0] = 0 /\ p[1] = p[0] + Bytes(s[1])
    BY <1>3, <1>7
  <2>2. Bytes(s[1]) \in Nat
    BY <1>7
  <2> QED
    BY <1>2, <1>7, <2>1, <2>2
<1> QED
  BY <1>6, <1>7

-----------------------------------------------------------------------------
(* Find.                                                                   *)

\* Find returns the first mark from i on, or 0 when there is none.
LEMMA FindProperties ==
  ASSUME NEW T, NEW s \in Seq(T), NEW i \in Nat \ {0}, NEW marks
  PROVE  \/ Find(s, i, marks) = 0 /\ \A n \in i .. Len(s) : s[n] \notin marks
         \/ /\ Find(s, i, marks) \in i .. Len(s)
            /\ s[Find(s, i, marks)] \in marks
            /\ \A n \in i .. Find(s, i, marks) - 1 : s[n] \notin marks
<1> DEFINE found == {j \in i .. Len(s) : s[j] \in marks}
           j == CHOOSE j \in found : \A n \in found : j <= n
<1>1. Len(s) \in Nat
  OBVIOUS
<1>2. CASE found = {}
  <2>1. Find(s, i, marks) = 0
    BY <1>2 DEF Find
  <2> QED
    BY <1>2, <2>1
<1>3. CASE found # {}
  <2>1. found \subseteq Nat
    BY <1>1
  <2>2. \E m \in found : \A n \in found : m <= n
    BY <1>3, <2>1, LeastExists
  <2>3. Find(s, i, marks) = j
    BY <1>3 DEF Find
  <2>4. j \in found /\ \A n \in found : j <= n
    BY <2>2
  <2> HIDE DEF j
  <2>5. ASSUME NEW n \in i .. j - 1 PROVE s[n] \notin marks
    BY <1>1, <2>4
  <2> QED
    BY <2>3, <2>4, <2>5
<1> QED
  BY <1>2, <1>3

\* When it is known where the first mark is.
LEMMA FindIs ==
  ASSUME NEW T, NEW s \in Seq(T), NEW i \in Nat \ {0}, NEW marks,
         NEW j \in i .. Len(s), s[j] \in marks, \A n \in i .. j - 1 : s[n] \notin marks
  PROVE  Find(s, i, marks) = j
<1> DEFINE f == Find(s, i, marks)
<1>1. \/ f = 0 /\ \A n \in i .. Len(s) : s[n] \notin marks
      \/ f \in i .. Len(s) /\ s[f] \in marks /\ \A n \in i .. f - 1 : s[n] \notin marks
  BY FindProperties
<1> HIDE DEF f
<1>2. f \in i .. Len(s) /\ s[f] \in marks /\ \A n \in i .. f - 1 : s[n] \notin marks
  BY <1>1
<1>3. ~(f < j) /\ ~(j < f)
  BY <1>2
<1> QED
  BY <1>2, <1>3 DEF f

-----------------------------------------------------------------------------
(* The parse loop.                                                         *)

\* Is the mark at j the one inside an end mark?
InEnd(s, j) == IF s[j] = End THEN 1 ELSE 0

\* Does a key begin at i, after no junk, with its separator at j?
IsKey(s, i, j, junk) == InEnd(s, j) = 0 /\ junk = 0 /\ j = i + 1 /\ s[i][1] = "key"

\* The bytes before the mark at j.
Before(s, i, j, junk) ==
  junk + Length(SubSeq(s, i, j - 1)) + InEnd(s, j)

\* What the loop does at token i, with the updates p of what follows.
Turn(s, i, j, junk, p) ==
  LET e == Find(s, j + 1, {End})
  IN  IF j = 0 THEN <<>>
      ELSE IF Before(s, i, j, junk) < RouteLen
        THEN p[j + 1][(Before(s, i, j, junk) % 2) + InEnd(s, j)]
      ELSE IF e = 0 THEN <<>>
      ELSE (IF IsKey(s, i, j, junk) THEN <<<<s[i][2], SubSeq(s, j + 1, e - 1)>>>> ELSE <<>>)
             \o p[e + 1][0]

Row(s, i, p) == [junk \in 0 .. 2 |-> Turn(s, i, Find(s, i, {Sep, End}), junk, p)]

LEMMA ParsingIs ==
  ASSUME NEW s
  PROVE  Parsing(s) = CHOOSE p : p = [i \in 1 .. Len(s) + 1 |-> Row(s, i, p)]
BY DEF Parsing, Row, Turn, Before, IsKey, InEnd

\* What the loop does at i depends only on what it does further on.
LEMMA RowIsLocal ==
  ASSUME NEW T, NEW s \in Seq(T), NEW i \in 1 .. Len(s) + 1, NEW p, NEW q,
         \A m \in i + 1 .. Len(s) + 1 : p[m] = q[m]
  PROVE  Row(s, i, p) = Row(s, i, q)
<1> DEFINE j == Find(s, i, {Sep, End})
           e == Find(s, j + 1, {End})
<1>1. i \in Nat \ {0} /\ Len(s) \in Nat
  OBVIOUS
<1>2. j = 0 \/ j \in i .. Len(s)
  BY <1>1, FindProperties
<1>3. ASSUME j # 0 PROVE e = 0 \/ e \in j + 1 .. Len(s)
  <2>1. j + 1 \in Nat \ {0}
    BY <1>1, <1>2, <1>3
  <2> HIDE DEF j
  <2> QED
    BY <2>1, FindProperties
<1> HIDE DEF j, e
<1>4. ASSUME NEW junk PROVE Turn(s, i, j, junk, p) = Turn(s, i, j, junk, q)
  <2>1. CASE j = 0
    BY <2>1 DEF Turn
  <2>2. CASE j # 0
    <3>1. p[j + 1] = q[j + 1]
      BY <1>1, <1>2, <2>2
    <3>2. e # 0 => p[e + 1] = q[e + 1]
      BY <1>1, <1>2, <1>3, <2>2
    <3> QED
      BY <2>2, <3>1, <3>2 DEF Turn, e
  <2> QED
    BY <2>1, <2>2
<1> QED
  BY <1>4 DEF Row, j

LEMMA ParsingExists ==
  ASSUME NEW T, NEW s \in Seq(T)
  PROVE  \E p : p = [i \in 1 .. Len(s) + 1 |-> Row(s, i, p)]
<1> DEFINE N == Len(s) + 1
           Sound(m, p) == p = [i \in m .. N |-> Row(s, i, p)]
           Bad == {m \in 1 .. N : ~ \E p : Sound(m, p)}
<1>1. N \in Nat \ {0}
  OBVIOUS
<1>2. ASSUME Bad # {} PROVE FALSE
  <2>1. PICK m \in Bad : \A n \in Bad : n <= m
    <3>1. Bad \subseteq 0 .. N
      BY <1>1
    <3> QED
      BY <1>1, <1>2, <3>1, GreatestExists
  <2>2. m \in 1 .. N
    OBVIOUS
  <2>3. \E q : \A i \in m + 1 .. N : q[i] = Row(s, i, q)
    <3>1. CASE m = N
      BY <1>1, <3>1
    <3>2. CASE m # N
      <4>1. m + 1 \in 1 .. N /\ ~(m + 1 <= m)
        BY <1>1, <2>2, <3>2
      <4>2. m + 1 \notin Bad
        <5> HIDE DEF Bad
        <5> QED
          BY <2>1, <4>1
      <4>3. PICK q : Sound(m + 1, q)
        BY <4>1, <4>2
      <4>4. \A i \in m + 1 .. N : q[i] = Row(s, i, q)
        BY <4>3
      <4> QED
        BY <4>4
    <3> QED
      BY <3>1, <3>2
  <2>4. PICK q : \A i \in m + 1 .. N : q[i] = Row(s, i, q)
    BY <2>3
  <2> DEFINE p == [i \in m .. N |-> IF i = m THEN Row(s, m, q) ELSE q[i]]
  <2>5. \A i \in m + 1 .. N : i \in m .. N /\ i # m
    BY <1>1, <2>2
  <2>6. \A i \in m + 1 .. N : p[i] = q[i]
    BY <2>5
  <2>7. \A i \in m .. N : Row(s, i, p) = Row(s, i, q)
    <3> HIDE DEF p
    <3> TAKE i \in m .. N
    <3>1. i \in 1 .. Len(s) + 1 /\ \A n \in i + 1 .. N : n \in m + 1 .. N
      BY <1>1, <2>2
    <3>2. \A n \in i + 1 .. Len(s) + 1 : p[n] = q[n]
      BY <2>6, <3>1
    <3> QED
      BY <3>1, <3>2, RowIsLocal
  <2>8. \A i \in m .. N : p[i] = Row(s, i, q)
    <3> TAKE i \in m .. N
    <3>1. i = m \/ i \in m + 1 .. N
      BY <1>1, <2>2
    <3> QED
      BY <2>4, <3>1
  <2>9. Sound(m, p)
    <3>1. p = [i \in m .. N |-> p[i]]
      OBVIOUS
    <3> HIDE DEF p
    <3> QED
      BY <2>7, <2>8, <3>1
  <2> QED
    BY <2>1, <2>9
<1>3. PICK p : Sound(1, p)
  BY <1>1, <1>2
<1> QED
  BY <1>3

\* The loop, unfolded once.
LEMMA ParsingUnfolds ==
  ASSUME NEW T, NEW s \in Seq(T), NEW i \in 1 .. Len(s) + 1, NEW junk \in 0 .. 2
  PROVE  Parsing(s)[i][junk] = Turn(s, i, Find(s, i, {Sep, End}), junk, Parsing(s))
<1>1. Parsing(s) = [m \in 1 .. Len(s) + 1 |-> Row(s, m, Parsing(s))]
  BY ParsingIs, ParsingExists
<1>2. Parsing(s)[i] = Row(s, i, Parsing(s))
  BY <1>1
<1> QED
  BY <1>2 DEF Row

-----------------------------------------------------------------------------
(* What is found.                                                          *)

\* A key at i, its separator, and the next end mark at e.
KeyToEnd(s, i, e) ==
  /\ i \in 1 .. Len(s) /\ e \in i + 2 .. Len(s)
  /\ s[i][1] = "key" /\ s[i + 1] = Sep
  /\ s[e] = End /\ \A n \in i + 2 .. e - 1 : s[n] # End

\* The updates that may be cut out of s.
Found(s) ==
  {<<s[x[1]][2], SubSeq(s, x[1] + 2, x[2] - 1)>> :
     x \in {x \in (1 .. Len(s)) \X (1 .. Len(s)) : KeyToEnd(s, x[1], x[2])}}

LEMMA FoundIs ==
  ASSUME NEW s, NEW u \in Found(s)
  PROVE  \E i, e : KeyToEnd(s, i, e) /\ u = <<s[i][2], SubSeq(s, i + 2, e - 1)>>
BY DEF Found

\* Every byte of junk leaves the loop at a point and a rest of junk it knows.
LEMMA BeforeType ==
  ASSUME NEW T, \A t \in T : Bytes(t) \in Nat, NEW s \in Seq(T),
         NEW i \in 1 .. Len(s), NEW j \in i .. Len(s), NEW junk \in 0 .. 2
  PROVE  /\ Before(s, i, j, junk) \in Nat
         /\ (Before(s, i, j, junk) % 2) + InEnd(s, j) \in 0 .. 2
<1>1. SubSeq(s, i, j - 1) \in Seq(T)
  <2>1. \A n \in i .. j - 1 : s[n] \in T
    OBVIOUS
  <2> QED
    BY <2>1, SubSeqProperties
<1>2. Length(SubSeq(s, i, j - 1)) \in Nat
  BY <1>1, LengthProperties
<1>3. InEnd(s, j) \in 0 .. 1
  BY DEF InEnd
<1>4. Before(s, i, j, junk) \in Nat
  BY <1>2, <1>3 DEF Before
<1>5. \A b \in Nat, c \in 0 .. 1 : (b % 2) + c \in 0 .. 2
  OBVIOUS
<1> QED
  BY <1>3, <1>4, <1>5

\* Whatever the bytes, each update is a key and what stands between its
\* separator and the next end mark.
THEOREM UpdatesAreFound ==
  ASSUME NEW T, \A t \in T : Bytes(t) \in Nat, NEW s \in Seq(T)
  PROVE  Updates(s) \in Seq(Found(s))
<1> DEFINE N == Len(s) + 1
           P == Parsing(s)
           F == Seq(Found(s))
           Bad == {i \in 1 .. N : \E junk \in 0 .. 2 : P[i][junk] \notin F}
<1>1. N \in Nat \ {0} /\ <<>> \in F
  OBVIOUS
<1>2. ASSUME Bad # {} PROVE FALSE
  <2>1. PICK i \in Bad : \A n \in Bad : n <= i
    <3>1. Bad \subseteq 0 .. N
      BY <1>1
    <3> QED
      BY <1>1, <1>2, <3>1, GreatestExists
  <2>2. PICK junk \in 0 .. 2 : P[i][junk] \notin F
    OBVIOUS
  <2>3. i \in 1 .. N
    OBVIOUS
  <2> DEFINE j == Find(s, i, {Sep, End})
             e == Find(s, j + 1, {End})
  <2>4. P[i][junk] = Turn(s, i, j, junk, P)
    BY <2>3, ParsingUnfolds
  <2>5. j = 0 \/ /\ j \in i .. Len(s) /\ s[j] \in {Sep, End}
    BY <2>3, FindProperties
  <2>6. j # 0
    <3> HIDE DEF P, F
    <3> QED
      BY <1>1, <2>2, <2>4 DEF Turn
  <2> HIDE DEF j
  <2>7. i \in 1 .. Len(s) /\ j \in i .. Len(s) /\ j + 1 \in Nat \ {0}
    BY <2>3, <2>5, <2>6
  <2>8. \A n \in i + 1 .. N : \A x \in 0 .. 2 : P[n][x] \in F
    <3>1. \A n \in i + 1 .. N : n \in 1 .. N /\ ~(n <= i)
      BY <2>3
    <3>2. \A n \in i + 1 .. N : n \notin Bad
      <4> HIDE DEF Bad, P, F
      <4> QED
        BY <2>1, <3>1
    <3> QED
      BY <3>1, <3>2
  <2>9. ~(Before(s, i, j, junk) < RouteLen)
    <3>1. (Before(s, i, j, junk) % 2) + InEnd(s, j) \in 0 .. 2
      BY <2>7, BeforeType
    <3>2. j + 1 \in i + 1 .. N
      BY <2>7
    <3>3. P[j + 1][(Before(s, i, j, junk) % 2) + InEnd(s, j)] \in F
      BY <2>8, <3>1, <3>2
    <3> HIDE DEF P, F
    <3> QED
      BY <2>2, <2>4, <2>6, <3>3 DEF Turn
  <2>10. e # 0
    <3> HIDE DEF P, F
    <3> QED
      BY <1>1, <2>2, <2>4, <2>6, <2>9 DEF Turn
  <2>11. e \in j + 1 .. Len(s) /\ s[e] = End /\ \A n \in j + 1 .. e - 1 : s[n] # End
    <3>1. \/ e = 0 /\ \A n \in j + 1 .. Len(s) : s[n] \notin {End}
          \/ /\ e \in j + 1 .. Len(s) /\ s[e] \in {End}
             /\ \A n \in j + 1 .. e - 1 : s[n] \notin {End}
      BY <2>7, FindProperties
    <3> HIDE DEF e
    <3> QED
      BY <2>10, <3>1
  <2>12. P[e + 1][0] \in F
    <3>1. e + 1 \in i + 1 .. N
      BY <2>7, <2>11
    <3> QED
      BY <2>8, <3>1
  <2> DEFINE u == <<s[i][2], SubSeq(s, j + 1, e - 1)>>
  <2>13. IsKey(s, i, j, junk) => u \in Found(s)
    <3> SUFFICES ASSUME IsKey(s, i, j, junk) PROVE u \in Found(s)
      OBVIOUS
    <3>1. j = i + 1 /\ s[i][1] = "key" /\ s[j] # End
      BY DEF IsKey, InEnd
    <3>2. s[j] = Sep
      BY <2>5, <2>6, <3>1
    <3> HIDE DEF e, P, F, Bad
    <3>3. j + 1 = i + 2
      BY <2>7, <3>1
    <3>4. KeyToEnd(s, i, e)
      BY <2>7, <2>11, <3>1, <3>2, <3>3 DEF KeyToEnd
    <3> DEFINE x == <<i, e>>
    <3>5. x \in (1 .. Len(s)) \X (1 .. Len(s)) /\ x[1] = i /\ x[2] = e
      BY <2>7, <2>11
    <3>6. u = <<s[x[1]][2], SubSeq(s, x[1] + 2, x[2] - 1)>>
      BY <3>3
    <3> HIDE DEF u, x
    <3>7. x \in {y \in (1 .. Len(s)) \X (1 .. Len(s)) : KeyToEnd(s, y[1], y[2])}
      BY <3>4, <3>5
    <3> QED
      BY <3>6, <3>7, Zenon DEF Found
  <2>14. P[i][junk] = (IF IsKey(s, i, j, junk) THEN <<u>> ELSE <<>>) \o P[e + 1][0]
    <3> HIDE DEF P
    <3> QED
      BY <2>4, <2>6, <2>9, <2>10 DEF Turn
  <2> HIDE DEF u, e, P
  <2>15. (IF IsKey(s, i, j, junk) THEN <<u>> ELSE <<>>) \in F
    BY <2>13
  <2> QED
    BY <2>2, <2>12, <2>14, <2>15
<1>3. P[1][0] \in F
  <2>1. 1 \in 1 .. N
    BY <1>1
  <2>2. 1 \notin Bad
    BY <1>2
  <2> HIDE DEF P, F
  <2> QED
    BY <2>1, <2>2
<1> QED
  BY <1>3 DEF Updates

-----------------------------------------------------------------------------
(* Whole messages.                                                         *)

LEMMA SingleElement ==
  ASSUME NEW T, NEW s \in Seq(T), NEW i \in 1 .. Len(s)
  PROVE  SubSeq(s, i, i) = <<s[i]>>
<1>1. \A n \in i .. i : s[n] \in T
  OBVIOUS
<1>2. SubSeq(s, i, i) \in Seq(T) /\ Len(SubSeq(s, i, i)) = 1
  <2>1. Len(SubSeq(s, i, i)) = (IF i <= i THEN i - i + 1 ELSE 0)
    BY <1>1, SubSeqProperties
  <2> QED
    BY <1>1, <2>1, SubSeqProperties
<1>3. SubSeq(s, i, i)[1] = s[i]
  <2>1. 1 \in 1 .. i - i + 1 /\ i + 1 - 1 = i
    OBVIOUS
  <2>2. SubSeq(s, i, i)[1] = s[i + 1 - 1]
    BY <1>1, <2>1, SubSeqProperties
  <2> QED
    BY <2>1, <2>2
<1>4. <<s[i]>> \in Seq(T) /\ Len(<<s[i]>>) = 1
  OBVIOUS
<1> DEFINE a == SubSeq(s, i, i)
<1>5. \A n \in 1 .. 1 : a[n] = <<s[i]>>[n]
  BY <1>3
<1> HIDE DEF a
<1> QED
  BY <1>2, <1>4, <1>5, SeqEqual DEF a

LEMMA QuarterProperties ==
  ASSUME NEW T, NEW s \in Seq(T), Whole(s), NEW m \in 0 .. (Len(s) \div 4) - 1
  PROVE  /\ 4 * m + 1 \in 1 .. Len(s) /\ 4 * m + 4 \in 1 .. Len(s)
         /\ s[4 * m + 1][1] = "key"
         /\ s[4 * m + 2] = Sep
         /\ s[4 * m + 3][1] = "value" /\ s[4 * m + 3][2] = s[4 * m + 1][2]
         /\ s[4 * m + 4] = End
<1>1. \A n \in Nat : n % 4 = 0 => \A i \in 0 .. (n \div 4) - 1 :
        /\ 4 * i + 1 \in 1 .. n /\ 4 * i + 2 \in 1 .. n
        /\ 4 * i + 3 \in 1 .. n /\ 4 * i + 4 \in 1 .. n
  OBVIOUS
<1>2. \A i \in Nat : /\ (4 * i + 1) % 4 = 1 /\ (4 * i + 2) % 4 = 2
                     /\ (4 * i + 3) % 4 = 3 /\ (4 * i + 4) % 4 = 0
  OBVIOUS
<1>3. Len(s) \in Nat /\ Len(s) % 4 = 0 /\ m \in Nat /\ DOMAIN s = 1 .. Len(s)
  BY DEF Whole
<1>4. /\ 4 * m + 1 \in DOMAIN s /\ 4 * m + 2 \in DOMAIN s
      /\ 4 * m + 3 \in DOMAIN s /\ 4 * m + 4 \in DOMAIN s
  BY <1>1, <1>3
<1>5. (4 * m + 3) - 2 = 4 * m + 1
  BY <1>3
<1>6. \A i \in DOMAIN s : /\ i % 4 = 1 => s[i][1] = "key"
                          /\ i % 4 = 2 => s[i] = Sep
                          /\ i % 4 = 3 => s[i][1] = "value" /\ s[i][2] = s[i - 2][2]
                          /\ i % 4 = 0 => s[i] = End
  <2> TAKE i \in DOMAIN s
  <2>1. CASE i % 4 = 1
    <3>1. i % 4 # 2 /\ i % 4 # 3 /\ i % 4 # 0
      BY <2>1
    <3> QED
      BY <2>1, <3>1, Zenon DEF Whole
  <2>2. CASE i % 4 = 2
    <3>1. i % 4 # 1 /\ i % 4 # 3 /\ i % 4 # 0
      BY <2>2
    <3> QED
      BY <2>2, <3>1, Zenon DEF Whole
  <2>3. CASE i % 4 = 3
    <3>1. i % 4 # 1 /\ i % 4 # 2 /\ i % 4 # 0
      BY <2>3
    <3> QED
      BY <2>3, <3>1, Zenon DEF Whole
  <2>4. CASE i % 4 = 0
    <3>1. i % 4 # 1 /\ i % 4 # 2 /\ i % 4 # 3
      BY <2>4
    <3> QED
      BY <2>4, <3>1, Zenon DEF Whole
  <2> QED
    BY <2>1, <2>2, <2>3, <2>4
<1> QED
  BY <1>2, <1>3, <1>4, <1>5, <1>6

\* One message: the loop cuts its update out and goes on behind it.
LEMMA MessageIsCut ==
  ASSUME NEW T, \A t \in T : Bytes(t) \in Nat, NEW s \in Seq(T), Whole(s),
         NEW m \in 0 .. (Len(s) \div 4) - 1
  PROVE  Parsing(s)[4 * m + 1][0] =
           <<<<s[4 * m + 1][2], <<s[4 * m + 3]>>>>>> \o Parsing(s)[4 * m + 5][0]
<1> DEFINE i == 4 * m + 1
           P == Parsing(s)
<1>1. /\ i \in 1 .. Len(s) /\ i + 3 \in 1 .. Len(s)
      /\ s[i][1] = "key" /\ s[i + 1] = Sep
      /\ s[i + 2][1] = "value" /\ s[i + 2][2] = s[i][2] /\ s[i + 3] = End
  <2>1. m \in Int
    OBVIOUS
  <2>2. i + 1 = 4 * m + 2 /\ i + 2 = 4 * m + 3 /\ i + 3 = 4 * m + 4
    BY <2>1
  <2> QED
    BY <2>2, QuarterProperties
<1>2. 4 * m + 5 = i + 4 /\ 4 * m + 3 = i + 2
  <2>1. m \in Int
    OBVIOUS
  <2> QED
    BY <2>1
<1> HIDE DEF i
<1>3. Len(s) \in Nat /\ i \in Nat \ {0} /\ i + 2 \in Nat \ {0} /\ (i + 1) + 1 = i + 2
  BY <1>1
<1>4. Find(s, i, {Sep, End}) = i + 1
  <2>1. s[i] \notin {Sep, End}
    BY <1>1 DEF Sep, End
  <2>2. i + 1 \in i .. Len(s) /\ s[i + 1] \in {Sep, End}
    <3>1. i + 1 \in i .. Len(s)
      BY <1>1, <1>3
    <3> QED
      BY <1>1, <3>1
  <2>3. \A n \in i .. (i + 1) - 1 : s[n] \notin {Sep, End}
    BY <1>3, <2>1
  <2> QED
    BY <1>3, <2>2, <2>3, FindIs
<1>5. Find(s, (i + 1) + 1, {End}) = i + 3
  <2>1. s[i + 2] \notin {End}
    BY <1>1 DEF End
  <2>2. i + 3 \in i + 2 .. Len(s) /\ s[i + 3] \in {End}
    BY <1>1, <1>3
  <2>3. \A n \in i + 2 .. (i + 3) - 1 : s[n] \notin {End}
    BY <1>3, <2>1
  <2>4. Find(s, i + 2, {End}) = i + 3
    BY <1>3, <2>2, <2>3, FindIs
  <2> QED
    BY <1>3, <2>4
<1>6. InEnd(s, i + 1) = 0
  BY <1>1 DEF InEnd, Sep, End
<1>7. Before(s, i, i + 1, 0) = KeyLen
  <2>1. SubSeq(s, i, (i + 1) - 1) = <<s[i]>>
    <3>1. (i + 1) - 1 = i
      BY <1>3
    <3> QED
      BY <1>1, <3>1, SingleElement
  <2>2. Bytes(s[i]) = KeyLen
    BY <1>1 DEF Bytes
  <2>3. <<s[i]>> \in Seq(T) /\ Len(<<s[i]>>) = 1 /\ <<s[i]>>[1] = s[i]
    BY <1>1
  <2>4. Length(<<s[i]>>) = KeyLen
    BY <2>2, <2>3, LengthProperties
  <2>5. Before(s, i, i + 1, 0) = 0 + KeyLen + 0
    BY <1>6, <2>1, <2>4 DEF Before
  <2> QED
    BY <2>5 DEF KeyLen
<1>8. SubSeq(s, (i + 1) + 1, (i + 3) - 1) = <<s[i + 2]>>
  <2>1. SubSeq(s, i + 2, i + 2) = <<s[i + 2]>>
    <3>1. i + 2 \in 1 .. Len(s)
      BY <1>1, <1>3
    <3> QED
      BY <3>1, SingleElement
  <2>2. (i + 3) - 1 = i + 2
    BY <1>3
  <2> QED
    BY <1>3, <2>1, <2>2
<1>9. IsKey(s, i, i + 1, 0)
  BY <1>1, <1>6 DEF IsKey
<1>10. P[i][0] = Turn(s, i, i + 1, 0, P)
  <2>1. i \in 1 .. Len(s) + 1 /\ 0 \in 0 .. 2
    BY <1>1
  <2> QED
    BY <1>4, <2>1, ParsingUnfolds
<1> HIDE DEF P
<1>11. P[i][0] = <<<<s[i][2], <<s[i + 2]>>>>>> \o P[i + 4][0]
  <2>1. i + 1 # 0 /\ ~(KeyLen < RouteLen) /\ i + 3 # 0 /\ (i + 3) + 1 = i + 4
    BY <1>3 DEF KeyLen, RouteLen
  <2> QED
    BY <1>5, <1>7, <1>8, <1>9, <1>10, <2>1 DEF Turn
<1> QED
  BY <1>2, <1>11 DEF P, i

\* Of whole messages, the parser hands on every one, in order.
THEOREM WholeUpdates ==
  ASSUME NEW T, \A t \in T : Bytes(t) \in Nat, NEW s \in Seq(T), Whole(s)
  PROVE  Updates(s) = [n \in 1 .. Len(s) \div 4 |-> <<s[4 * n - 3][2], <<s[4 * n - 1]>>>>]
<1> DEFINE Q == Len(s) \div 4
           P == Parsing(s)
           u(n) == <<s[4 * n - 3][2], <<s[4 * n - 1]>>>>
           U(m) == [n \in 1 .. Q - m |-> u(m + n)]
           Bad == {m \in 0 .. Q : P[4 * m + 1][0] # U(m)}
<1>1. Q \in Nat /\ Len(s) = 4 * Q
  <2>1. \A n \in Nat : n % 4 = 0 => (n \div 4) \in Nat /\ n = 4 * (n \div 4)
    OBVIOUS
  <2> QED
    BY <2>1 DEF Whole
<1>2. ASSUME NEW m \in 0 .. Q - 1, P[4 * (m + 1) + 1][0] = U(m + 1)
      PROVE  P[4 * m + 1][0] = U(m)
  <2>1. 4 * (m + 1) + 1 = 4 * m + 5 /\ 4 * (m + 1) - 3 = 4 * m + 1 /\ 4 * (m + 1) - 1 = 4 * m + 3
    BY <1>1
  <2>2. P[4 * m + 1][0] = <<u(m + 1)>> \o U(m + 1)
    <3>1. P[4 * m + 1][0] =
             <<<<s[4 * m + 1][2], <<s[4 * m + 3]>>>>>> \o P[4 * m + 5][0]
      BY MessageIsCut
    <3> HIDE DEF P, Q
    <3>2. U(m + 1) = P[4 * m + 5][0]
      BY <1>2, <2>1
    <3>3. u(m + 1) = <<s[4 * m + 1][2], <<s[4 * m + 3]>>>>
      BY <2>1
    <3> HIDE DEF U, u
    <3> QED
      BY <3>1, <3>2, <3>3
  <2>3. Q - (m + 1) \in Nat /\ Q - m \in Nat /\ 1 + (Q - (m + 1)) = Q - m
    BY <1>1
  <2> HIDE DEF Q, u
  <2> DEFINE A == {u(x) : x \in Int}
  <2>4. U(m + 1) \in Seq(A) /\ Len(U(m + 1)) = Q - (m + 1)
    <3>1. \A n \in 1 .. Q - (m + 1) : u((m + 1) + n) \in A
      BY <1>1
    <3> HIDE DEF A
    <3> QED
      BY <2>3, <3>1
  <2>5. U(m) \in Seq(A) /\ Len(U(m)) = Q - m
    <3>1. \A n \in 1 .. Q - m : u(m + n) \in A
      BY <1>1
    <3> HIDE DEF A
    <3> QED
      BY <2>3, <3>1
  <2>6. <<u(m + 1)>> \in Seq(A)
    OBVIOUS
  <2> DEFINE C == <<u(m + 1)>> \o U(m + 1)
  <2>7. C \in Seq(A) /\ Len(C) = Q - m
    <3> HIDE DEF A
    <3> QED
      BY <2>3, <2>4, <2>6, ConcatProperties
  <2>8. \A n \in 1 .. Q - m : C[n] = U(m)[n]
    <3> TAKE n \in 1 .. Q - m
    <3>1. C[n] = IF n <= 1 THEN <<u(m + 1)>>[n] ELSE U(m + 1)[n - 1]
      <4> HIDE DEF A
      <4> QED
        BY <2>3, <2>4, <2>6, <2>7, ConcatProperties
    <3>2. U(m)[n] = u(m + n)
      OBVIOUS
    <3>3. CASE n = 1
      BY <3>1, <3>2, <3>3
    <3>4. CASE n # 1
      <4>1. n - 1 \in 1 .. Q - (m + 1) /\ (m + 1) + (n - 1) = m + n /\ ~(n <= 1)
        BY <1>1, <3>4
      <4>2. U(m + 1)[n - 1] = u((m + 1) + (n - 1))
        BY <4>1
      <4> QED
        BY <3>1, <3>2, <4>1, <4>2
    <3> QED
      BY <3>3, <3>4
  <2>9. C = U(m)
    <3> HIDE DEF A, C, U
    <3> QED
      BY <2>5, <2>7, <2>8, SeqEqual
  <2> QED
    BY <2>2, <2>9
<1>3. P[4 * Q + 1][0] = U(Q)
  <2>1. U(Q) = <<>>
    <3>1. 1 .. Q - Q = {}
      BY <1>1
    <3> HIDE DEF Q
    <3> QED
      BY <3>1
  <2>2. Len(s) + 1 \in Nat \ {0} /\ Len(s) + 1 \in 1 .. Len(s) + 1
    OBVIOUS
  <2>3. Find(s, Len(s) + 1, {Sep, End}) = 0
    BY <2>2, FindProperties
  <2>4. P[Len(s) + 1][0] = Turn(s, Len(s) + 1, 0, 0, P)
    <3>1. P[Len(s) + 1][0] = Turn(s, Len(s) + 1, Find(s, Len(s) + 1, {Sep, End}), 0, P)
      <4>1. 0 \in 0 .. 2
        OBVIOUS
      <4> QED
        BY <2>2, <4>1, ParsingUnfolds, Zenon
    <3> QED
      BY <2>3, <3>1
  <2>5. Turn(s, Len(s) + 1, 0, 0, P) = <<>>
    BY DEF Turn
  <2> QED
    BY <1>1, <2>1, <2>4, <2>5
<1> HIDE DEF P, U
<1>4. ASSUME Bad # {} PROVE FALSE
  <2>1. PICK m \in Bad : \A n \in Bad : n <= m
    <3>1. Bad \subseteq 0 .. Q
      OBVIOUS
    <3> HIDE DEF Bad
    <3> QED
      BY <1>1, <1>4, <3>1, GreatestExists
  <2>2. m # Q
    BY <1>3
  <2>3. m \in 0 .. Q - 1 /\ m + 1 \in 0 .. Q /\ ~(m + 1 <= m)
    BY <1>1, <2>2
  <2>4. m + 1 \notin Bad
    <3> HIDE DEF Bad
    <3> QED
      BY <2>1, <2>3
  <2> QED
    BY <1>2, <2>3, <2>4
<1>5. P[4 * 0 + 1][0] = U(0)
  BY <1>1, <1>4
<1>6. U(0) = [n \in 1 .. Q |-> u(n)]
  BY <1>1 DEF U
<1>7. P[1][0] = U(0)
  <2>1. 4 * 0 + 1 = 1
    OBVIOUS
  <2> QED
    BY <1>5, <2>1
<1> QED
  BY <1>6, <1>7 DEF Updates, P
=============================================================================
