------------------------ MODULE ConfigDistributionProofs ------------------------
(***************************************************************************)
(* That the sender misses no change, that a worker takes only values that  *)
(* ZooKeeper held and never an older one after a newer one, and that a     *)
(* registration repairs a worker: for any keys, workers, pipes, buffers    *)
(* and bounds.                                                             *)
(*                                                                         *)
(* The invariant speaks of the stream of a worker: what is in its buffer,  *)
(* in its pipe, and still to be written to it.  A write and a read move a  *)
(* token within the stream and leave it as it is.  A read of a key appends *)
(* a message to the stream of every worker, a parse takes the front off.   *)
(***************************************************************************)
EXTENDS ConfigDistribution, PipeParserProofs

-----------------------------------------------------------------------------
(* The inductive invariants.                                               *)

\* The tokens that may have been written so far.
Known == {t \in Tokens : t[1] = "value" => t[3] <= zk[t[2]]}

N == Len(Slots)

\* What is left of the message with version v of k when n writes are left.
Rest(k, v, n) == [j \in 1 .. n |-> WritesFor(Slots, k, v)[4 * N - n + j]]

\* A thread is some way through one message.
InMessage(o) ==
  o = <<>> \/ \E k \in Keys, n \in 1 .. 4 * N : \E v \in 0 .. zk[k] : o = Rest(k, v, n)

\* What a worker may have for a key.
Held == {<<>>, Garbage, Commanded} \cup {t \in Known : t[1] = "value"}

ZkType ==
  /\ changes \in 0 .. MaxChanges
  /\ zk \in [Keys -> 0 .. changes] /\ seen \in [Keys -> 0 .. changes]
  /\ watch \subseteq Keys /\ stale \subseteq Keys
  /\ events \in Seq(Keys)
  /\ session \in Sessions

SenderType ==
  /\ todo \in [Threads -> Seq(Keys)]
  /\ out \in [Threads -> Seq(Workers \X Known)]
  /\ \A t \in Threads : InMessage(out[t])
  /\ serving \in Clients \cup {None} /\ pings \subseteq Clients

WorkerType ==
  /\ pipe \in [Workers -> Seq(Known)] /\ buf \in [Workers -> Seq(Known)]
  /\ \A w \in Workers : Len(pipe[w]) <= PipeCap /\ Len(buf[w]) <= BufCap
  /\ worker \in [Workers -> {"down", "starting", "running"}]
  /\ conf \in [Workers -> [Keys -> Held]]

HistoryType ==
  /\ failures \in 0 .. MaxFailures
  /\ mixed \subseteq Workers /\ clean \subseteq Workers

TypeInv == ZkType /\ SenderType /\ WorkerType /\ HistoryType

\* At most one thread is in a message.
OneMessage(f) == \A t, u \in Threads : f[t] # <<>> /\ f[u] # <<>> => t = u

\* So it is while the pipe of some worker is not mixed, and while one is clean.
OneWriter == mixed # Workers \/ clean # {} => OneMessage(out)

\* An event or a read of the key is on its way.
Pending(k) ==
  \/ \E i \in DOMAIN events : events[i] = k
  \/ \E t \in Threads : \E i \in DOMAIN todo[t] : todo[t][i] = k

Noticed ==
  \A k \in Keys : \/ k \in stale
                  \/ Pending(k)
                  \/ session # "ok"
                  \/ k \in watch /\ seen[k] = zk[k]

\* The writes of the thread that is in a message.
Flight(f) ==
  IF \E t \in Threads : f[t] # <<>> THEN f[CHOOSE t \in Threads : f[t] # <<>>] ELSE <<>>

SlotOf(w) == CHOOSE i \in 1 .. N : Slots[i] = w

\* The tokens of o that are for w: those for the four writes of its slot
\* that are left.
For(w, o) ==
  LET last == 4 * SlotOf(w) - (4 * N - Len(o))
      before == IF last > 4 THEN last - 4 ELSE 0
  IN  IF last <= 0 THEN <<>> ELSE [j \in 1 .. last - before |-> o[before + j][2]]

\* All that is on its way to the configuration of w.
Stream(w) == buf[w] \o pipe[w] \o For(w, Flight(out))

\* A part of a sequence of messages: only the first may lack its beginning,
\* only the last its end.
Follows(t, u) ==
  /\ t[1] # "part"
  /\ t[1] = "key" => u = Sep
  /\ t = Sep => u[1] = "value"
  /\ t[1] = "value" => u = End
  /\ t = End => u[1] = "key"

Aligned(s) ==
  /\ \A i \in 1 .. Len(s) - 1 : Follows(s[i], s[i + 1])
  /\ \A i \in 1 .. Len(s) - 2 : s[i][1] = "key" => s[i + 2][2] = s[i][2]
  /\ Len(s) # 0 => s[Len(s)] = End

\* The versions of a key do not decrease.
Ordered(s) ==
  \A i, j \in 1 .. Len(s) :
    i < j /\ s[i][1] = "value" /\ s[j][1] = "value" /\ s[i][2] = s[j][2] => s[i][3] <= s[j][3]

\* c, the configuration of a worker, holds no version of a key after those in s.
Behind(c, s) ==
  \A k \in Keys, i \in 1 .. Len(s) :
    \A x, y \in Versions : c[k] = ValueToken(k, x) /\ s[i] = ValueToken(k, y) => x <= y

Sound(w) == w \notin mixed \/ w \in clean

Delivery ==
  \A w \in Workers : Sound(w) =>
    Aligned(Stream(w)) /\ Ordered(Stream(w)) /\ Behind(conf[w], Stream(w))

\* w has the current value of k or will have it after the next parse.
Current(w, k) ==
  \/ conf[w][k] = ValueToken(k, zk[k])
  \/ \E i \in 1 .. Len(Stream(w)) : Stream(w)[i] = ValueToken(k, zk[k])

Healing ==
  clean # {} => \A k \in Keys :
    Pending(k) \/ (k \in watch /\ session = "ok" /\ \A w \in clean : Current(w, k))

\* No event is left over from a session that is gone when a worker is clean.
Quiet == session # "ok" /\ clean # {} => events = <<>>

Inv == TypeInv /\ OneWriter /\ Noticed /\ Delivery /\ Genuine /\ Quiet /\ Healing

-----------------------------------------------------------------------------
(* Tokens.                                                                 *)

LEMMA KnownIsTokens ==
  /\ Known \subseteq Tokens
  /\ \A t \in Known : Bytes(t) \in Nat
<1>1. ASSUME NEW t \in Tokens PROVE Bytes(t) \in Nat
  <2>1. CASE t \in {Sep, End}
    <3>1. t[1] \in {"sep", "end"}
      BY <2>1 DEF Sep, End
    <3> QED
      BY <3>1 DEF Bytes
  <2>2. CASE \E k \in Keys : t = KeyToken(k)
    <3>1. t[1] = "key"
      BY <2>2 DEF KeyToken
    <3> QED
      BY <3>1 DEF Bytes, KeyLen
  <2>3. CASE \E k \in Keys, v \in Versions : t = ValueToken(k, v)
    <3>1. t[1] = "value" /\ t[2] \in Keys
      BY <2>3 DEF ValueToken
    <3>2. Bytes(t) = ValueLen[t[2]]
      BY <3>1 DEF Bytes
    <3> QED
      BY <3>1, <3>2, ValueLenAssumption
  <2>4. CASE \E k \in Keys : t = PartToken(k)
    <3>1. t[1] = "part" /\ t[2] \in Keys
      BY <2>4 DEF PartToken
    <3>2. Bytes(t) = ValueLen[t[2]] \div 2
      BY <3>1 DEF Bytes
    <3>3. ValueLen[t[2]] \in Nat
      BY <3>1, ValueLenAssumption
    <3> QED
      BY <3>2, <3>3
  <2> QED
    BY <2>1, <2>2, <2>3, <2>4 DEF Tokens
<1> QED
  BY <1>1 DEF Known

LEMMA TokenCases ==
  ASSUME NEW t \in Known
  PROVE  \/ t = Sep /\ t[1] = "sep"
         \/ t = End /\ t[1] = "end"
         \/ t[1] = "key" /\ t[2] \in Keys /\ t = KeyToken(t[2])
         \/ /\ t[1] = "value" /\ t[2] \in Keys /\ t[3] \in Versions /\ t[3] <= zk[t[2]]
            /\ t = ValueToken(t[2], t[3])
         \/ t[1] = "part" /\ t[2] \in Keys /\ t = PartToken(t[2])
BY DEF Known, Tokens, Sep, End, KeyToken, ValueToken, PartToken

LEMMA ValueIsKnown ==
  ASSUME ZkType, NEW k \in Keys, NEW v \in 0 .. zk[k]
  PROVE  ValueToken(k, v) \in Known /\ v \in Versions
<1>1. zk[k] \in 0 .. MaxChanges /\ MaxChanges \in Nat
  BY CapAssumption DEF ZkType
<1>2. v \in Versions /\ v <= zk[k]
  BY <1>1 DEF Versions
<1>3. ValueToken(k, v) \in Tokens
  BY <1>2 DEF Tokens
<1>4. ValueToken(k, v)[2] = k /\ ValueToken(k, v)[3] = v
  BY DEF ValueToken
<1> QED
  BY <1>2, <1>3, <1>4 DEF Known

LEMMA MessageIsKnown ==
  ASSUME ZkType, NEW k \in Keys, NEW v \in 0 .. zk[k]
  PROVE  Message(k, v) \in Seq(Known) /\ Len(Message(k, v)) = 4
<1>1. Sep \in Known /\ End \in Known /\ KeyToken(k) \in Known
  BY DEF Known, Tokens, Sep, End, KeyToken
<1>2. ValueToken(k, v) \in Known
  BY ValueIsKnown
<1> QED
  BY <1>1, <1>2 DEF Message

\* The tokens a state knows are known in the next.
LEMMA KnownGrows ==
  ASSUME \A k \in Keys : zk[k] <= zk[k]', ZkType, ZkType'
  PROVE  Known \subseteq Known' /\ Held \subseteq Held'
<1>1. ASSUME NEW t \in Known PROVE t \in Known'
  <2>1. CASE t[1] = "value"
    <3>1. t[2] \in Keys /\ t[3] <= zk[t[2]] /\ t[3] \in Versions
      BY <2>1, TokenCases DEF Sep, End, KeyToken, PartToken
    <3>2. t[3] \in Int /\ zk[t[2]] \in Int /\ zk'[t[2]] \in Int
      BY <3>1 DEF ZkType, Versions
    <3>3. t[3] <= zk'[t[2]]
      BY <3>1, <3>2
    <3> QED
      BY <3>3 DEF Known
  <2>2. CASE t[1] # "value"
    BY <2>2 DEF Known
  <2> QED
    BY <2>1, <2>2
<1> QED
  BY <1>1 DEF Held

-----------------------------------------------------------------------------
(* Messages.                                                               *)

LEMMA SlotsProperties ==
  /\ N \in Nat /\ Slots \in Seq(Workers)
  /\ \A w \in Workers : SlotOf(w) \in 1 .. N /\ Slots[SlotOf(w)] = w
  /\ \A i \in 1 .. N : Slots[i] \in Workers /\ SlotOf(Slots[i]) = i
<1> DEFINE n == Cardinality(Workers)
           D == 1 .. n
<1>1. IsFiniteSet(Workers)
  BY CapAssumption
<1>2. n \in Nat /\ ExistsBijection(D, Workers)
  BY <1>1, FS_CardinalityType
<1>3. \E f \in [D -> Workers] : IsInjective(f)
  <2>1. PICK f : f \in Bijection(D, Workers)
    BY <1>2 DEF ExistsBijection
  <2> QED
    BY <2>1 DEF Bijection, Injection
<1>4. Slots \in [D -> Workers] /\ IsInjective(Slots)
  BY <1>3 DEF Slots, SetToSeq
<1>5. Slots \in Injection(D, Workers)
  BY <1>4 DEF Injection
<1>6. Cardinality(D) = n
  <2>1. n \in Int /\ 1 \in Int
    BY <1>2
  <2>2. Cardinality(D) = IF 1 > n THEN 0 ELSE n - 1 + 1
    BY <2>1, FS_Interval
  <2> HIDE DEF n
  <2> QED
    BY <1>2, <2>2
<1>7. Slots \in Surjection(D, Workers)
  BY <1>1, <1>5, <1>6, FS_Injection
<1> HIDE DEF n
<1>8. Slots \in Seq(Workers) /\ N = n
  BY <1>2, <1>4 DEF N
<1>9. \A w \in Workers : \E i \in 1 .. N : Slots[i] = w
  BY <1>7, <1>8 DEF Surjection
<1>10. \A w \in Workers : SlotOf(w) \in 1 .. N /\ Slots[SlotOf(w)] = w
  BY <1>9 DEF SlotOf
<1>11. \A i \in 1 .. N : Slots[i] \in Workers /\ SlotOf(Slots[i]) = i
  <2> TAKE i \in 1 .. N
  <2>1. Slots[i] \in Workers
    BY <1>4, <1>8
  <2>2. SlotOf(Slots[i]) \in 1 .. N /\ Slots[SlotOf(Slots[i])] = Slots[i]
    BY <1>10, <2>1
  <2>3. DOMAIN Slots = 1 .. N
    BY <1>4, <1>8
  <2> QED
    BY <1>4, <2>1, <2>2, <2>3 DEF IsInjective
<1> QED
  BY <1>2, <1>8, <1>10, <1>11

LEMMA RestProperties ==
  ASSUME ZkType, NEW k \in Keys, NEW v \in 0 .. zk[k], NEW n \in 0 .. 4 * N
  PROVE  /\ Rest(k, v, n) \in Seq(Workers \X Known)
         /\ Len(Rest(k, v, n)) = n
         /\ \A j \in 1 .. n :
              LET p == 4 * N - n + j
              IN  Rest(k, v, n)[j] = <<Slots[(p + 3) \div 4], Message(k, v)[((p + 3) % 4) + 1]>>
<1> DEFINE W == WritesFor(Slots, k, v)
           M == Message(k, v)
           e(p) == <<Slots[(p + 3) \div 4], M[((p + 3) % 4) + 1]>>
           r == Rest(k, v, n)
<1>1. N \in Nat /\ Slots \in Seq(Workers) /\ \A i \in 1 .. N : Slots[i] \in Workers
  BY SlotsProperties
<1>2. M \in Seq(Known) /\ Len(M) = 4
  BY MessageIsKnown
<1>3. W = [p \in 1 .. 4 * N |-> e(p)]
  BY DEF WritesFor, N
<1>4. \A p \in 1 .. 4 * N : (p + 3) \div 4 \in 1 .. N /\ ((p + 3) % 4) + 1 \in 1 .. 4
  BY <1>1
<1>5. \A j \in 1 .. n : 4 * N - n + j \in 1 .. 4 * N
  BY <1>1
<1>6. \A p \in 1 .. 4 * N : e(p) \in Workers \X Known
  <2> TAKE p \in 1 .. 4 * N
  <2>1. Slots[(p + 3) \div 4] \in Workers
    BY <1>1, <1>4
  <2>2. M[((p + 3) % 4) + 1] \in Known
    <3> HIDE DEF M
    <3>1. \A i \in 1 .. 4 : M[i] \in Known
      BY <1>2, ElementOfSeq
    <3>2. ((p + 3) % 4) + 1 \in 1 .. 4
      BY <1>4
    <3> QED
      BY <3>1, <3>2, Zenon
  <2> QED
    BY <2>1, <2>2
<1>7. r = [j \in 1 .. n |-> W[4 * N - n + j]]
  BY DEF Rest
<1> HIDE DEF W, r, M, e
<1>8. \A j \in 1 .. n : r[j] = e(4 * N - n + j)
  BY <1>3, <1>5, <1>7
<1>9. r = [j \in 1 .. n |-> e(4 * N - n + j)]
  BY <1>7, <1>8
<1>10. \A j \in 1 .. n : e(4 * N - n + j) \in Workers \X Known
  BY <1>5, <1>6
<1>11. n \in Nat
  BY <1>1
<1>12. r \in Seq(Workers \X Known) /\ Len(r) = n
  BY <1>9, <1>10, <1>11
<1> QED
  BY <1>8, <1>12 DEF r, e, M

LEMMA RestOfRest ==
  ASSUME ZkType, NEW k \in Keys, NEW v \in 0 .. zk[k], NEW n \in 1 .. 4 * N
  PROVE  /\ Rest(k, v, n) # <<>>
         /\ Tail(Rest(k, v, n)) = Rest(k, v, n - 1)
<1> DEFINE r == Rest(k, v, n)
           q == Rest(k, v, n - 1)
           A == Workers \X Known
<1>1. N \in Nat
  BY SlotsProperties
<1>2. n \in 0 .. 4 * N /\ n - 1 \in 0 .. 4 * N /\ n \in Nat
  BY <1>1
<1>3. r \in Seq(A) /\ Len(r) = n
  BY <1>2, RestProperties
<1>4. q \in Seq(A) /\ Len(q) = n - 1
  BY <1>2, RestProperties
<1>5. \A j \in 1 .. n : r[j] = WritesFor(Slots, k, v)[4 * N - n + j]
  BY DEF Rest
<1>6. \A j \in 1 .. n - 1 : q[j] = WritesFor(Slots, k, v)[4 * N - (n - 1) + j]
  BY DEF Rest
<1>7. r # <<>>
  BY <1>2, <1>3, EmptySeq
<1> HIDE DEF r, q, A
<1>8. Tail(r) \in Seq(A) /\ Len(Tail(r)) = n - 1 /\ \A j \in 1 .. n - 1 : Tail(r)[j] = r[j + 1]
  BY <1>3, <1>7, HeadTailProperties
<1>9. \A j \in 1 .. n - 1 : Tail(r)[j] = q[j]
  <2> TAKE j \in 1 .. n - 1
  <2>1. j + 1 \in 1 .. n /\ 4 * N - n + (j + 1) = 4 * N - (n - 1) + j
    BY <1>1, <1>2
  <2> QED
    BY <1>5, <1>6, <1>8, <2>1
<1>10. Tail(r) = q
  BY <1>4, <1>8, <1>9, SeqEqual
<1> QED
  BY <1>7, <1>10 DEF r, q

\* A write leaves the rest of the message.
LEMMA TailInMessage ==
  ASSUME ZkType, NEW o, InMessage(o), o # <<>>
  PROVE  InMessage(Tail(o))
<1>1. PICK k \in Keys, n \in 1 .. 4 * N : \E v \in 0 .. zk[k] : o = Rest(k, v, n)
  BY DEF InMessage
<1>2. PICK v \in 0 .. zk[k] : o = Rest(k, v, n)
  BY <1>1
<1>3. Tail(o) = Rest(k, v, n - 1)
  BY <1>2, RestOfRest
<1>4. N \in Nat
  BY SlotsProperties
<1>5. CASE n = 1
  <2>1. 1 .. n - 1 = {}
    BY <1>5
  <2>2. Rest(k, v, n - 1) = <<>>
    BY <2>1 DEF Rest
  <2> QED
    BY <1>3, <2>2 DEF InMessage
<1>6. CASE n # 1
  <2>1. n - 1 \in 1 .. 4 * N
    BY <1>4, <1>6
  <2> QED
    BY <1>3, <2>1 DEF InMessage
<1> QED
  BY <1>5, <1>6

\* All its writes are what a get leaves to be done.
LEMMA WritesInMessage ==
  ASSUME ZkType, NEW k \in Keys, NEW v \in 0 .. zk[k]
  PROVE  /\ WritesFor(Slots, k, v) = Rest(k, v, 4 * N)
         /\ InMessage(WritesFor(Slots, k, v))
<1> DEFINE W == WritesFor(Slots, k, v)
<1>1. N \in Nat
  BY SlotsProperties
<1>2. DOMAIN W = 1 .. 4 * N /\ W = [p \in 1 .. 4 * N |-> W[p]]
  BY DEF WritesFor, N
<1>3. Rest(k, v, 4 * N) = [j \in 1 .. 4 * N |-> W[4 * N - 4 * N + j]]
  BY DEF Rest
<1> HIDE DEF W
<1>4. \A j \in 1 .. 4 * N : 4 * N - 4 * N + j = j
  BY <1>1
<1>5. W = Rest(k, v, 4 * N)
  BY <1>2, <1>3, <1>4
<1>6. CASE N = 0
  <2>1. 1 .. 4 * N = {}
    BY <1>6
  <2>2. W = <<>>
    BY <1>2, <2>1
  <2> QED
    BY <1>5, <2>2 DEF InMessage, W
<1>7. CASE N # 0
  <2>1. 4 * N \in 1 .. 4 * N
    BY <1>1, <1>7
  <2> QED
    BY <1>5, <2>1 DEF InMessage, W
<1> QED
  BY <1>6, <1>7

LEMMA MessageType ==
  ASSUME ZkType, NEW o, InMessage(o)
  PROVE  o \in Seq(Workers \X Known)
<1>1. CASE o = <<>>
  BY <1>1
<1>2. CASE o # <<>>
  <2>1. PICK k \in Keys, n \in 1 .. 4 * N : \E v \in 0 .. zk[k] : o = Rest(k, v, n)
    BY <1>2 DEF InMessage
  <2>2. PICK v \in 0 .. zk[k] : o = Rest(k, v, n)
    BY <2>1
  <2>3. n \in 0 .. 4 * N
    BY SlotsProperties
  <2> QED
    BY <2>2, <2>3, RestProperties
<1> QED
  BY <1>1, <1>2

-----------------------------------------------------------------------------
(* What an update makes of a configuration.                                *)

LEMMA ApplyIs ==
  ASSUME NEW A, NEW us \in Seq(A), NEW c, NEW k \in Keys
  PROVE  \/ /\ \A i \in 1 .. Len(us) : us[i][1] # k
            /\ Apply(c, us)[k] = c[k]
         \/ \E m \in 1 .. Len(us) :
              /\ us[m][1] = k
              /\ \A i \in 1 .. Len(us) : us[i][1] = k => i <= m
              /\ Apply(c, us)[k] = ValueOf(us[m][2])
<1> DEFINE mine == {i \in DOMAIN us : us[i][1] = k}
<1>1. Apply(c, us)[k] = IF mine = {} THEN c[k] ELSE ValueOf(us[Max(mine)][2])
  BY DEF Apply
<1>2. Len(us) \in Nat /\ DOMAIN us = 1 .. Len(us)
  OBVIOUS
<1>3. CASE mine = {}
  BY <1>1, <1>2, <1>3
<1>4. CASE mine # {}
  <2>1. mine \subseteq 0 .. Len(us)
    BY <1>2
  <2>2. \E x \in mine : \A y \in mine : y <= x
    BY <1>2, <1>4, <2>1, GreatestExists
  <2>3. \A x, y \in mine : y <= x => x >= y
    BY <2>1
  <2>4. \E x \in mine : \A y \in mine : x >= y
    BY <2>2, <2>3
  <2> DEFINE m == Max(mine)
  <2>5. m \in mine /\ \A y \in mine : m >= y
    <3> HIDE DEF mine
    <3> QED
      BY <2>4 DEF Max
  <2>6. Apply(c, us)[k] = ValueOf(us[m][2])
    BY <1>1, <1>4
  <2> HIDE DEF m
  <2>7. \A i \in 1 .. Len(us) : us[i][1] = k => i <= m
    BY <1>2, <2>1, <2>5
  <2> QED
    BY <1>2, <2>5, <2>6, <2>7
<1> QED
  BY <1>3, <1>4

LEMMA ApplyTakes ==
  ASSUME NEW A, NEW us \in Seq(A), NEW c, NEW k \in Keys, NEW i \in 1 .. Len(us), us[i][1] = k
  PROVE  \E m \in 1 .. Len(us) :
           us[m][1] = k /\ i <= m /\ Apply(c, us)[k] = ValueOf(us[m][2])
BY ApplyIs

LEMMA ValueOfType ==
  ASSUME NEW s \in Seq(Known)
  PROVE  ValueOf(s) \in Held
<1>1. CASE Len(s) = 1 /\ s[1][1] = "value"
  BY <1>1 DEF ValueOf, Held
<1>2. CASE ~(Len(s) = 1 /\ s[1][1] = "value")
  BY <1>2 DEF ValueOf, Held
<1> QED
  BY <1>1, <1>2

LEMMA ApplyType ==
  ASSUME NEW s \in Seq(Known), NEW c \in [Keys -> Held]
  PROVE  Apply(c, Updates(s)) \in [Keys -> Held]
<1> DEFINE us == Updates(s)
<1>1. us \in Seq(Found(s))
  BY KnownIsTokens, UpdatesAreFound
<1> HIDE DEF us
<1>2. ASSUME NEW k \in Keys PROVE Apply(c, us)[k] \in Held
  <2>1. CASE Apply(c, us)[k] = c[k]
    BY <2>1
  <2>2. CASE \E m \in 1 .. Len(us) : Apply(c, us)[k] = ValueOf(us[m][2])
    <3>1. PICK m \in 1 .. Len(us) : Apply(c, us)[k] = ValueOf(us[m][2])
      BY <2>2
    <3>2. us[m] \in Found(s)
      BY <1>1
    <3>3. PICK i, e : KeyToEnd(s, i, e) /\ us[m] = <<s[i][2], SubSeq(s, i + 2, e - 1)>>
      BY <3>2, FoundIs
    <3>4. i + 2 \in Int /\ e - 1 \in Int /\ \A n \in i + 2 .. e - 1 : s[n] \in Known
      BY <3>3 DEF KeyToEnd
    <3>5. SubSeq(s, i + 2, e - 1) \in Seq(Known)
      BY <3>4, SubSeqProperties
    <3>6. us[m][2] = SubSeq(s, i + 2, e - 1)
      <4> DEFINE a == s[i][2]
                 b == SubSeq(s, i + 2, e - 1)
      <4>1. us[m] = <<a, b>>
        BY <3>3
      <4> HIDE DEF a, b
      <4>2. us[m][2] = b
        BY <4>1
      <4> QED
        BY <4>2 DEF b
    <3> QED
      BY <3>1, <3>5, <3>6, ValueOfType
  <2> QED
    BY <1>1, <2>1, <2>2, ApplyIs
<1>3. Apply(c, us) = [k \in Keys |-> Apply(c, us)[k]]
  BY DEF Apply
<1> QED
  BY <1>2, <1>3 DEF us

-----------------------------------------------------------------------------
(* Types.                                                                  *)

LEMMA TypeInit == Init => TypeInv
<1> SUFFICES ASSUME Init PROVE TypeInv
  OBVIOUS
<1>1. ZkType
  BY CapAssumption DEF Init, ZkType, Sessions
<1>2. SenderType
  <2>1. \A t \in Threads : InMessage(out[t])
    BY DEF Init, InMessage
  <2>2. <<>> \in Seq(Workers \X Known) /\ <<>> \in Seq(Keys)
    OBVIOUS
  <2>3. todo \in [Threads -> Seq(Keys)]
    BY KeyOrderAssumption, <2>2 DEF Init
  <2> QED
    BY <2>1, <2>2, <2>3 DEF Init, SenderType, Clients
<1>3. WorkerType
  <2>1. <<>> \in Seq(Known) /\ Len(<<>>) = 0
    OBVIOUS
  <2>2. Unset \in [Keys -> Held]
    BY DEF Unset, Held
  <2> QED
    BY CapAssumption, <2>1, <2>2 DEF Init, WorkerType
<1>4. HistoryType
  <2>1. failures = 0 /\ mixed = {} /\ clean \subseteq Workers
    BY DEF Init
  <2>2. failures \in 0 .. MaxFailures
    BY CapAssumption, <2>1
  <2>3. mixed \subseteq Workers
    BY <2>1
  <2> QED
    BY <2>1, <2>2, <2>3 DEF HistoryType
<1> QED
  BY <1>1, <1>2, <1>3, <1>4 DEF TypeInv

\* When ZooKeeper does not change, what is known does not either.
LEMMA KnownStays ==
  ASSUME UNCHANGED zk
  PROVE  /\ Known' = Known /\ Held' = Held
         /\ \A o : InMessage(o) => InMessage(o)'
BY DEF Known, Held, InMessage

LEMMA SenderStays ==
  ASSUME SenderType, UNCHANGED zk, UNCHANGED senderVars
  PROVE  SenderType'
<1>1. Known' = Known
  BY KnownStays
<1>2. \A t \in Threads : InMessage(out[t])'
  BY DEF SenderType, senderVars, InMessage
<1> QED
  BY <1>1, <1>2 DEF SenderType, senderVars

LEMMA WorkerStays ==
  ASSUME WorkerType, UNCHANGED zk, UNCHANGED workerVars
  PROVE  WorkerType'
<1>1. Known' = Known /\ Held' = Held
  BY KnownStays
<1> QED
  BY <1>1 DEF WorkerType, workerVars

\* A step of thread t of the sender: what it has still to get and to write.
LEMMA ThreadType ==
  ASSUME SenderType, UNCHANGED <<zk, serving, pings>>,
         NEW t \in Threads, NEW ks \in Seq(Keys), NEW o, InMessage(o),
         o \in Seq(Workers \X Known),
         todo' = [todo EXCEPT ![t] = ks], out' = [out EXCEPT ![t] = o]
  PROVE  SenderType'
<1>1. Known' = Known
  BY KnownStays
<1>2. todo' \in [Threads -> Seq(Keys)] /\ out' \in [Threads -> Seq(Workers \X Known)]
  BY DEF SenderType
<1>3. \A u \in Threads : InMessage(out'[u])
  BY DEF SenderType
<1>4. \A u \in Threads : InMessage(out[u])'
  BY <1>3 DEF InMessage
<1> QED
  BY <1>1, <1>2, <1>4 DEF SenderType

LEMMA TypeEnvironment ==
  ASSUME TypeInv, Environment
  PROVE  TypeInv'
<1>1. ASSUME NEW k \in Keys, Change(k) PROVE TypeInv'
  <2>1. ZkType'
    <3>1. changes \in Nat /\ changes < MaxChanges /\ MaxChanges \in Nat
      BY <1>1, CapAssumption DEF Change, TypeInv, ZkType
    <3>2. changes' \in 0 .. MaxChanges
      BY <1>1, <3>1 DEF Change
    <3>3. zk[k] + 1 \in 0 .. changes'
      BY <1>1, <3>1 DEF Change, TypeInv, ZkType
    <3>4. \A j \in Keys : zk[j] \in 0 .. changes'
      BY <1>1, <3>1 DEF Change, TypeInv, ZkType
    <3>5. zk' \in [Keys -> 0 .. changes']
      <4> DEFINE B == 0 .. changes'
      <4>1. zk[k] + 1 \in B /\ \A j \in Keys : zk[j] \in B
        BY <3>3, <3>4
      <4>2. zk' = [zk EXCEPT ![k] = zk[k] + 1] /\ zk = [j \in Keys |-> zk[j]]
        BY <1>1 DEF Change, TypeInv, ZkType
      <4> HIDE DEF B
      <4>3. zk' \in [Keys -> B]
        BY <4>1, <4>2
      <4> QED
        BY <4>3 DEF B
    <3>6. seen' \in [Keys -> 0 .. changes']
      <4>1. seen' = seen /\ seen = [j \in Keys |-> seen[j]]
        BY <1>1 DEF Change, TypeInv, ZkType
      <4>2. \A j \in Keys : seen[j] \in 0 .. changes'
        BY <1>1, <3>1 DEF Change, TypeInv, ZkType
      <4> QED
        BY <4>1, <4>2
    <3>7. watch' \subseteq Keys /\ events' \in Seq(Keys)
      <4>1. \/ watch' = watch \ {k} /\ events' = Append(events, k)
            \/ watch' = watch /\ events' = events
        BY <1>1 DEF Change
      <4>2. watch \subseteq Keys /\ events \in Seq(Keys)
        BY DEF TypeInv, ZkType
      <4>3. Append(events, k) \in Seq(Keys)
        BY <4>2, AppendProperties
      <4> QED
        BY <4>1, <4>2, <4>3
    <3> QED
      BY <1>1, <3>2, <3>5, <3>6, <3>7 DEF Change, TypeInv, ZkType
  <2>2. \A j \in Keys : zk[j] <= zk'[j] /\ zk[j] \in Nat /\ zk'[j] \in Nat
    BY <1>1 DEF Change, TypeInv, ZkType
  <2>3. Known \subseteq Known' /\ Held \subseteq Held'
    BY <2>1, <2>2, KnownGrows DEF TypeInv
  <2>4. Seq(Known) \subseteq Seq(Known') /\ Seq(Workers \X Known) \subseteq Seq(Workers \X Known')
    <3>1. Workers \X Known \subseteq Workers \X Known'
      BY <2>3
    <3> QED
      BY <2>3, <3>1, SeqMonotonic
  <2>5. \A t \in Threads : InMessage(out[t])'
    <3> TAKE t \in Threads
    <3>1. InMessage(out[t]) /\ out' = out
      BY <1>1 DEF Change, senderVars, TypeInv, SenderType
    <3>2. CASE out[t] = <<>>
      BY <3>1, <3>2 DEF InMessage
    <3>3. CASE out[t] # <<>>
      <4>1. PICK j \in Keys, n \in 1 .. 4 * N : \E v \in 0 .. zk[j] : out[t] = Rest(j, v, n)
        BY <3>1, <3>3 DEF InMessage
      <4>2. PICK v \in 0 .. zk[j] : out[t] = Rest(j, v, n)
        BY <4>1
      <4>3. v \in 0 .. zk'[j]
        BY <2>2
      <4> QED
        BY <3>1, <4>2, <4>3 DEF InMessage
    <3> QED
      BY <3>2, <3>3
  <2>6. SenderType'
    BY <1>1, <2>4, <2>5 DEF Change, senderVars, TypeInv, SenderType
  <2>7. WorkerType'
    <3>1. UNCHANGED <<pipe, buf, worker, conf>>
      BY <1>1 DEF Change, workerVars
    <3>2. [Workers -> [Keys -> Held]] \subseteq [Workers -> [Keys -> Held']]
      BY <2>3
    <3> QED
      BY <2>4, <3>1, <3>2 DEF TypeInv, WorkerType
  <2>8. HistoryType'
    BY <1>1 DEF Change, TypeInv, HistoryType
  <2> QED
    BY <2>1, <2>6, <2>7, <2>8 DEF TypeInv
<1>2. ASSUME Expire PROVE TypeInv'
  <2>1. ZkType'
    BY <1>2 DEF Expire, TypeInv, ZkType, Sessions
  <2>2. SenderType' /\ WorkerType'
    BY <1>2, SenderStays, WorkerStays DEF Expire, TypeInv
  <2>3. HistoryType'
    BY <1>2, CapAssumption DEF Expire, TypeInv, HistoryType
  <2> QED
    BY <2>1, <2>2, <2>3 DEF TypeInv
<1> QED
  BY <1>1, <1>2 DEF Environment

\* The head of a list of keys is a key, its tail a list of keys.
LEMMA HeadTail ==
  ASSUME NEW A, NEW s \in Seq(A), s # <<>>
  PROVE  /\ Head(s) \in A /\ Tail(s) \in Seq(A) /\ Len(Tail(s)) = Len(s) - 1
         /\ Len(s) \in Nat \ {0} /\ Head(s) = s[1]
         /\ \A i \in 1 .. Len(s) - 1 : Tail(s)[i] = s[i + 1]
BY HeadTailProperties, EmptySeq

LEMMA TypeThread ==
  ASSUME TypeInv, NEW t \in Threads, Thread(t)
  PROVE  TypeInv'
<1>1. /\ todo \in [Threads -> Seq(Keys)] /\ out \in [Threads -> Seq(Workers \X Known)]
      /\ todo[t] \in Seq(Keys) /\ out[t] \in Seq(Workers \X Known) /\ InMessage(out[t])
      /\ ZkType
  BY DEF TypeInv, SenderType
<1>2. CASE GetOK(t)
  <2> DEFINE k == Head(todo[t])
             W == WritesFor(Slots, k, zk[k])
  <2>1. todo[t] # <<>> /\ todo' = [todo EXCEPT ![t] = Tail(todo[t])] /\ out' = [out EXCEPT ![t] = W]
    BY <1>2 DEF GetOK
  <2>2. k \in Keys /\ Tail(todo[t]) \in Seq(Keys)
    BY <1>1, <2>1, HeadTail
  <2>3. zk[k] \in 0 .. zk[k] /\ zk[k] \in 0 .. changes
    BY <2>2 DEF TypeInv, ZkType
  <2>4. ZkType'
    <3>1. /\ watch' = watch \cup {k} /\ stale' = stale \ {k}
          /\ seen' = [seen EXCEPT ![k] = zk[k]]
          /\ UNCHANGED <<zk, changes, events, session>>
      BY <1>2 DEF GetOK
    <3> HIDE DEF k
    <3>2. seen' \in [Keys -> 0 .. changes]
      BY <2>2, <2>3, <3>1 DEF TypeInv, ZkType
    <3> QED
      BY <2>2, <3>1, <3>2 DEF TypeInv, ZkType
  <2>5. InMessage(W)
    BY <1>1, <2>2, <2>3, WritesInMessage
  <2>6. W \in Seq(Workers \X Known)
    BY <1>1, <2>5, MessageType
  <2>7. UNCHANGED <<zk, serving, pings>>
    BY <1>2 DEF GetOK
  <2>8. SenderType
    BY DEF TypeInv
  <2> HIDE DEF W, k
  <2>9. SenderType'
    BY <2>1, <2>2, <2>5, <2>6, <2>7, <2>8, ThreadType
  <2>10. WorkerType'
    BY <1>2, WorkerStays DEF GetOK, TypeInv
  <2>11. HistoryType'
    <3>1. failures' \in 0 .. MaxFailures /\ clean' \subseteq Workers
      BY <1>2 DEF GetOK, TypeInv, HistoryType
    <3>2. mixed' \subseteq Workers
      BY <1>2 DEF GetOK, TypeInv, HistoryType
    <3> QED
      BY <3>1, <3>2 DEF HistoryType
  <2> QED
    BY <2>4, <2>9, <2>10, <2>11 DEF TypeInv
<1>3. CASE GetFails(t)
  <2>1. /\ todo[t] # <<>> /\ todo' = [todo EXCEPT ![t] = Tail(todo[t])] /\ out' = out
        /\ stale' = stale \cup {Head(todo[t])} /\ clean' = {}
        /\ UNCHANGED <<zk, changes, watch, events, session, seen, serving, pings, failures, mixed>>
        /\ UNCHANGED workerVars
    BY <1>3 DEF GetFails
  <2>2. Head(todo[t]) \in Keys /\ Tail(todo[t]) \in Seq(Keys)
    BY <1>1, <2>1, HeadTail
  <2>3. ZkType'
    BY <2>1, <2>2 DEF TypeInv, ZkType
  <2>4. SenderType'
    <3>1. out' = [out EXCEPT ![t] = out[t]]
      BY <1>1, <2>1
    <3> QED
      BY <1>1, <2>1, <2>2, <3>1, ThreadType DEF TypeInv
  <2>5. WorkerType' /\ HistoryType'
    BY <2>1, WorkerStays DEF TypeInv, HistoryType
  <2> QED
    BY <2>3, <2>4, <2>5 DEF TypeInv
<1>4. CASE Write(t) \/ WriteFails(t)
  <2>0. PICK w \in Workers, x \in Known : Head(out[t]) = <<w, x>> /\ Tail(out[t]) \in Seq(Workers \X Known)
    <3>1. out[t] # <<>>
      BY <1>4 DEF Write, WriteFails
    <3> QED
      BY <1>1, <3>1, HeadTail
  <2>1. /\ out[t] # <<>> /\ out' = [out EXCEPT ![t] = Tail(out[t])] /\ todo' = todo
        /\ UNCHANGED <<zk, serving, pings, worker, buf, conf>>
        /\ UNCHANGED zkVars
    BY <1>4 DEF Write, WriteFails, zkVars
  <2>2. \/ pipe' = pipe
        \/ /\ Len(pipe[w]) < PipeCap
           /\ \E y \in Known : pipe' = [pipe EXCEPT ![w] = Append(pipe[w], y)]
    <3>1. CASE Write(t)
      <4>1. Head(out[t])[1] = w /\ Head(out[t])[2] = x
        BY <2>0
      <4>2. Len(pipe[w]) < PipeCap /\ pipe' = [pipe EXCEPT ![w] = Append(pipe[w], x)]
        BY <3>1, <4>1 DEF Write
      <4> QED
        BY <2>0, <4>2
    <3>2. CASE WriteFails(t)
      <4>1. ASSUME x[1] = "value" PROVE PartToken(x[2]) \in Known
        BY <4>1, <2>0, TokenCases DEF Known, Tokens, Sep, End, KeyToken, PartToken
      <4> QED
        BY <2>0, <3>2, <4>1 DEF WriteFails
    <3> QED
      BY <1>4, <3>1, <3>2
  <2>3. ZkType'
    BY <2>1 DEF TypeInv, ZkType, zkVars
  <2>4. HistoryType'
    <3>1. CASE Write(t)
      BY <3>1 DEF Write, TypeInv, HistoryType
    <3>2. CASE WriteFails(t)
      <4>1. failures' \in 0 .. MaxFailures
        BY <3>2, CapAssumption DEF WriteFails, TypeInv, HistoryType
      <4>2. mixed' = mixed \cup {w} /\ clean' = clean \ {w}
        BY <2>0, <3>2 DEF WriteFails
      <4> QED
        BY <4>1, <4>2 DEF TypeInv, HistoryType
    <3> QED
      BY <1>4, <3>1, <3>2
  <2>5. SenderType'
    <3>1. todo' = [todo EXCEPT ![t] = todo[t]]
      BY <1>1, <2>1
    <3>2. InMessage(Tail(out[t]))
      BY <1>1, <2>1, TailInMessage
    <3> QED
      BY <1>1, <2>0, <2>1, <3>1, <3>2, ThreadType DEF TypeInv
  <2>6. WorkerType'
    <3>1. Known' = Known /\ Held' = Held
      BY <2>1, KnownStays
    <3>2. CASE pipe' = pipe
      BY <2>1, <3>1, <3>2 DEF TypeInv, WorkerType
    <3>3. ASSUME NEW y \in Known, Len(pipe[w]) < PipeCap, pipe' = [pipe EXCEPT ![w] = Append(pipe[w], y)]
          PROVE  WorkerType'
      <4>1. pipe[w] \in Seq(Known)
        BY DEF TypeInv, WorkerType
      <4>2. Append(pipe[w], y) \in Seq(Known) /\ Len(Append(pipe[w], y)) = Len(pipe[w]) + 1
        BY <4>1
      <4>3. Len(pipe[w]) \in Nat /\ PipeCap \in Nat
        BY <4>1, CapAssumption
      <4>4. pipe' \in [Workers -> Seq(Known)]
        BY <3>3, <4>2 DEF TypeInv, WorkerType
      <4>5. \A u \in Workers : Len(pipe'[u]) <= PipeCap
        BY <3>3, <4>2, <4>3 DEF TypeInv, WorkerType
      <4> QED
        BY <2>1, <3>1, <4>4, <4>5 DEF TypeInv, WorkerType
    <3> QED
      BY <2>2, <3>2, <3>3
  <2> QED
    BY <2>3, <2>4, <2>5, <2>6 DEF TypeInv
<1> QED
  BY <1>2, <1>3, <1>4 DEF Thread

\* The sender ends and is started again.
Ends == SenderRestart \/ \E t \in Threads : UseClosed(t)

LEMMA EndsRestarts ==
  ASSUME Ends
  PROVE  Restarted /\ (failures' = failures \/ (failures < MaxFailures /\ failures' = failures + 1))
BY DEF Ends, SenderRestart, UseClosed

LEMMA TypeSender ==
  ASSUME TypeInv, Sender
  PROVE  TypeInv'
<1>0. /\ ZkType /\ SenderType /\ WorkerType /\ HistoryType
      /\ todo \in [Threads -> Seq(Keys)] /\ out \in [Threads -> Seq(Workers \X Known)]
      /\ \A t \in Threads : InMessage(out[t])
      /\ KeyOrder \in Seq(Keys) /\ <<>> \in Seq(Keys)
  BY KeyOrderAssumption DEF TypeInv, SenderType
<1>1. ASSUME NEW t \in Threads, NEW ks \in Seq(Keys),
             todo' = [todo EXCEPT ![t] = ks], UNCHANGED <<zk, out>>,
             serving' \in Clients \cup {None}, pings' \subseteq Clients
      PROVE  SenderType'
  <2>1. Known' = Known
    BY <1>1, KnownStays
  <2>2. \A u \in Threads : InMessage(out[u])'
    BY <1>0, <1>1 DEF InMessage
  <2>3. todo' \in [Threads -> Seq(Keys)]
    BY <1>0, <1>1
  <2> QED
    BY <1>0, <1>1, <2>1, <2>2, <2>3 DEF SenderType
<1>2. ASSUME NEW t \in Threads, Thread(t) PROVE TypeInv'
  BY <1>2, TypeThread
<1>3. ASSUME NEW c \in Clients, Accept(c) PROVE TypeInv'
  <2>1. SenderType'
    BY <1>0, <1>1, <1>3 DEF Accept, SenderType, zkVars, Threads
  <2>2. ZkType' /\ WorkerType' /\ HistoryType'
    BY <1>0, <1>3, WorkerStays DEF Accept, ZkType, HistoryType, zkVars
  <2> QED
    BY <2>1, <2>2 DEF TypeInv
<1>4. ASSUME NEW c \in Clients, AcceptEarly(c) PROVE TypeInv'
  <2>1. todo' = [todo EXCEPT !["main"] = todo["main"]]
    BY <1>0, <1>4 DEF AcceptEarly
  <2>2. SenderType'
    BY <1>0, <1>1, <1>4, <2>1 DEF AcceptEarly, SenderType, zkVars, Threads
  <2>3. ZkType' /\ WorkerType' /\ HistoryType'
    BY <1>0, <1>4, WorkerStays DEF AcceptEarly, ZkType, HistoryType, zkVars
  <2> QED
    BY <2>2, <2>3 DEF TypeInv
<1>5. ASSUME Answer PROVE TypeInv'
  <2>1. todo' = [todo EXCEPT !["main"] = todo["main"]]
    BY <1>0, <1>5 DEF Answer
  <2>2. SenderType'
    BY <1>0, <1>1, <1>5, <2>1 DEF Answer, SenderType, zkVars, Threads
  <2>3. WorkerType'
    <3>1. Known' = Known /\ Held' = Held
      BY <1>5, KnownStays DEF Answer, zkVars
    <3> QED
      BY <1>0, <1>5, <3>1 DEF Answer, WorkerType
  <2>4. ZkType' /\ HistoryType'
    BY <1>0, <1>5 DEF Answer, ZkType, HistoryType, zkVars
  <2> QED
    BY <2>2, <2>3, <2>4 DEF TypeInv
<1>6. ASSUME Watcher PROVE TypeInv'
  <2>1. Head(events) \in Keys /\ Tail(events) \in Seq(Keys)
    BY <1>0, <1>6, HeadTail DEF Watcher, ZkType
  <2>2. <<Head(events)>> \in Seq(Keys)
    BY <2>1
  <2>3. SenderType'
    BY <1>0, <1>1, <1>6, <2>2 DEF Watcher, SenderType, Threads
  <2>4. ZkType' /\ WorkerType' /\ HistoryType'
    BY <1>0, <1>6, <2>1, WorkerStays DEF Watcher, ZkType, HistoryType
  <2> QED
    BY <2>3, <2>4 DEF TypeInv
<1>7. ASSUME Close PROVE TypeInv'
  <2>1. SenderType' /\ WorkerType'
    BY <1>0, <1>7, SenderStays, WorkerStays DEF Close
  <2>2. ZkType' /\ HistoryType'
    BY <1>0, <1>7 DEF Close, ZkType, HistoryType, Sessions
  <2> QED
    BY <2>1, <2>2 DEF TypeInv
<1>8. ASSUME Reopen PROVE TypeInv'
  <2>1. SenderType'
    BY <1>0, <1>1, <1>8 DEF Reopen, SenderType, Threads
  <2>2. ZkType' /\ WorkerType' /\ HistoryType'
    BY <1>0, <1>8, WorkerStays DEF Reopen, ZkType, HistoryType, Sessions
  <2> QED
    BY <2>1, <2>2 DEF TypeInv
<1>9. ASSUME Ends PROVE TypeInv'
  <2>0. Restarted /\ (failures' = failures \/ (failures < MaxFailures /\ failures' = failures + 1))
    BY <1>9, EndsRestarts
  <2>1. ZkType'
    BY <1>0, <2>0 DEF Restarted, ZkType, Sessions
  <2>2. Known' = Known /\ Held' = Held
    BY <2>0, KnownStays DEF Restarted
  <2>3. SenderType'
    <3>1. todo' \in [Threads -> Seq(Keys)]
      BY <1>0, <2>0 DEF Restarted
    <3>2. out' = [t \in Threads |-> <<>>] /\ serving' = None /\ pings' = {}
      BY <2>0 DEF Restarted
    <3>3. \A t \in Threads : InMessage(out[t])'
      BY <3>2 DEF InMessage
    <3> QED
      BY <3>1, <3>2, <3>3 DEF SenderType
  <2>4. WorkerType'
    BY <1>0, <2>0, <2>2 DEF Restarted, WorkerType
  <2>5. HistoryType'
    <3>1. failures' \in 0 .. MaxFailures
      BY <1>0, <2>0, CapAssumption DEF HistoryType
    <3>2. mixed' \subseteq Workers /\ clean' \subseteq Workers
      BY <1>0, <2>0 DEF Restarted, HistoryType
    <3> QED
      BY <3>1, <3>2 DEF HistoryType
  <2> QED
    BY <2>1, <2>3, <2>4, <2>5 DEF TypeInv
<1> QED
  BY <1>2, <1>3, <1>4, <1>5, <1>6, <1>7, <1>8, <1>9 DEF Sender, Ends

\* A read takes the n first tokens of a pipe.
LEMMA ReadTakes ==
  ASSUME WorkerType, NEW w \in Workers, Read(w)
  PROVE  \E n \in 1 .. Len(pipe[w]) :
           /\ pipe' = [pipe EXCEPT ![w] = SubSeq(pipe[w], n + 1, Len(pipe[w]))]
           /\ \/ /\ Len(buf[w]) + n <= BufCap
                 /\ buf' = [buf EXCEPT ![w] = buf[w] \o SubSeq(pipe[w], 1, n)]
                 /\ UNCHANGED <<mixed, clean>>
              \/ mixed' = mixed \cup {w} /\ clean' = clean \ {w} /\ UNCHANGED buf
<1> DEFINE n == IF Len(pipe[w]) < Chunk THEN Len(pipe[w]) ELSE Chunk
<1>1. pipe[w] \in Seq(Known) /\ pipe[w] # <<>>
  BY DEF WorkerType, Read
<1>2. Len(pipe[w]) \in Nat \ {0}
  BY <1>1, EmptySeq
<1>3. n \in 1 .. Len(pipe[w])
  BY <1>2, CapAssumption
<1> HIDE DEF n
<1>4. /\ pipe' = [pipe EXCEPT ![w] = SubSeq(pipe[w], n + 1, Len(pipe[w]))]
      /\ IF Len(buf[w]) + n <= BufCap
            THEN /\ buf' = [buf EXCEPT ![w] = buf[w] \o SubSeq(pipe[w], 1, n)]
                 /\ UNCHANGED <<mixed, clean>>
            ELSE mixed' = mixed \cup {w} /\ clean' = clean \ {w} /\ UNCHANGED buf
  BY DEF Read, n
<1> QED
  BY <1>3, <1>4

LEMMA TypeWorker ==
  ASSUME TypeInv, NEW w \in Workers, Worker(w)
  PROVE  TypeInv'
<1>0. ZkType /\ SenderType /\ WorkerType /\ HistoryType
  BY DEF TypeInv
<1>1. UNCHANGED zkVars
  BY DEF Worker, StartTimeout, Ping, Read, Parse, Command, Crash, Respawn
<1>2. Known' = Known /\ Held' = Held
  BY <1>1, KnownStays DEF zkVars
<1>3. ZkType'
  BY <1>0, <1>1 DEF ZkType, zkVars
<1>4. ASSUME UNCHANGED <<todo, out>>, serving' \in Clients \cup {None}, pings' \subseteq Clients
      PROVE  SenderType'
  <2>1. \A t \in Threads : InMessage(out[t])'
    BY <1>0, <1>1, <1>4 DEF SenderType, InMessage, zkVars
  <2> QED
    BY <1>0, <1>2, <1>4, <2>1 DEF SenderType
<1>5. ASSUME Abandon(w) PROVE serving' \in Clients \cup {None} /\ pings' \subseteq Clients
  BY <1>0, <1>5 DEF Abandon, SenderType, Clients
<1>6. CASE StartTimeout(w)
  <2>1. SenderType'
    BY <1>4, <1>5, <1>6 DEF StartTimeout
  <2>2. WorkerType' /\ HistoryType'
    BY <1>0, <1>2, <1>6 DEF StartTimeout, WorkerType, HistoryType
  <2> QED
    BY <1>3, <2>1, <2>2 DEF TypeInv
<1>7. CASE Ping(w) \/ Respawn(w)
  <2>1. UNCHANGED <<todo, out, serving>> /\ pings' = pings \cup {w}
    BY <1>7 DEF Ping, Respawn
  <2>2. SenderType'
    BY <1>0, <1>4, <2>1 DEF SenderType, Clients
  <2>3. UNCHANGED <<pipe, buf, conf, failures, mixed, clean>>
        /\ (worker' = worker \/ worker' = [worker EXCEPT ![w] = "starting"])
    BY <1>7 DEF Ping, Respawn, workerVars
  <2>4. WorkerType' /\ HistoryType'
    BY <1>0, <1>2, <2>3 DEF WorkerType, HistoryType
  <2> QED
    BY <1>3, <2>2, <2>4 DEF TypeInv
<1>8. CASE Read(w)
  <2>1. SenderType'
    BY <1>0, <1>1, <1>8, SenderStays DEF Read, zkVars
  <2>2. PICK n \in 1 .. Len(pipe[w]) :
           /\ pipe' = [pipe EXCEPT ![w] = SubSeq(pipe[w], n + 1, Len(pipe[w]))]
           /\ \/ /\ Len(buf[w]) + n <= BufCap
                 /\ buf' = [buf EXCEPT ![w] = buf[w] \o SubSeq(pipe[w], 1, n)]
                 /\ UNCHANGED <<mixed, clean>>
              \/ mixed' = mixed \cup {w} /\ clean' = clean \ {w} /\ UNCHANGED buf
    BY <1>0, <1>8, ReadTakes
  <2>3. pipe[w] \in Seq(Known) /\ buf[w] \in Seq(Known) /\ Len(pipe[w]) \in Nat
        /\ Len(buf[w]) \in Nat /\ n \in Nat /\ PipeCap \in Nat /\ BufCap \in Nat
        /\ Len(pipe[w]) <= PipeCap
    BY <1>0, CapAssumption DEF WorkerType
  <2> DEFINE p == SubSeq(pipe[w], n + 1, Len(pipe[w]))
             q == SubSeq(pipe[w], 1, n)
  <2>4. p \in Seq(Known) /\ Len(p) <= PipeCap
    <3>1. \A i \in n + 1 .. Len(pipe[w]) : pipe[w][i] \in Known
      BY <2>3
    <3>2. Len(p) = IF n + 1 <= Len(pipe[w]) THEN Len(pipe[w]) - (n + 1) + 1 ELSE 0
      BY <2>3, <3>1, SubSeqProperties
    <3>3. p \in Seq(Known)
      BY <2>3, <3>1, SubSeqProperties
    <3> QED
      BY <2>3, <3>2, <3>3
  <2>5. q \in Seq(Known) /\ Len(q) = n
    <3>1. \A i \in 1 .. n : pipe[w][i] \in Known
      BY <2>3
    <3>2. Len(q) = IF 1 <= n THEN n - 1 + 1 ELSE 0
      BY <2>3, <3>1, SubSeqProperties
    <3>3. q \in Seq(Known)
      BY <2>3, <3>1, SubSeqProperties
    <3> QED
      BY <2>3, <3>2, <3>3
  <2> HIDE DEF p, q
  <2>6. buf[w] \o q \in Seq(Known) /\ Len(buf[w] \o q) = Len(buf[w]) + n
    BY <2>3, <2>5, ConcatProperties
  <2>7. pipe' = [pipe EXCEPT ![w] = p]
    BY <2>2 DEF p
  <2>8. \/ Len(buf[w]) + n <= BufCap /\ buf' = [buf EXCEPT ![w] = buf[w] \o q]
        \/ buf' = buf
    BY <2>2 DEF q
  <2>9. pipe' \in [Workers -> Seq(Known)] /\ \A u \in Workers : Len(pipe'[u]) <= PipeCap
    BY <1>0, <2>4, <2>7 DEF WorkerType
  <2>10. buf' \in [Workers -> Seq(Known)] /\ \A u \in Workers : Len(buf'[u]) <= BufCap
    BY <1>0, <2>6, <2>8 DEF WorkerType
  <2>11. worker' = worker /\ conf' = conf /\ failures' = failures
    BY <1>8 DEF Read
  <2>12. WorkerType'
    BY <1>0, <1>2, <2>9, <2>10, <2>11 DEF WorkerType
  <2>13. HistoryType'
    <3>1. mixed' \subseteq Workers
      BY <1>0, <2>2 DEF HistoryType
    <3>2. clean' \subseteq Workers
      BY <1>0, <2>2 DEF HistoryType
    <3> QED
      BY <1>0, <2>11, <3>1, <3>2 DEF HistoryType
  <2> QED
    BY <1>3, <2>1, <2>12, <2>13 DEF TypeInv
<1>9. CASE Parse(w)
  <2>1. SenderType'
    BY <1>0, <1>1, <1>9, SenderStays DEF Parse, zkVars
  <2> DEFINE c == Apply(conf[w], Updates(buf[w]))
  <2>2. /\ conf' = [conf EXCEPT ![w] = c] /\ buf' = [buf EXCEPT ![w] = <<>>]
        /\ UNCHANGED <<pipe, worker, failures, mixed>> /\ clean' \subseteq clean
    BY <1>9 DEF Parse
  <2>3. c \in [Keys -> Held]
    <3>1. buf[w] \in Seq(Known) /\ conf[w] \in [Keys -> Held]
      BY <1>0 DEF WorkerType
    <3> QED
      BY <3>1, ApplyType
  <2>4. <<>> \in Seq(Known) /\ Len(<<>>) <= BufCap
    BY CapAssumption
  <2> HIDE DEF c
  <2>5. WorkerType' /\ HistoryType'
    BY <1>0, <1>2, <2>2, <2>3, <2>4 DEF WorkerType, HistoryType
  <2> QED
    BY <1>3, <2>1, <2>5 DEF TypeInv
<1>10. CASE Command(w)
  <2>1. SenderType'
    BY <1>0, <1>1, <1>10, SenderStays DEF Command, zkVars
  <2>2. PICK k \in CommandKeys : conf' = [conf EXCEPT ![w][k] = Commanded]
    BY <1>10 DEF Command
  <2>3. Commanded \in Held
    BY DEF Held
  <2>4. conf' \in [Workers -> [Keys -> Held]]
    BY <1>0, <2>2, <2>3 DEF WorkerType
  <2>5. UNCHANGED <<pipe, buf, worker, failures, mixed>> /\ clean' \subseteq clean
    BY <1>10 DEF Command
  <2>6. WorkerType' /\ HistoryType'
    BY <1>0, <1>2, <2>4, <2>5 DEF WorkerType, HistoryType
  <2> QED
    BY <1>3, <2>1, <2>6 DEF TypeInv
<1>11. CASE Crash(w)
  <2>1. SenderType'
    BY <1>4, <1>5, <1>11 DEF Crash
  <2>2. /\ conf' = [conf EXCEPT ![w] = Unset] /\ buf' = [buf EXCEPT ![w] = <<>>]
        /\ worker' = [worker EXCEPT ![w] = "down"] /\ UNCHANGED <<pipe, mixed>>
        /\ clean' = clean \ {w} /\ failures' = failures + 1 /\ failures < MaxFailures
    BY <1>11 DEF Crash
  <2>3. Unset \in [Keys -> Held] /\ <<>> \in Seq(Known) /\ Len(<<>>) <= BufCap
    BY CapAssumption DEF Unset, Held
  <2>4. WorkerType'
    BY <1>0, <1>2, <2>2, <2>3 DEF WorkerType
  <2>5. HistoryType'
    BY <1>0, <2>2, CapAssumption DEF HistoryType
  <2> QED
    BY <1>3, <2>1, <2>4, <2>5 DEF TypeInv
<1> QED
  BY <1>6, <1>7, <1>8, <1>9, <1>10, <1>11 DEF Worker

LEMMA TypeStep == TypeInv /\ [Next]_vars => TypeInv'
<1> SUFFICES ASSUME TypeInv, [Next]_vars PROVE TypeInv'
  OBVIOUS
<1>1. CASE Next
  BY <1>1, TypeEnvironment, TypeSender, TypeWorker DEF Next
<1>2. CASE UNCHANGED vars
  <2>1. UNCHANGED <<zk, zkVars, senderVars, workerVars, failures, mixed, clean>>
    BY <1>2 DEF vars, zkVars
  <2>2. ZkType' /\ HistoryType'
    BY <2>1 DEF TypeInv, ZkType, HistoryType, zkVars
  <2> QED
    BY <2>1, <2>2, SenderStays, WorkerStays DEF TypeInv
<1> QED
  BY <1>1, <1>2

LEMMA TypeInvImpliesTypeOK == TypeInv => TypeOK
<1> SUFFICES ASSUME TypeInv PROVE TypeOK
  OBVIOUS
<1>1. Known \subseteq Tokens
  BY KnownIsTokens
<1>2. Seq(Known) \subseteq Seq(Tokens)
  BY <1>1, SeqMonotonic
<1>3. Seq(Workers \X Known) \subseteq Seq(Workers \X Tokens)
  <2>1. Workers \X Known \subseteq Workers \X Tokens
    BY <1>1
  <2> QED
    BY <2>1, SeqMonotonic
<1>4. Held \subseteq Values
  <2>1. ASSUME NEW t \in Known, t[1] = "value" PROVE t \in Values
    <3>1. t[2] \in Keys /\ t[3] \in Versions /\ t = ValueToken(t[2], t[3])
      BY <2>1, TokenCases DEF Sep, End, KeyToken
    <3> QED
      BY <3>1 DEF Values
  <2> QED
    BY <2>1 DEF Held, Values
<1>5. conf \in [Workers -> [Keys -> Values]]
  BY <1>4 DEF TypeInv, WorkerType
<1> QED
  BY <1>2, <1>3, <1>5 DEF TypeOK, TypeInv, ZkType, SenderType, WorkerType, HistoryType

\* Every variable keeps its type; that the pipes and the buffers stay within
\* their capacity is part of it, as a chunk that does not fit is dropped.
THEOREM TypeCorrect == Spec => []TypeOK
<1>1. TypeInv /\ [Next]_vars => TypeInv'
  BY TypeStep
<1> QED
  BY <1>1, TypeInit, TypeInvImpliesTypeOK, PTL DEF Spec

-----------------------------------------------------------------------------
(* No change is missed.                                                    *)

\* All that is read is on its way.
LEMMA AllPending ==
  ASSUME NEW t \in Threads, todo'[t] = KeyOrder, NEW k \in Keys
  PROVE  Pending(k)'
<1>1. \E i \in DOMAIN KeyOrder : KeyOrder[i] = k
  BY KeyOrderAssumption
<1> QED
  BY <1>1 DEF Pending

\* What is on its way stays so until it is read.
LEMMA PendingStep ==
  ASSUME TypeInv, [Next]_vars, ~Ends, ~Close, NEW k \in Keys, Pending(k),
         \A t \in Threads : GetOK(t) \/ GetFails(t) => k # Head(todo[t])
  PROVE  Pending(k)'
<1>0. /\ todo \in [Threads -> Seq(Keys)] /\ events \in Seq(Keys)
      /\ "main" \in Threads /\ "completion" \in Threads /\ "heartbeat" \in Threads
  BY DEF TypeInv, ZkType, SenderType, Threads
<1>1. CASE UNCHANGED <<todo, events>>
  BY <1>1 DEF Pending
<1>2. ASSUME NEW j \in Keys, Change(j) PROVE Pending(k)'
  <2>1. todo' = todo /\ (events' = events \/ events' = Append(events, j))
    BY <1>2 DEF Change, senderVars
  <2>2. \A i \in DOMAIN events : i \in DOMAIN events' /\ events'[i] = events[i]
    <3>1. CASE events' = events
      BY <3>1
    <3>2. CASE events' = Append(events, j)
      <4> TAKE i \in DOMAIN events
      <4>1. i \in 1 .. Len(events) /\ Len(events) \in Nat
        BY <1>0
      <4>2. /\ Append(events, j) \in Seq(Keys)
            /\ Len(Append(events, j)) = Len(events) + 1
            /\ Append(events, j)[i] = events[i]
        BY <1>0, <4>1, AppendProperties
      <4>3. i \in 1 .. Len(Append(events, j))
        BY <4>1, <4>2
      <4> QED
        BY <3>2, <4>2, <4>3
    <3> QED
      BY <2>1, <3>1, <3>2
  <2> QED
    BY <2>1, <2>2 DEF Pending
<1>3. ASSUME NEW t \in Threads, Thread(t) PROVE Pending(k)'
  <2>1. CASE Write(t) \/ WriteFails(t)
    <3>1. UNCHANGED <<todo, events>>
      BY <2>1 DEF Write, WriteFails, zkVars
    <3> QED
      BY <1>1, <3>1
  <2>2. CASE GetOK(t) \/ GetFails(t)
    <3>1. todo[t] # <<>> /\ todo' = [todo EXCEPT ![t] = Tail(todo[t])] /\ events' = events
      BY <2>2 DEF GetOK, GetFails
    <3>2. Head(todo[t]) # k
      BY <2>2
    <3>3. todo[t] \in Seq(Keys)
      BY <1>0
    <3>4. /\ Head(todo[t]) = todo[t][1] /\ Len(todo[t]) \in Nat \ {0}
          /\ Tail(todo[t]) \in Seq(Keys) /\ Len(Tail(todo[t])) = Len(todo[t]) - 1
          /\ \A i \in 1 .. Len(todo[t]) - 1 : Tail(todo[t])[i] = todo[t][i + 1]
      BY <3>1, <3>3, HeadTail
    <3>5. CASE \E i \in DOMAIN events : events[i] = k
      BY <3>1, <3>5 DEF Pending
    <3>6. ASSUME NEW u \in Threads, NEW i \in DOMAIN todo[u], todo[u][i] = k PROVE Pending(k)'
      <4>1. CASE u # t
        <5>1. todo'[u] = todo[u]
          BY <1>0, <3>1, <4>1
        <5> QED
          BY <3>6, <5>1 DEF Pending
      <4>2. CASE u = t
        <5>1. i \in 1 .. Len(todo[t]) /\ i # 1
          BY <3>2, <3>3, <3>4, <3>6, <4>2
        <5>2. i - 1 \in 1 .. Len(todo[t]) - 1 /\ (i - 1) + 1 = i
          BY <3>4, <5>1
        <5>3. i - 1 \in DOMAIN Tail(todo[t]) /\ Tail(todo[t])[i - 1] = k
          BY <3>4, <3>6, <4>2, <5>2
        <5>4. todo'[t] = Tail(todo[t])
          BY <1>0, <3>1
        <5> QED
          BY <5>3, <5>4 DEF Pending
      <4> QED
        BY <4>1, <4>2
    <3> QED
      BY <3>5, <3>6 DEF Pending
  <2> QED
    BY <1>3, <2>1, <2>2 DEF Thread
<1>4. ASSUME NEW c \in Clients, Accept(c) PROVE Pending(k)'
  <2>1. todo'["main"] = KeyOrder
    BY <1>0, <1>4 DEF Accept
  <2> QED
    BY <1>0, <2>1, AllPending
<1>5. CASE Watcher
  <2>1. /\ events # <<>> /\ todo["completion"] = <<>>
        /\ todo' = [todo EXCEPT !["completion"] = <<Head(events)>>] /\ events' = Tail(events)
    BY <1>5 DEF Watcher, Idle
  <2>2. /\ Head(events) = events[1] /\ Len(events) \in Nat \ {0}
        /\ Tail(events) \in Seq(Keys) /\ Len(Tail(events)) = Len(events) - 1
        /\ \A i \in 1 .. Len(events) - 1 : Tail(events)[i] = events[i + 1]
    BY <1>0, <2>1, HeadTail
  <2>3. ASSUME NEW i \in DOMAIN events, events[i] = k PROVE Pending(k)'
    <3>1. i \in 1 .. Len(events)
      BY <1>0
    <3>2. CASE i = 1
      <4>1. todo'["completion"] = <<k>>
        BY <1>0, <2>1, <2>2, <2>3, <3>2
      <4>2. 1 \in DOMAIN <<k>> /\ <<k>>[1] = k
        OBVIOUS
      <4> QED
        BY <1>0, <4>1, <4>2 DEF Pending
    <3>3. CASE i # 1
      <4>1. i - 1 \in 1 .. Len(events) - 1 /\ (i - 1) + 1 = i
        BY <2>2, <3>1, <3>3
      <4>2. i - 1 \in DOMAIN Tail(events) /\ Tail(events)[i - 1] = k
        BY <2>2, <2>3, <4>1
      <4> QED
        BY <2>1, <4>2 DEF Pending
    <3> QED
      BY <3>2, <3>3
  <2>4. ASSUME NEW t \in Threads, NEW i \in DOMAIN todo[t], todo[t][i] = k PROVE Pending(k)'
    <3>1. t # "completion"
      BY <2>1, <2>4
    <3>2. todo'[t] = todo[t]
      BY <1>0, <2>1, <3>1
    <3> QED
      BY <2>4, <3>2 DEF Pending
  <2> QED
    BY <2>3, <2>4 DEF Pending
<1>6. CASE Reopen
  <2>1. todo'["heartbeat"] = KeyOrder
    BY <1>0, <1>6 DEF Reopen
  <2> QED
    BY <1>0, <2>1, AllPending
<1>7. CASE Expire \/ Answer \/ \E c \in Clients : AcceptEarly(c)
  <2>1. UNCHANGED <<todo, events>>
    BY <1>7 DEF Expire, Answer, AcceptEarly, zkVars, senderVars
  <2> QED
    BY <1>1, <2>1
<1>8. ASSUME NEW w \in Workers, Worker(w) PROVE Pending(k)'
  <2>1. UNCHANGED <<todo, events>>
    BY <1>8 DEF Worker, StartTimeout, Ping, Read, Parse, Command, Crash, Respawn, zkVars,
                senderVars
  <2> QED
    BY <1>1, <2>1
<1>9. CASE UNCHANGED vars
  BY <1>1, <1>9 DEF vars, zkVars, senderVars
<1> QED
  BY <1>2, <1>3, <1>4, <1>5, <1>6, <1>7, <1>8, <1>9 DEF Next, Environment, Sender, Ends

\* A watch stays until its key changes, which puts an event on its way.
LEMMA WatchStep ==
  ASSUME TypeInv, [Next]_vars, ~Ends, ~Expire, NEW k \in Keys, k \in watch, session = "ok"
  PROVE  \/ Pending(k)'
         \/ /\ k \in watch' /\ session' = "ok" /\ zk'[k] = zk[k]
            /\ seen[k] = zk[k] => seen'[k] = zk'[k]
<1>0. events \in Seq(Keys) /\ zk \in [Keys -> 0 .. changes] /\ seen \in [Keys -> 0 .. changes]
  BY DEF TypeInv, ZkType
<1>1. CASE UNCHANGED <<watch, session, zk, seen>>
  BY <1>1
<1>2. ASSUME NEW j \in Keys, Change(j) PROVE Pending(k)' \/ (k \in watch' /\ zk'[k] = zk[k] /\ UNCHANGED <<session, seen>>)
  <2>1. UNCHANGED <<session, seen>> /\ zk' = [zk EXCEPT ![j] = @ + 1]
    BY <1>2 DEF Change
  <2>2. CASE j = k
    <3>1. events' = Append(events, k)
      BY <1>2, <2>2 DEF Change
    <3>2. Len(events) + 1 \in DOMAIN events' /\ events'[Len(events) + 1] = k
      BY <1>0, <3>1
    <3> QED
      BY <3>2 DEF Pending
  <2>3. CASE j # k
    <3>1. k \in watch'
      BY <1>2, <2>3 DEF Change
    <3>2. zk'[k] = zk[k]
      BY <1>0, <2>1, <2>3
    <3> QED
      BY <2>1, <3>1, <3>2
  <2> QED
    BY <2>2, <2>3
<1>3. ASSUME NEW t \in Threads, Thread(t)
      PROVE  k \in watch' /\ UNCHANGED <<session, zk>> /\ (seen[k] = zk[k] => seen'[k] = zk[k])
  <2>1. CASE GetOK(t)
    <3>1. /\ watch' = watch \cup {Head(todo[t])} /\ UNCHANGED <<session, zk>>
          /\ seen' = [seen EXCEPT ![Head(todo[t])] = zk[Head(todo[t])]]
      BY <2>1 DEF GetOK
    <3> QED
      BY <1>0, <3>1
  <2>2. CASE GetFails(t) \/ Write(t) \/ WriteFails(t)
    BY <2>2 DEF GetFails, Write, WriteFails, zkVars
  <2> QED
    BY <1>3, <2>1, <2>2 DEF Thread
<1>4. CASE Answer \/ Watcher \/ \E c \in Clients : Accept(c) \/ AcceptEarly(c)
  <2>1. UNCHANGED <<watch, session, zk, seen>>
    BY <1>4 DEF Answer, Watcher, Accept, AcceptEarly, zkVars
  <2> QED
    BY <1>1, <2>1
<1>5. ~Close /\ ~Reopen
  BY DEF Close, Reopen
<1>6. ASSUME NEW w \in Workers, Worker(w) PROVE UNCHANGED <<watch, session, zk, seen>>
  BY <1>6 DEF Worker, StartTimeout, Ping, Read, Parse, Command, Crash, Respawn, zkVars
<1>7. CASE UNCHANGED vars
  BY <1>1, <1>7 DEF vars, zkVars
<1> QED
  BY <1>1, <1>2, <1>3, <1>4, <1>5, <1>6, <1>7 DEF Next, Environment, Sender, Ends

LEMMA NoticedStep ==
  ASSUME TypeInv, Noticed, [Next]_vars
  PROVE  Noticed'
<1>0. /\ zk \in [Keys -> 0 .. changes] /\ seen \in [Keys -> 0 .. changes]
      /\ stale \subseteq Keys
      /\ todo \in [Threads -> Seq(Keys)] /\ "main" \in Threads /\ "heartbeat" \in Threads
  BY DEF TypeInv, ZkType, SenderType, Threads
<1> SUFFICES ASSUME NEW k \in Keys, session' = "ok"
             PROVE  k \in stale' \/ Pending(k)' \/ (k \in watch' /\ seen'[k] = zk'[k])
  BY DEF Noticed
<1>1. CASE Ends
  <2>1. todo'["main"] = KeyOrder
    BY <1>0, <1>1, EndsRestarts DEF Restarted
  <2> QED
    BY <1>0, <2>1, AllPending
<1>2. CASE Reopen
  <2>1. todo'["heartbeat"] = KeyOrder
    BY <1>0, <1>2 DEF Reopen
  <2> QED
    BY <1>0, <2>1, AllPending
<1>3. CASE ~Ends /\ ~Reopen
  <2>0. ~Expire /\ ~Close /\ session = "ok"
    <3>1. ~Expire /\ ~Close
      BY DEF Expire, Close
    <3>2. ASSUME NEW w \in Workers, Worker(w) PROVE session' = session
      BY <3>2 DEF Worker, StartTimeout, Ping, Read, Parse, Command, Crash, Respawn, zkVars
    <3>3. ASSUME NEW t \in Threads, Thread(t) PROVE session' = session
      BY <3>3 DEF Thread, GetOK, GetFails, Write, WriteFails, zkVars
    <3>4. ASSUME Answer \/ Watcher \/ \E c \in Clients : Accept(c) \/ AcceptEarly(c)
          PROVE  session' = session
      BY <3>4 DEF Accept, AcceptEarly, Answer, Watcher, zkVars
    <3>5. ASSUME NEW j \in Keys, Change(j) PROVE session' = session
      BY <3>5 DEF Change
    <3> QED
      BY <1>3, <3>1, <3>2, <3>3, <3>4, <3>5 DEF Next, Sender, Environment, Ends, vars, zkVars
  <2>1. CASE \E t \in Threads : GetOK(t) /\ k = Head(todo[t])
    <3>1. PICK t \in Threads : GetOK(t) /\ k = Head(todo[t])
      BY <2>1
    <3>2. k \in watch' /\ zk' = zk /\ seen' = [seen EXCEPT ![k] = zk[k]]
      BY <3>1 DEF GetOK
    <3> QED
      BY <1>0, <3>2
  <2>2. CASE \E t \in Threads : GetFails(t) /\ k = Head(todo[t])
    BY <2>2 DEF GetFails
  <2>3. CASE \A t \in Threads : GetOK(t) \/ GetFails(t) => k # Head(todo[t])
    <3>1. CASE Pending(k)
      BY <1>3, <2>0, <2>3, <3>1, PendingStep
    <3>2. CASE k \in watch /\ seen[k] = zk[k]
      BY <1>3, <2>0, <3>2, WatchStep
    <3>3. CASE k \in stale
      <4>1. CASE \E t \in Threads : GetOK(t)
        <5>1. PICK t \in Threads : GetOK(t)
          BY <4>1
        <5>2. k # Head(todo[t]) /\ stale' = stale \ {Head(todo[t])}
          BY <2>3, <5>1 DEF GetOK
        <5> QED
          BY <3>3, <5>2
      <4>2. CASE ~\E t \in Threads : GetOK(t)
        <5>1. stale \subseteq stale'
          <6>1. ASSUME NEW w \in Workers, Worker(w) PROVE stale' = stale
            BY <6>1 DEF Worker, StartTimeout, Ping, Read, Parse, Command, Crash, Respawn, zkVars
          <6>2. ASSUME NEW t \in Threads, Thread(t) PROVE stale \subseteq stale'
            BY <4>2, <6>2 DEF Thread, GetFails, Write, WriteFails, zkVars
          <6>3. ASSUME Sender PROVE stale \subseteq stale'
            BY <1>3, <2>0, <6>2, <6>3 DEF Sender, Accept, AcceptEarly, Answer, Watcher, Ends, zkVars
          <6>4. ASSUME Environment PROVE stale' = stale
            BY <2>0, <6>4 DEF Environment, Change
          <6> QED
            BY <6>1, <6>3, <6>4 DEF Next, vars, zkVars
        <5> QED
          BY <3>3, <5>1
      <4> QED
        BY <4>1, <4>2
    <3> QED
      BY <2>0, <3>1, <3>2, <3>3 DEF Noticed
  <2> QED
    BY <2>1, <2>2, <2>3
<1> QED
  BY <1>1, <1>2, <1>3

LEMMA NoticedInit == Init => Noticed
<1> SUFFICES ASSUME Init, NEW k \in Keys, session = "ok" PROVE Pending(k)
  BY DEF Noticed
<1>1. \E i \in DOMAIN KeyOrder : KeyOrder[i] = k
  BY KeyOrderAssumption
<1>2. "main" \in Threads /\ todo["main"] = KeyOrder
  BY DEF Init, Threads
<1> QED
  BY <1>1, <1>2 DEF Pending

\* While there is a session and the value the sender read last is not the
\* current one, the event of the watch that get_zk_value armed or a read is on
\* its way, or the last read failed and armed none: no change falls between two
\* reads, nor between a session and the next.
THEOREM MissesNoChange == Spec => []NoMissedChange
<1>1. Init => TypeInv /\ Noticed
  BY TypeInit, NoticedInit
<1>2. TypeInv /\ Noticed /\ [Next]_vars => (TypeInv /\ Noticed)'
  BY TypeStep, NoticedStep
<1>3. Noticed => NoMissedChange
  BY DEF Noticed, NoMissedChange, Pending
<1> QED
  BY <1>1, <1>2, <1>3, PTL DEF Spec

-----------------------------------------------------------------------------
(* What is left of a message for one worker.                               *)

\* The position of a worker in what is left of a message.
PlaceOf(w, n) == 4 * SlotOf(w) - (4 * N - n)

LEMMA ForIs ==
  ASSUME NEW w \in Workers, NEW o, Len(o) \in 0 .. 4 * N
  PROVE  /\ PlaceOf(w, Len(o)) \in Int /\ PlaceOf(w, Len(o)) <= Len(o)
         /\ PlaceOf(w, Len(o)) <= 0 => For(w, o) = <<>>
         /\ PlaceOf(w, Len(o)) \in 1 .. 4 => For(w, o) = [j \in 1 .. PlaceOf(w, Len(o)) |-> o[j][2]]
         /\ PlaceOf(w, Len(o)) >= 4 => For(w, o) = [j \in 1 .. 4 |-> o[PlaceOf(w, Len(o)) - 4 + j][2]]
<1> DEFINE last == 4 * SlotOf(w) - (4 * N - Len(o))
           before == IF last > 4 THEN last - 4 ELSE 0
<1>1. N \in Nat /\ SlotOf(w) \in 1 .. N
  BY SlotsProperties
<1>2. last \in Int /\ last <= Len(o)
  BY <1>1
<1>3. For(w, o) = IF last <= 0 THEN <<>> ELSE [j \in 1 .. last - before |-> o[before + j][2]]
  BY DEF For
<1>4. last = PlaceOf(w, Len(o))
  BY DEF PlaceOf
<1> HIDE DEF last
<1>5. last <= 0 => For(w, o) = <<>>
  BY <1>3
<1>6. ASSUME last \in 1 .. 4 PROVE For(w, o) = [j \in 1 .. last |-> o[j][2]]
  <2>1. before = 0 /\ last - before = last /\ ~(last <= 0)
    BY <1>2, <1>6
  <2>2. \A j \in 1 .. last : before + j = j
    BY <1>2, <2>1
  <2> HIDE DEF before
  <2> QED
    BY <1>3, <2>1, <2>2
<1>7. ASSUME last >= 4 PROVE For(w, o) = [j \in 1 .. 4 |-> o[last - 4 + j][2]]
  <2>1. before = last - 4 /\ last - before = 4 /\ ~(last <= 0)
    BY <1>2, <1>7
  <2> HIDE DEF before
  <2> QED
    BY <1>3, <2>1
<1> QED
  BY <1>2, <1>4, <1>5, <1>6, <1>7

LEMMA ForEmpty ==
  ASSUME NEW w \in Workers
  PROVE  For(w, <<>>) = <<>>
<1>1. N \in Nat /\ SlotOf(w) \in 1 .. N
  BY SlotsProperties
<1>2. Len(<<>>) \in 0 .. 4 * N /\ PlaceOf(w, Len(<<>>)) <= 0
  BY <1>1 DEF PlaceOf
<1> QED
  BY <1>2, ForIs

LEMMA ForWhole ==
  ASSUME ZkType, NEW k \in Keys, NEW v \in 0 .. zk[k], NEW w \in Workers
  PROVE  For(w, Rest(k, v, 4 * N)) = Message(k, v)
<1> DEFINE o == Rest(k, v, 4 * N)
           M == Message(k, v)
           i == SlotOf(w)
<1>1. N \in Nat /\ i \in 1 .. N
  BY SlotsProperties
<1>2. 4 * N \in 0 .. 4 * N
  BY <1>1
<1>3. Len(o) = 4 * N
  BY <1>2, RestProperties
<1>4. \A j \in 1 .. 4 * N :
        LET p == 4 * N - 4 * N + j
        IN  o[j] = <<Slots[(p + 3) \div 4], M[((p + 3) % 4) + 1]>>
  BY <1>2, RestProperties
<1>5. PlaceOf(w, Len(o)) = 4 * i
  BY <1>1, <1>3 DEF PlaceOf
<1> HIDE DEF o, M, i
<1>6. For(w, o) = [j \in 1 .. 4 |-> o[4 * i - 4 + j][2]]
  <2>1. 4 * i >= 4
    BY <1>1
  <2> QED
    BY <1>2, <1>3, <1>5, <2>1, ForIs
<1>7. \A j \in 1 .. 4 : o[4 * i - 4 + j][2] = M[j]
  <2> TAKE j \in 1 .. 4
  <2>1. 4 * i - 4 + j \in 1 .. 4 * N
    BY <1>1
  <2> DEFINE p == 4 * N - 4 * N + (4 * i - 4 + j)
  <2>2. o[4 * i - 4 + j] = <<Slots[(p + 3) \div 4], M[((p + 3) % 4) + 1]>>
    BY <1>4, <2>1
  <2>3. \A x \in Nat \ {0} : \A y \in 1 .. 4 : ((4 * x - 4 + y + 3) % 4) + 1 = y
    OBVIOUS
  <2>4. p = 4 * i - 4 + j
    BY <1>1
  <2>5. ((p + 3) % 4) + 1 = j
    BY <1>1, <2>3, <2>4
  <2> HIDE DEF p
  <2> QED
    BY <2>2, <2>5
<1>8. M \in Seq(Known) /\ Len(M) = 4
  BY MessageIsKnown DEF M
<1>9. M = [j \in 1 .. 4 |-> M[j]]
  BY <1>8
<1>10. For(w, o) = M
  BY <1>6, <1>7, <1>9
<1> QED
  BY <1>10 DEF o, M

LEMMA ForType ==
  ASSUME ZkType, NEW o, InMessage(o), NEW w \in Workers
  PROVE  For(w, o) \in Seq(Known)
<1>1. CASE o = <<>>
  <2>1. <<>> \in Seq(Known)
    OBVIOUS
  <2> QED
    BY <1>1, <2>1, ForEmpty
<1>2. CASE o # <<>>
  <2>1. PICK k \in Keys, n \in 1 .. 4 * N : \E v \in 0 .. zk[k] : o = Rest(k, v, n)
    BY <1>2 DEF InMessage
  <2>2. PICK v \in 0 .. zk[k] : o = Rest(k, v, n)
    BY <2>1
  <2>3. N \in Nat /\ n \in 0 .. 4 * N
    BY SlotsProperties
  <2>4. o \in Seq(Workers \X Known) /\ Len(o) = n
    BY <2>2, <2>3, RestProperties
  <2>5. \A j \in 1 .. n : o[j][2] \in Known
    BY <2>4
  <2> DEFINE L == PlaceOf(w, Len(o))
  <2>6. L \in Int /\ L <= n
    BY <2>3, <2>4, ForIs
  <2>7. CASE L <= 0
    <3>1. <<>> \in Seq(Known)
      OBVIOUS
    <3> QED
      BY <2>3, <2>4, <2>7, <3>1, ForIs
  <2>8. CASE L \in 1 .. 4
    <3>1. For(w, o) = [j \in 1 .. L |-> o[j][2]]
      BY <2>3, <2>4, <2>8, ForIs
    <3> HIDE DEF L
    <3>2. \A j \in 1 .. L : o[j][2] \in Known
      BY <2>3, <2>5, <2>6
    <3> QED
      BY <2>8, <3>1, <3>2
  <2>9. CASE L > 4
    <3>1. For(w, o) = [j \in 1 .. 4 |-> o[L - 4 + j][2]]
      <4>1. L >= 4
        BY <2>6, <2>9
      <4> QED
        BY <2>3, <2>4, <4>1, ForIs
    <3> HIDE DEF L
    <3>2. \A j \in 1 .. 4 : o[L - 4 + j][2] \in Known
      BY <2>3, <2>5, <2>6, <2>9
    <3> QED
      BY <3>1, <3>2
  <2> QED
    BY <2>6, <2>7, <2>8, <2>9
<1> QED
  BY <1>1, <1>2

\* A write takes the next token of the worker it writes to, and nothing from
\* the others.
LEMMA ForTail ==
  ASSUME ZkType, NEW o, InMessage(o), o # <<>>, NEW w \in Workers
  PROVE  /\ w = Head(o)[1] => For(w, o) = <<Head(o)[2]>> \o For(w, Tail(o))
         /\ w # Head(o)[1] => For(w, o) = For(w, Tail(o))
<1>1. PICK k \in Keys, n \in 1 .. 4 * N : \E v \in 0 .. zk[k] : o = Rest(k, v, n)
  BY DEF InMessage
<1>2. PICK v \in 0 .. zk[k] : o = Rest(k, v, n)
  BY <1>1
<1>3. N \in Nat /\ n \in 0 .. 4 * N /\ SlotOf(w) \in 1 .. N /\ Slots[SlotOf(w)] = w
  BY SlotsProperties
<1>4. o \in Seq(Workers \X Known) /\ Len(o) = n
  BY <1>2, <1>3, RestProperties
<1> DEFINE p == 4 * N - n + 1
           i == (p + 3) \div 4
           q == Tail(o)
           L == PlaceOf(w, n)
<1>5. o[1] = <<Slots[i], Message(k, v)[((p + 3) % 4) + 1]>>
  <2>1. 1 \in 1 .. n
    BY <1>3
  <2> QED
    BY <1>2, <1>3, <2>1, RestProperties
<1>6. Head(o) = o[1] /\ q \in Seq(Workers \X Known) /\ Len(q) = n - 1
      /\ \A j \in 1 .. n - 1 : q[j] = o[j + 1]
  BY <1>4, HeadTail
<1>7. Head(o)[1] = Slots[i]
  <2> HIDE DEF i, p
  <2> QED
    BY <1>5, <1>6
<1>8. i \in 1 .. N /\ 4 * i - (4 * N - n) \in 1 .. 4
  <2>1. \A x \in Nat : 4 * ((x + 4) \div 4) - x \in 1 .. 4
    OBVIOUS
  <2>2. 4 * N - n \in Nat /\ p + 3 = (4 * N - n) + 4
    BY <1>3
  <2>3. 4 * i - (4 * N - n) \in 1 .. 4
    BY <2>1, <2>2
  <2>4. i \in Int
    BY <2>2
  <2> HIDE DEF i, p
  <2> QED
    BY <1>3, <2>3, <2>4
<1>9. w = Head(o)[1] <=> SlotOf(w) = i
  <2> HIDE DEF i, p
  <2> QED
    BY <1>3, <1>7, <1>8, SlotsProperties
<1>10. L = 4 * SlotOf(w) - (4 * N - n) /\ L \in Int /\ L <= n /\ PlaceOf(w, n - 1) = L - 1
  BY <1>3 DEF PlaceOf
<1>11. Len(o) \in 0 .. 4 * N /\ Len(q) \in 0 .. 4 * N /\ n - 1 \in Nat
  BY <1>3, <1>4, <1>6
<1> HIDE DEF L, i, p, q
<1>12. CASE w = Head(o)[1]
  <2>1. L \in 1 .. 4
    BY <1>8, <1>9, <1>10, <1>12
  <2>2. For(w, o) = [j \in 1 .. L |-> o[j][2]]
    BY <1>4, <1>11, <2>1, ForIs DEF L
  <2>3. For(w, q) = [j \in 1 .. L - 1 |-> q[j][2]]
    <3>1. CASE L = 1
      <4>1. For(w, q) = <<>>
        <5>1. PlaceOf(w, Len(q)) <= 0
          BY <1>6, <1>10, <3>1
        <5> QED
          BY <1>11, <5>1, ForIs
      <4>2. 1 .. L - 1 = {}
        BY <3>1
      <4> QED
        BY <4>1, <4>2
    <3>2. CASE L # 1
      <4>1. PlaceOf(w, Len(q)) = L - 1 /\ L - 1 \in 1 .. 4
        BY <1>6, <1>10, <2>1, <3>2
      <4>2. PlaceOf(w, Len(q)) \in 1 .. 4
        BY <4>1
      <4>3. For(w, q) = [j \in 1 .. PlaceOf(w, Len(q)) |-> q[j][2]]
        BY <1>11, <4>2, ForIs
      <4> QED
        BY <4>1, <4>3
    <3> QED
      BY <3>1, <3>2
  <2>4. InMessage(q)
    BY TailInMessage DEF q
  <2>5. For(w, o) \in Seq(Known) /\ For(w, q) \in Seq(Known)
    BY <2>4, ForType
  <2>6. Len(For(w, o)) = L /\ Len(For(w, q)) = L - 1
    BY <2>1, <2>2, <2>3
  <2> DEFINE h == Head(o)[2]
             C == <<h>> \o For(w, q)
  <2>7. h \in Known
    BY <1>4, HeadTail
  <2>8. <<h>> \in Seq(Known) /\ Len(<<h>>) = 1 /\ <<h>>[1] = h
    BY <2>7
  <2>9. /\ C \in Seq(Known) /\ Len(C) = L
        /\ \A j \in 1 .. L : C[j] = IF j <= 1 THEN <<h>>[j] ELSE For(w, q)[j - 1]
    <3>1. 1 + (L - 1) = L
      BY <1>10
    <3> HIDE DEF h
    <3> QED
      BY <2>5, <2>6, <2>8, <3>1, ConcatProperties
  <2>10. \A j \in 1 .. L : C[j] = For(w, o)[j]
    <3> TAKE j \in 1 .. L
    <3>1. CASE j = 1
      <4>1. C[1] = h
        BY <2>1, <2>8, <2>9
      <4>2. For(w, o)[1] = o[1][2]
        BY <2>1, <2>2
      <4> QED
        BY <1>6, <3>1, <4>1, <4>2
    <3>2. CASE j # 1
      <4>1. j - 1 \in 1 .. L - 1 /\ j - 1 \in 1 .. n - 1 /\ (j - 1) + 1 = j /\ ~(j <= 1)
        BY <1>3, <1>10, <3>2
      <4>2. C[j] = For(w, q)[j - 1]
        BY <2>9, <4>1
      <4>3. For(w, q)[j - 1] = q[j - 1][2]
        BY <2>3, <4>1
      <4>4. q[j - 1] = o[j]
        BY <1>6, <4>1
      <4>5. For(w, o)[j] = o[j][2]
        BY <2>2
      <4> QED
        BY <4>2, <4>3, <4>4, <4>5
    <3> QED
      BY <3>1, <3>2
  <2>11. C = For(w, o)
    <3> HIDE DEF C
    <3> QED
      BY <2>5, <2>6, <2>9, <2>10, SeqEqual
  <2> QED
    BY <1>12, <2>11 DEF q
<1>13. CASE w # Head(o)[1]
  <2>1. L <= 0 \/ L >= 5
    BY <1>3, <1>8, <1>9, <1>10, <1>13
  <2>2. CASE L <= 0
    <3>1. For(w, o) = <<>>
      BY <1>4, <1>11, <2>2, ForIs DEF L
    <3>2. PlaceOf(w, Len(q)) <= 0
      BY <1>6, <1>10, <2>2
    <3>3. For(w, q) = <<>>
      BY <1>11, <3>2, ForIs
    <3> QED
      BY <1>13, <3>1, <3>3 DEF q
  <2>3. CASE L >= 5
    <3>1. For(w, o) = [j \in 1 .. 4 |-> o[L - 4 + j][2]]
      <4>1. PlaceOf(w, Len(o)) = L /\ L >= 4
        BY <1>4, <1>10, <2>3 DEF L
      <4> QED
        BY <1>11, <4>1, ForIs
    <3>2. For(w, q) = [j \in 1 .. 4 |-> q[L - 1 - 4 + j][2]]
      <4>1. PlaceOf(w, Len(q)) = L - 1 /\ L - 1 >= 4
        BY <1>6, <1>10, <2>3
      <4> QED
        BY <1>11, <4>1, ForIs
    <3>3. \A j \in 1 .. 4 : q[L - 1 - 4 + j] = o[L - 4 + j]
      <4> TAKE j \in 1 .. 4
      <4>1. L - 1 - 4 + j \in 1 .. n - 1 /\ (L - 1 - 4 + j) + 1 = L - 4 + j
        BY <1>3, <1>10, <2>3
      <4> QED
        BY <1>6, <4>1
    <3> QED
      BY <1>13, <3>1, <3>2, <3>3 DEF q
  <2> QED
    BY <2>1, <2>2, <2>3
<1> QED
  BY <1>12, <1>13

-----------------------------------------------------------------------------
(* One message at a time.                                                  *)

LEMMA FlightIs ==
  ASSUME NEW f, NEW t \in Threads, \A u \in Threads : u # t => f[u] = <<>>
  PROVE  Flight(f) = f[t]
<1>1. CASE f[t] = <<>>
  BY <1>1 DEF Flight
<1>2. CASE f[t] # <<>>
  <2> DEFINE c == CHOOSE u \in Threads : f[u] # <<>>
  <2>1. c \in Threads /\ f[c] # <<>>
    BY <1>2
  <2>2. c = t
    BY <2>1
  <2> QED
    BY <1>2, <2>2 DEF Flight
<1> QED
  BY <1>1, <1>2

LEMMA FlightIsMessage ==
  ASSUME SenderType
  PROVE  InMessage(Flight(out))
<1>1. CASE \E t \in Threads : out[t] # <<>>
  <2> DEFINE c == CHOOSE u \in Threads : out[u] # <<>>
  <2>1. c \in Threads
    BY <1>1
  <2>2. Flight(out) = out[c]
    BY <1>1 DEF Flight
  <2> HIDE DEF c
  <2> QED
    BY <2>1, <2>2 DEF SenderType
<1>2. CASE ~\E t \in Threads : out[t] # <<>>
  BY <1>2 DEF Flight, InMessage
<1> QED
  BY <1>1, <1>2

LEMMA OneWriterStep ==
  ASSUME TypeInv, OneWriter, [Next]_vars
  PROVE  OneWriter'
<1> SUFFICES ASSUME mixed' # Workers \/ clean' # {} PROVE OneMessage(out')
  BY DEF OneWriter
<1>0. /\ out \in [Threads -> Seq(Workers \X Known)] /\ <<>> \in Seq(Keys)
      /\ mixed \subseteq Workers /\ clean \subseteq Workers
  BY DEF TypeInv, SenderType, HistoryType
<1>1. CASE UNCHANGED <<out, mixed>> /\ clean' \subseteq clean
  BY <1>1 DEF OneWriter
<1>2. ASSUME NEW t \in Threads, GetOK(t) PROVE OneMessage(out')
  <2>1. ~Writing(t)
    BY <1>2 DEF GetOK
  <2>2. \A u \in Threads : u # t => out[u] = <<>>
    BY <2>1 DEF Writing
  <2>3. \A u \in Threads : u # t => out'[u] = <<>>
    <3>1. out' = [out EXCEPT ![t] = WritesFor(Slots, Head(todo[t]), zk[Head(todo[t])])]
      BY <1>2 DEF GetOK
    <3> QED
      BY <1>0, <2>2, <3>1
  <2> QED
    BY <2>3 DEF OneMessage
<1>3. ASSUME NEW t \in Threads, Write(t) \/ WriteFails(t) PROVE OneMessage(out')
  <2>1. out' = [out EXCEPT ![t] = Tail(out[t])] /\ out[t] # <<>> /\ clean' \subseteq clean
    BY <1>3 DEF Write, WriteFails
  <2>2. OneMessage(out)
    <3>1. CASE Write(t)
      BY <3>1 DEF Write, OneWriter
    <3>2. CASE WriteFails(t)
      <4>1. Head(out[t])[1] \in Workers
        BY <1>0, <2>1, HeadTail
      <4>2. mixed' = mixed \cup {Head(out[t])[1]}
        BY <3>2 DEF WriteFails
      <4> QED
        BY <1>0, <2>1, <4>1, <4>2 DEF OneWriter
    <3> QED
      BY <1>3, <3>1, <3>2
  <2>3. \A u \in Threads : out'[u] # <<>> => out[u] # <<>>
    BY <1>0, <2>1
  <2> QED
    BY <2>2, <2>3 DEF OneMessage
<1>4. ASSUME NEW c \in Clients, Accept(c) PROVE OneMessage(out')
  <2>1. out' = out /\ mixed' = mixed /\ clean' = clean \cup {u \in Workers : AtRest(u)}
    BY <1>4 DEF Accept
  <2>2. CASE \E u \in Workers : AtRest(u)
    BY <2>1, <2>2 DEF AtRest, Idle, OneMessage
  <2>3. CASE ~\E u \in Workers : AtRest(u)
    BY <1>1, <2>1, <2>3
  <2> QED
    BY <2>2, <2>3
<1>5. CASE Ends
  <2>1. out' = [t \in Threads |-> <<>>]
    BY <1>5, EndsRestarts DEF Restarted
  <2> QED
    BY <2>1 DEF OneMessage
<1>6. CASE \/ Environment \/ Answer \/ Watcher \/ Close \/ Reopen
           \/ (\E c \in Clients : AcceptEarly(c)) \/ \E t \in Threads : GetFails(t)
  <2>1. UNCHANGED <<out, mixed>> /\ clean' \subseteq clean
    BY <1>6 DEF Environment, Change, Expire, Answer, Watcher, Close, Reopen, AcceptEarly, GetFails,
                senderVars
  <2> QED
    BY <1>1, <2>1
<1>7. ASSUME NEW w \in Workers, Worker(w) PROVE OneMessage(out')
  <2>1. out' = out /\ clean' \subseteq clean /\ (mixed' = mixed \/ mixed' = mixed \cup {w})
    BY <1>7 DEF Worker, StartTimeout, Ping, Read, Parse, Command, Crash, Respawn, senderVars
  <2> QED
    BY <1>0, <2>1 DEF OneWriter
<1>8. CASE UNCHANGED vars
  BY <1>1, <1>8 DEF vars, senderVars
<1> QED
  BY <1>2, <1>3, <1>4, <1>5, <1>6, <1>7, <1>8 DEF Next, Sender, Thread, Ends

-----------------------------------------------------------------------------
(* The streams.                                                            *)

LEMMA StreamType ==
  ASSUME TypeInv, NEW w \in Workers
  PROVE  /\ buf[w] \in Seq(Known) /\ pipe[w] \in Seq(Known)
         /\ For(w, Flight(out)) \in Seq(Known)
         /\ Stream(w) \in Seq(Known)
         /\ Stream(w) = buf[w] \o (pipe[w] \o For(w, Flight(out)))
<1>1. buf[w] \in Seq(Known) /\ pipe[w] \in Seq(Known)
  BY DEF TypeInv, WorkerType
<1>2. For(w, Flight(out)) \in Seq(Known)
  BY FlightIsMessage, ForType DEF TypeInv
<1>3. buf[w] \o pipe[w] \in Seq(Known)
  BY <1>1
<1>4. Stream(w) \in Seq(Known)
  BY <1>2, <1>3 DEF Stream
<1>5. Stream(w) = buf[w] \o (pipe[w] \o For(w, Flight(out)))
  <2> DEFINE a == buf[w]
             b == pipe[w]
             c == For(w, Flight(out))
  <2>1. Stream(w) = (a \o b) \o c
    BY DEF Stream
  <2>2. a \in Seq(Known) /\ b \in Seq(Known) /\ c \in Seq(Known)
    BY <1>1, <1>2
  <2> HIDE DEF a, b, c
  <2>3. (a \o b) \o c = a \o (b \o c)
    BY <2>2, SMT
  <2> QED
    BY <2>1, <2>3 DEF a, b, c
<1> QED
  BY <1>1, <1>2, <1>4, <1>5

LEMMA StreamStays ==
  ASSUME UNCHANGED <<buf, pipe, out>>, NEW w \in Workers
  PROVE  Stream(w)' = Stream(w)
BY DEF Stream

\* A write moves a token into a pipe; one that fails harms no other stream.
LEMMA StreamWrite ==
  ASSUME TypeInv, OneMessage(out), NEW t \in Threads, NEW w \in Workers,
         Write(t) \/ (WriteFails(t) /\ w # Head(out[t])[1])
  PROVE  Stream(w)' = Stream(w)
<1> DEFINE o == out[t]
           x == Head(o)[2]
           F == For(w, Tail(o))
<1>1. /\ out \in [Threads -> Seq(Workers \X Known)] /\ pipe \in [Workers -> Seq(Known)]
      /\ InMessage(o) /\ ZkType
  BY DEF TypeInv, SenderType, WorkerType
<1>2. /\ o # <<>> /\ out' = [out EXCEPT ![t] = Tail(o)] /\ buf' = buf
      /\ \/ pipe' = [pipe EXCEPT ![Head(o)[1]] = Append(pipe[Head(o)[1]], x)]
         \/ /\ w # Head(o)[1]
            /\ \/ pipe' = pipe
               \/ pipe' = [pipe EXCEPT ![Head(o)[1]] = Append(@, PartToken(x[2]))]
  BY DEF Write, WriteFails
<1>3. \A u \in Threads : u # t => out[u] = <<>>
  BY <1>2 DEF OneMessage
<1>4. Flight(out) = o
  BY <1>3, FlightIs
<1>5. Flight(out') = Tail(o)
  <2>1. \A u \in Threads : u # t => out'[u] = <<>>
    BY <1>1, <1>2, <1>3
  <2>2. out'[t] = Tail(o)
    BY <1>1, <1>2
  <2> QED
    BY <2>1, <2>2, FlightIs
<1>6. InMessage(Tail(o))
  BY <1>1, <1>2, TailInMessage
<1>7. F \in Seq(Known) /\ buf[w] \in Seq(Known) /\ pipe[w] \in Seq(Known)
  BY <1>1, <1>6, ForType DEF TypeInv, WorkerType
<1>8. x \in Known /\ Head(o)[1] \in Workers
  <2>1. Head(o) \in Workers \X Known
    BY <1>1, <1>2, HeadTail
  <2> QED
    BY <2>1
<1>9. Stream(w) = buf[w] \o pipe[w] \o For(w, o)
  BY <1>4 DEF Stream
<1>10. Stream(w)' = buf[w] \o pipe'[w] \o F
  BY <1>2, <1>5 DEF Stream
<1>11. CASE w = Head(o)[1]
  <2>1. For(w, o) = <<x>> \o F
    BY <1>1, <1>2, <1>11, ForTail
  <2>2. pipe'[w] = pipe[w] \o <<x>>
    <3>1. pipe'[w] = Append(pipe[w], x)
      BY <1>1, <1>2, <1>11
    <3> QED
      BY <1>7, <1>8, <3>1, AppendIsConcat
  <2>3. <<x>> \in Seq(Known) /\ buf[w] \o pipe[w] \in Seq(Known)
    BY <1>7, <1>8
  <2> HIDE DEF x, F, o
  <2> DEFINE a == buf[w]
             b == pipe[w]
             c == <<x>>
  <2>4. a \in Seq(Known) /\ b \in Seq(Known) /\ c \in Seq(Known) /\ F \in Seq(Known)
    BY <1>7, <2>3
  <2>5. (a \o b) \o (c \o F) = (a \o (b \o c)) \o F
    <3> HIDE DEF a, b, c
    <3> QED
      BY <2>4
  <2> QED
    BY <1>9, <1>10, <2>1, <2>2, <2>5
<1>12. CASE w # Head(o)[1]
  <2>1. For(w, o) = F
    BY <1>1, <1>2, <1>12, ForTail
  <2>2. pipe'[w] = pipe[w]
    BY <1>1, <1>2, <1>12
  <2> QED
    BY <1>9, <1>10, <2>1, <2>2
<1> QED
  BY <1>11, <1>12

\* A read of a key appends its message.
LEMMA StreamGet ==
  ASSUME TypeInv, NEW t \in Threads, GetOK(t), ~Writing(t), NEW w \in Workers
  PROVE  /\ Head(todo[t]) \in Keys
         /\ Stream(w)' = Stream(w) \o Message(Head(todo[t]), zk[Head(todo[t])])
<1> DEFINE k == Head(todo[t])
           W == WritesFor(Slots, k, zk[k])
<1>1. /\ out \in [Threads -> Seq(Workers \X Known)] /\ todo[t] \in Seq(Keys) /\ ZkType
  BY DEF TypeInv, SenderType
<1>2. todo[t] # <<>> /\ out[t] = <<>> /\ out' = [out EXCEPT ![t] = W] /\ buf' = buf /\ pipe' = pipe
  BY DEF GetOK, workerVars
<1>3. k \in Keys
  BY <1>1, <1>2, HeadTail
<1>4. zk[k] \in 0 .. zk[k]
  BY <1>1, <1>3 DEF ZkType
<1> HIDE DEF k
<1>5. \A u \in Threads : out[u] = <<>>
  BY <1>2 DEF Writing
<1>6. Flight(out) = <<>>
  BY <1>5 DEF Flight
<1>7. Flight(out') = W
  <2>1. out'[t] = W /\ \A u \in Threads : u # t => out'[u] = <<>>
    BY <1>1, <1>2, <1>5
  <2> QED
    BY <2>1, FlightIs
<1>8. For(w, W) = Message(k, zk[k])
  BY <1>1, <1>3, <1>4, WritesInMessage, ForWhole
<1>9. buf[w] \o pipe[w] \in Seq(Known)
  BY DEF TypeInv, WorkerType
<1>10. Stream(w) = buf[w] \o pipe[w]
  BY <1>6, <1>9, ForEmpty, ConcatEmptySeq DEF Stream
<1>11. Stream(w)' = (buf[w] \o pipe[w]) \o Message(k, zk[k])
  BY <1>2, <1>7, <1>8 DEF Stream
<1> QED
  BY <1>3, <1>10, <1>11 DEF k

\* A read moves tokens from the pipe to the buffer, if they fit.
LEMMA StreamRead ==
  ASSUME TypeInv, NEW u \in Workers, Read(u), NEW w \in Workers, w \notin mixed' \/ w \in clean'
  PROVE  Stream(w)' = Stream(w)
<1>1. pipe \in [Workers -> Seq(Known)] /\ buf \in [Workers -> Seq(Known)] /\ WorkerType
  BY DEF TypeInv, WorkerType
<1>2. out' = out
  BY DEF Read, senderVars
<1>3. PICK n \in 1 .. Len(pipe[u]) :
           /\ pipe' = [pipe EXCEPT ![u] = SubSeq(pipe[u], n + 1, Len(pipe[u]))]
           /\ \/ /\ Len(buf[u]) + n <= BufCap
                 /\ buf' = [buf EXCEPT ![u] = buf[u] \o SubSeq(pipe[u], 1, n)]
                 /\ UNCHANGED <<mixed, clean>>
              \/ mixed' = mixed \cup {u} /\ clean' = clean \ {u} /\ UNCHANGED buf
  BY <1>1, ReadTakes
<1>4. CASE w # u
  <2>1. pipe'[w] = pipe[w] /\ buf'[w] = buf[w]
    BY <1>1, <1>3, <1>4
  <2> QED
    BY <1>2, <2>1 DEF Stream
<1>5. CASE w = u
  <2> DEFINE a == SubSeq(pipe[w], 1, n)
             b == SubSeq(pipe[w], n + 1, Len(pipe[w]))
  <2>1. pipe' = [pipe EXCEPT ![w] = b] /\ buf' = [buf EXCEPT ![w] = buf[w] \o a]
    <3>1. ~(mixed' = mixed \cup {u} /\ clean' = clean \ {u})
      BY <1>5
    <3> QED
      BY <1>3, <1>5, <3>1
  <2>2. pipe[w] \in Seq(Known) /\ buf[w] \in Seq(Known) /\ Len(pipe[w]) \in Nat
    BY <1>1
  <2>3. a \o b = pipe[w]
    <3>1. a \o b = SubSeq(pipe[w], 1, Len(pipe[w]))
      <4>1. 1 \in 1 .. Len(pipe[w]) + 1 /\ n \in 1 - 1 .. Len(pipe[w])
            /\ Len(pipe[w]) \in n .. Len(pipe[w])
        BY <1>5, <2>2
      <4> QED
        BY <2>2, <4>1, ConcatAdjacentSubSeq
    <3> QED
      BY <2>2, <3>1, SubSeqFull
  <2>4. a \in Seq(Known) /\ b \in Seq(Known)
    <3>1. \A i \in 1 .. n : pipe[w][i] \in Known
      BY <1>5, <2>2
    <3>2. \A i \in n + 1 .. Len(pipe[w]) : pipe[w][i] \in Known
      BY <1>5, <2>2
    <3> QED
      BY <1>5, <2>2, <3>1, <3>2, SubSeqProperties
  <2> HIDE DEF a, b
  <2>5. pipe'[w] = b /\ buf'[w] = buf[w] \o a
    BY <1>1, <2>1
  <2>6. (buf[w] \o a) \o b = buf[w] \o pipe[w]
    <3>1. (buf[w] \o a) \o b = buf[w] \o (a \o b)
      <4> DEFINE c == buf[w]
      <4>1. c \in Seq(Known)
        BY <2>2
      <4> HIDE DEF c
      <4>2. (c \o a) \o b = c \o (a \o b)
        BY <2>4, <4>1
      <4> QED
        BY <4>2 DEF c
    <3> QED
      BY <2>3, <3>1
  <2> QED
    BY <1>2, <2>5, <2>6 DEF Stream
<1> QED
  BY <1>4, <1>5

\* A parse and a crash take the buffer from the front.
LEMMA StreamCut ==
  ASSUME TypeInv, NEW u \in Workers, UNCHANGED <<pipe, out>>, buf' = [buf EXCEPT ![u] = <<>>],
         NEW w \in Workers
  PROVE  /\ w = u => Stream(w)' \in Seq(Known) /\ Stream(w) = buf[w] \o Stream(w)'
         /\ w # u => Stream(w)' = Stream(w)
<1>1. buf \in [Workers -> Seq(Known)] /\ pipe[w] \in Seq(Known)
  BY DEF TypeInv, WorkerType
<1>2. CASE w # u
  BY <1>1, <1>2 DEF Stream
<1>3. CASE w = u
  <2>1. buf'[w] = <<>>
    BY <1>1, <1>3
  <2>2. <<>> \o pipe[w] = pipe[w]
    BY <1>1, ConcatEmptySeq
  <2>3. Stream(w)' = pipe[w] \o For(w, Flight(out))
    BY <2>1, <2>2 DEF Stream
  <2>4. pipe[w] \o For(w, Flight(out)) \in Seq(Known)
    <3>1. For(w, Flight(out)) \in Seq(Known)
      BY StreamType
    <3> QED
      BY <1>1, <3>1
  <2> QED
    BY <1>3, <2>3, <2>4, StreamType
<1> QED
  BY <1>2, <1>3

-----------------------------------------------------------------------------
(* Aligned and ordered streams.                                            *)

LEMMA ConcatIndex ==
  ASSUME NEW A, NEW a \in Seq(A), NEW b \in Seq(A)
  PROVE  /\ a \o b \in Seq(A) /\ Len(a \o b) = Len(a) + Len(b)
         /\ Len(a) \in Nat /\ Len(b) \in Nat
         /\ \A i \in 1 .. Len(a) : (a \o b)[i] = a[i]
         /\ \A i \in 1 .. Len(b) : (a \o b)[Len(a) + i] = b[i]
OBVIOUS

LEMMA MessageIndex ==
  ASSUME NEW k, NEW v
  PROVE  /\ Message(k, v)[1] = KeyToken(k) /\ Message(k, v)[2] = Sep
         /\ Message(k, v)[3] = ValueToken(k, v) /\ Message(k, v)[4] = End
BY DEF Message

\* What a stream becomes when a message is appended.
LEMMA GrownIndex ==
  ASSUME ZkType, NEW s \in Seq(Known), NEW k \in Keys
  PROVE  LET C == s \o Message(k, zk[k])
         IN  /\ C \in Seq(Known) /\ Len(C) = Len(s) + 4 /\ Len(s) \in Nat
             /\ \A i \in 1 .. Len(s) : C[i] = s[i]
             /\ C[Len(s) + 1] = KeyToken(k) /\ C[Len(s) + 2] = Sep
             /\ C[Len(s) + 3] = ValueToken(k, zk[k]) /\ C[Len(s) + 4] = End
<1> DEFINE M == Message(k, zk[k])
<1>1. zk[k] \in 0 .. zk[k]
  BY DEF ZkType
<1>2. M \in Seq(Known) /\ Len(M) = 4
  BY <1>1, MessageIsKnown
<1>3. M[1] = KeyToken(k) /\ M[2] = Sep /\ M[3] = ValueToken(k, zk[k]) /\ M[4] = End
  BY MessageIndex
<1> HIDE DEF M
<1> DEFINE C == s \o M
<1>4. /\ C \in Seq(Known) /\ Len(C) = Len(s) + 4 /\ Len(s) \in Nat
      /\ \A i \in 1 .. Len(s) : C[i] = s[i]
      /\ \A i \in 1 .. 4 : C[Len(s) + i] = M[i]
  <2> HIDE DEF C
  <2> QED
    BY <1>2, ConcatIndex DEF C
<1>5. C[Len(s) + 1] = M[1] /\ C[Len(s) + 2] = M[2] /\ C[Len(s) + 3] = M[3] /\ C[Len(s) + 4] = M[4]
  <2>1. 1 \in 1 .. 4 /\ 2 \in 1 .. 4 /\ 3 \in 1 .. 4 /\ 4 \in 1 .. 4
    OBVIOUS
  <2> HIDE DEF C
  <2> QED
    BY <1>4, <2>1
<1> HIDE DEF C
<1> QED
  BY <1>3, <1>4, <1>5 DEF C, M

LEMMA AlignedGrown ==
  ASSUME ZkType, NEW s \in Seq(Known), NEW k \in Keys, Aligned(s)
  PROVE  Aligned(s \o Message(k, zk[k]))
<1> DEFINE C == s \o Message(k, zk[k])
           L == Len(s)
<1>1. /\ Len(C) = L + 4 /\ L \in Nat
      /\ \A i \in 1 .. L : C[i] = s[i]
      /\ C[L + 1] = KeyToken(k) /\ C[L + 2] = Sep
      /\ C[L + 3] = ValueToken(k, zk[k]) /\ C[L + 4] = End
  BY GrownIndex
<1> HIDE DEF C
<1>2. /\ KeyToken(k)[1] = "key" /\ KeyToken(k)[2] = k /\ Sep[1] = "sep" /\ End[1] = "end"
      /\ ValueToken(k, zk[k])[1] = "value" /\ ValueToken(k, zk[k])[2] = k
  BY DEF KeyToken, Sep, End, ValueToken
<1>3. ASSUME NEW i \in 1 .. Len(C) - 1 PROVE Follows(C[i], C[i + 1])
  <2>1. CASE i < L
    <3>1. i \in 1 .. L /\ i + 1 \in 1 .. L /\ i \in 1 .. L - 1
      BY <1>1, <2>1
    <3> QED
      BY <1>1, <3>1 DEF Aligned
  <2>2. CASE i = L
    <3>1. C[i] = End
      BY <1>1, <2>2 DEF Aligned
    <3>2. C[i + 1] = KeyToken(k)
      BY <1>1, <2>2
    <3> QED
      BY <1>2, <3>1, <3>2 DEF Follows
  <2>3. CASE i = L + 1
    <3>1. C[i] = KeyToken(k) /\ C[i + 1] = Sep
      <4>1. i + 1 = L + 2
        BY <1>1, <2>3
      <4> QED
        BY <1>1, <2>3, <4>1
    <3> QED
      BY <1>2, <3>1 DEF Follows
  <2>4. CASE i = L + 2
    <3>1. C[i] = Sep /\ C[i + 1] = ValueToken(k, zk[k])
      <4>1. i + 1 = L + 3
        BY <1>1, <2>4
      <4> QED
        BY <1>1, <2>4, <4>1
    <3> QED
      BY <1>2, <3>1 DEF Follows
  <2>5. CASE i = L + 3
    <3>1. C[i] = ValueToken(k, zk[k]) /\ C[i + 1] = End
      <4>1. i + 1 = L + 4
        BY <1>1, <2>5
      <4> QED
        BY <1>1, <2>5, <4>1
    <3> QED
      BY <1>2, <3>1 DEF Follows
  <2> QED
    BY <1>1, <2>1, <2>2, <2>3, <2>4, <2>5
<1>4. ASSUME NEW i \in 1 .. Len(C) - 2, C[i][1] = "key" PROVE C[i + 2][2] = C[i][2]
  <2>1. CASE i <= L
    <3>1. i \in 1 .. L /\ s[i][1] = "key"
      BY <1>1, <1>4, <2>1
    <3>2. i # L
      BY <1>2, <3>1 DEF Aligned
    <3>3. i # L - 1
      <4>1. ASSUME i = L - 1 PROVE FALSE
        <5>1. i \in 1 .. L - 1 /\ i + 1 = L
          BY <1>1, <3>1, <4>1
        <5>2. s[L] = Sep
          BY <3>1, <5>1 DEF Aligned, Follows
        <5>3. s[L] = End
          BY <1>1, <3>1 DEF Aligned
        <5> QED
          BY <1>2, <5>2, <5>3
      <4> QED
        BY <4>1
    <3>4. i \in 1 .. L - 2 /\ i + 2 \in 1 .. L
      BY <1>1, <3>1, <3>2, <3>3
    <3>5. s[i + 2][2] = s[i][2]
      BY <3>1, <3>4 DEF Aligned
    <3> QED
      BY <1>1, <3>1, <3>4, <3>5
  <2>2. CASE i = L + 1
    <3>1. C[i] = KeyToken(k) /\ C[i + 2] = ValueToken(k, zk[k])
      <4>1. i + 2 = L + 3
        BY <1>1, <2>2
      <4> QED
        BY <1>1, <2>2, <4>1
    <3> QED
      BY <1>2, <3>1
  <2>3. CASE i = L + 2
    BY <1>1, <1>2, <1>4, <2>3
  <2> QED
    BY <1>1, <2>1, <2>2, <2>3
<1>5. C[Len(C)] = End
  BY <1>1
<1>6. Aligned(C)
  BY <1>3, <1>4, <1>5 DEF Aligned
<1> QED
  BY <1>6 DEF C

LEMMA AlignedCut ==
  ASSUME NEW a \in Seq(Known), NEW b \in Seq(Known), Aligned(a \o b)
  PROVE  Aligned(b)
<1> DEFINE s == a \o b
           n == Len(a)
<1>1. /\ Len(s) = n + Len(b) /\ n \in Nat /\ Len(b) \in Nat
      /\ \A i \in 1 .. Len(b) : s[n + i] = b[i]
  BY ConcatIndex
<1>2. Aligned(s)
  OBVIOUS
<1> HIDE DEF s, n
<1>3. ASSUME NEW i \in 1 .. Len(b) - 1 PROVE Follows(b[i], b[i + 1])
  <2>1. n + i \in 1 .. Len(s) - 1 /\ i \in 1 .. Len(b) /\ i + 1 \in 1 .. Len(b)
        /\ (n + i) + 1 = n + (i + 1)
    BY <1>1
  <2>2. Follows(s[n + i], s[(n + i) + 1])
    BY <1>2, <2>1 DEF Aligned
  <2> QED
    BY <1>1, <2>1, <2>2
<1>4. ASSUME NEW i \in 1 .. Len(b) - 2, b[i][1] = "key" PROVE b[i + 2][2] = b[i][2]
  <2>1. n + i \in 1 .. Len(s) - 2 /\ i \in 1 .. Len(b) /\ i + 2 \in 1 .. Len(b)
        /\ (n + i) + 2 = n + (i + 2)
    BY <1>1
  <2>2. s[n + i] = b[i] /\ s[n + (i + 2)] = b[i + 2]
    BY <1>1, <2>1
  <2>3. s[(n + i) + 2][2] = s[n + i][2]
    BY <1>2, <1>4, <2>1, <2>2 DEF Aligned
  <2> QED
    BY <2>1, <2>2, <2>3
<1>5. ASSUME Len(b) # 0 PROVE b[Len(b)] = End
  <2>1. Len(b) \in 1 .. Len(b) /\ Len(s) # 0
    BY <1>1, <1>5
  <2> QED
    BY <1>1, <1>2, <2>1 DEF Aligned
<1> QED
  BY <1>3, <1>4, <1>5 DEF Aligned

LEMMA OrderedGrown ==
  ASSUME ZkType, NEW s \in Seq(Known), NEW k \in Keys, Ordered(s)
  PROVE  Ordered(s \o Message(k, zk[k]))
<1> DEFINE C == s \o Message(k, zk[k])
           L == Len(s)
<1>1. /\ Len(C) = L + 4 /\ L \in Nat
      /\ \A i \in 1 .. L : C[i] = s[i]
      /\ C[L + 1] = KeyToken(k) /\ C[L + 2] = Sep
      /\ C[L + 3] = ValueToken(k, zk[k]) /\ C[L + 4] = End
  BY GrownIndex
<1> HIDE DEF C
<1>2. /\ KeyToken(k)[1] = "key" /\ Sep[1] = "sep" /\ End[1] = "end"
      /\ ValueToken(k, zk[k])[2] = k /\ ValueToken(k, zk[k])[3] = zk[k]
  BY DEF KeyToken, Sep, End, ValueToken
<1> SUFFICES ASSUME NEW i \in 1 .. Len(C), NEW j \in 1 .. Len(C), i < j,
                    C[i][1] = "value", C[j][1] = "value", C[i][2] = C[j][2]
             PROVE  C[i][3] <= C[j][3]
  BY DEF Ordered, C
<1>3. CASE j <= L
  <2>1. i \in 1 .. L /\ j \in 1 .. L
    BY <1>1, <1>3
  <2>2. C[i] = s[i] /\ C[j] = s[j]
    BY <1>1, <2>1
  <2> QED
    BY <2>1, <2>2 DEF Ordered
<1>4. CASE ~(j <= L)
  <2>1. j \in {L + 1, L + 2, L + 3, L + 4}
    BY <1>1, <1>4
  <2>2. j = L + 3
    BY <1>1, <1>2, <2>1
  <2>3. i \in 1 .. L
    <3>1. i \in 1 .. L \/ i = L + 1 \/ i = L + 2
      BY <1>1, <2>2
    <3> QED
      BY <1>1, <1>2, <3>1
  <2>4. C[i] = s[i] /\ s[i] \in Known
    BY <1>1, <2>3
  <2>5. C[i][2] = k
    BY <1>1, <1>2, <2>2
  <2>6. C[i][3] <= zk[k]
    BY <2>4, <2>5 DEF Known
  <2> QED
    BY <1>1, <1>2, <2>2, <2>6
<1> QED
  BY <1>3, <1>4

LEMMA OrderedCut ==
  ASSUME NEW a \in Seq(Known), NEW b \in Seq(Known), Ordered(a \o b)
  PROVE  Ordered(b)
<1> DEFINE s == a \o b
           n == Len(a)
<1>1. /\ Len(s) = n + Len(b) /\ n \in Nat /\ Len(b) \in Nat
      /\ \A i \in 1 .. Len(b) : s[n + i] = b[i]
  BY ConcatIndex
<1>2. Ordered(s)
  OBVIOUS
<1> HIDE DEF s, n
<1> SUFFICES ASSUME NEW i \in 1 .. Len(b), NEW j \in 1 .. Len(b), i < j,
                    b[i][1] = "value", b[j][1] = "value", b[i][2] = b[j][2]
             PROVE  b[i][3] <= b[j][3]
  BY DEF Ordered
<1>3. n + i \in 1 .. Len(s) /\ n + j \in 1 .. Len(s) /\ n + i < n + j
  BY <1>1
<1>4. s[n + i] = b[i] /\ s[n + j] = b[j]
  BY <1>1
<1> QED
  BY <1>2, <1>3, <1>4 DEF Ordered

LEMMA BehindGrown ==
  ASSUME ZkType, NEW s \in Seq(Known), NEW k \in Keys, NEW c \in [Keys -> Held], Behind(c, s)
  PROVE  Behind(c, s \o Message(k, zk[k]))
<1> DEFINE C == s \o Message(k, zk[k])
           L == Len(s)
<1>1. /\ Len(C) = L + 4 /\ L \in Nat
      /\ \A i \in 1 .. L : C[i] = s[i]
      /\ C[L + 1] = KeyToken(k) /\ C[L + 2] = Sep
      /\ C[L + 3] = ValueToken(k, zk[k]) /\ C[L + 4] = End
  BY GrownIndex
<1> HIDE DEF C
<1> SUFFICES ASSUME NEW j \in Keys, NEW i \in 1 .. Len(C), NEW x \in Versions, NEW y \in Versions,
                    c[j] = ValueToken(j, x), C[i] = ValueToken(j, y)
             PROVE  x <= y
  BY DEF Behind, C
<1>2. CASE i <= L
  <2>1. i \in 1 .. L
    BY <1>1, <1>2
  <2> QED
    BY <1>1, <2>1 DEF Behind
<1>3. CASE ~(i <= L)
  <2>1. i \in {L + 1, L + 2, L + 3, L + 4}
    BY <1>1, <1>3
  <2>2. C[i] = ValueToken(k, zk[k])
    BY <1>1, <2>1 DEF KeyToken, Sep, End, ValueToken
  <2>3. j = k /\ y = zk[k]
    BY <2>2 DEF ValueToken
  <2>4. ValueToken(j, x) \in Held
    BY DEF Held
  <2>5. ValueToken(j, x) \in Known
    BY <2>4 DEF Held, ValueToken, Garbage, Commanded
  <2>6. ValueToken(j, x)[1] = "value" /\ ValueToken(j, x)[2] = j /\ ValueToken(j, x)[3] = x
    BY DEF ValueToken
  <2> QED
    BY <2>3, <2>5, <2>6 DEF Known
<1> QED
  BY <1>2, <1>3

LEMMA BehindCut ==
  ASSUME NEW a \in Seq(Known), NEW b \in Seq(Known), NEW c, Behind(c, a \o b)
  PROVE  Behind(c, b)
<1> DEFINE s == a \o b
           n == Len(a)
<1>1. /\ Len(s) = n + Len(b) /\ n \in Nat /\ Len(b) \in Nat
      /\ \A i \in 1 .. Len(b) : s[n + i] = b[i]
  BY ConcatIndex
<1>2. Behind(c, s)
  OBVIOUS
<1> HIDE DEF s, n
<1> SUFFICES ASSUME NEW j \in Keys, NEW i \in 1 .. Len(b), NEW x \in Versions, NEW y \in Versions,
                    c[j] = ValueToken(j, x), b[i] = ValueToken(j, y)
             PROVE  x <= y
  BY DEF Behind
<1>3. n + i \in 1 .. Len(s) /\ s[n + i] = b[i]
  BY <1>1
<1> QED
  BY <1>2, <1>3 DEF Behind

-----------------------------------------------------------------------------
(* What a parse makes of the front of an aligned stream.                   *)

\* An update is a single value of its key: a buffer that begins or ends in
\* the middle of a message loses it, but gives no part of it to another.
LEMMA AlignedFound ==
  ASSUME NEW a \in Seq(Known), NEW b \in Seq(Known), Aligned(a \o b), NEW u \in Found(a)
  PROVE  \E i \in 1 .. Len(a) : a[i][1] = "value" /\ u = <<a[i][2], <<a[i]>>>>
<1> DEFINE s == a \o b
<1>1. /\ Len(s) = Len(a) + Len(b) /\ Len(a) \in Nat /\ Len(b) \in Nat
      /\ \A i \in 1 .. Len(a) : s[i] = a[i]
  BY ConcatIndex
<1>2. Aligned(s)
  OBVIOUS
<1> HIDE DEF s
<1>3. PICK i, e : KeyToEnd(a, i, e) /\ u = <<a[i][2], SubSeq(a, i + 2, e - 1)>>
  BY FoundIs
<1>4. /\ i \in 1 .. Len(a) /\ e \in i + 2 .. Len(a) /\ a[i][1] = "key" /\ a[i + 1] = Sep
      /\ a[e] = End /\ \A n \in i + 2 .. e - 1 : a[n] # End
  BY <1>3 DEF KeyToEnd
<1>5. /\ i \in 1 .. Len(s) - 2 /\ i + 1 \in 1 .. Len(s) - 1
      /\ i + 1 \in 1 .. Len(a) /\ i + 2 \in 1 .. Len(a) /\ (i + 1) + 1 = i + 2
      /\ (i + 2) + 1 = i + 3
  BY <1>1, <1>4
<1>6. s[i] = a[i] /\ s[i + 1] = a[i + 1] /\ s[i + 2] = a[i + 2]
  BY <1>1, <1>4, <1>5
<1>7. a[i + 2][1] = "value"
  <2>1. Follows(s[i + 1], s[i + 2])
    BY <1>2, <1>5 DEF Aligned
  <2> QED
    BY <1>4, <1>6, <2>1 DEF Follows
<1>8. a[i + 2][2] = a[i][2]
  <2>1. s[i + 2][2] = s[i][2]
    BY <1>2, <1>4, <1>5, <1>6 DEF Aligned
  <2> QED
    BY <1>6, <2>1
<1>9. e = i + 3
  <2>1. e # i + 2
    BY <1>4, <1>7 DEF End
  <2>2. i + 3 \in 1 .. Len(a) /\ i + 2 \in 1 .. Len(s) - 1 /\ i + 3 <= e
    BY <1>1, <1>4, <2>1
  <2>3. Follows(s[i + 2], s[i + 3])
    BY <1>2, <1>5, <2>2 DEF Aligned
  <2>4. a[i + 3] = End
    BY <1>1, <1>6, <1>7, <2>2, <2>3 DEF Follows
  <2>5. ~(i + 3 \in i + 2 .. e - 1)
    BY <1>4, <2>4
  <2> QED
    BY <1>4, <2>2, <2>5
<1>10. SubSeq(a, i + 2, e - 1) = <<a[i + 2]>>
  <2>1. e - 1 = i + 2
    BY <1>4, <1>9
  <2>2. SubSeq(a, i + 2, i + 2) = <<a[i + 2]>>
    BY <1>5, SingleElement
  <2> QED
    BY <2>1, <2>2
<1>11. u = <<a[i + 2][2], <<a[i + 2]>>>>
  BY <1>3, <1>8, <1>10
<1> QED
  BY <1>5, <1>7, <1>11

LEMMA ValueOfSingle ==
  ASSUME NEW v, v[1] = "value"
  PROVE  ValueOf(<<v>>) = v
BY DEF ValueOf

\* For each key a parse keeps what was there or takes a value of that key.
LEMMA ApplyAligned ==
  ASSUME NEW a \in Seq(Known), NEW b \in Seq(Known), Aligned(a \o b), NEW c, NEW k \in Keys
  PROVE  LET r == Apply(c, Updates(a))[k]
         IN  r = c[k] \/ \E i \in 1 .. Len(a) : a[i][1] = "value" /\ a[i][2] = k /\ r = a[i]
<1> DEFINE us == Updates(a)
           r == Apply(c, us)[k]
<1>1. us \in Seq(Found(a))
  BY KnownIsTokens, UpdatesAreFound
<1> HIDE DEF us
<1>2. CASE r = c[k]
  BY <1>2 DEF us
<1>3. CASE \E m \in 1 .. Len(us) : us[m][1] = k /\ r = ValueOf(us[m][2])
  <2>1. PICK m \in 1 .. Len(us) : us[m][1] = k /\ r = ValueOf(us[m][2])
    BY <1>3
  <2>2. us[m] \in Found(a)
    BY <1>1
  <2>3. PICK i \in 1 .. Len(a) : a[i][1] = "value" /\ us[m] = <<a[i][2], <<a[i]>>>>
    BY <2>2, AlignedFound
  <2>4. us[m][1] = a[i][2] /\ us[m][2] = <<a[i]>>
    <3> DEFINE x == a[i][2]
               y == <<a[i]>>
    <3>1. us[m] = <<x, y>>
      BY <2>3
    <3> HIDE DEF x, y
    <3>2. us[m][1] = x /\ us[m][2] = y
      BY <3>1
    <3> QED
      BY <3>2 DEF x, y
  <2>5. r = a[i]
    BY <2>1, <2>3, <2>4, ValueOfSingle
  <2> QED
    BY <2>1, <2>3, <2>4, <2>5 DEF us
<1> QED
  BY <1>1, <1>2, <1>3, ApplyIs

LEMMA BehindApply ==
  ASSUME NEW a \in Seq(Known), NEW b \in Seq(Known), NEW c,
         Aligned(a \o b), Ordered(a \o b), Behind(c, a \o b)
  PROVE  Behind(Apply(c, Updates(a)), b)
<1> DEFINE s == a \o b
           n == Len(a)
           d == Apply(c, Updates(a))
<1>1. /\ Len(s) = n + Len(b) /\ n \in Nat /\ Len(b) \in Nat
      /\ \A i \in 1 .. n : s[i] = a[i]
      /\ \A i \in 1 .. Len(b) : s[n + i] = b[i]
  BY ConcatIndex
<1>2. Ordered(s) /\ Behind(c, s)
  OBVIOUS
<1>3. \A k \in Keys :
        d[k] = c[k] \/ \E i \in 1 .. n : a[i][1] = "value" /\ a[i][2] = k /\ d[k] = a[i]
  BY ApplyAligned
<1> HIDE DEF s, n, d
<1> SUFFICES ASSUME NEW k \in Keys, NEW i \in 1 .. Len(b), NEW x \in Versions, NEW y \in Versions,
                    d[k] = ValueToken(k, x), b[i] = ValueToken(k, y)
             PROVE  x <= y
  BY DEF Behind, d
<1>4. n + i \in 1 .. Len(s) /\ s[n + i] = b[i]
  BY <1>1
<1>5. CASE d[k] = c[k]
  BY <1>2, <1>4, <1>5 DEF Behind
<1>6. CASE \E j \in 1 .. n : a[j][1] = "value" /\ a[j][2] = k /\ d[k] = a[j]
  <2>1. PICK j \in 1 .. n : d[k] = a[j]
    BY <1>6
  <2>2. j \in 1 .. Len(s) /\ j < n + i /\ s[j] = a[j]
    BY <1>1
  <2>3. /\ s[j][1] = "value" /\ s[j][2] = k /\ s[j][3] = x
        /\ s[n + i][1] = "value" /\ s[n + i][2] = k /\ s[n + i][3] = y
    <3>1. s[j] = ValueToken(k, x) /\ s[n + i] = ValueToken(k, y)
      BY <1>4, <2>1, <2>2
    <3>2. /\ ValueToken(k, x)[1] = "value" /\ ValueToken(k, x)[2] = k /\ ValueToken(k, x)[3] = x
          /\ ValueToken(k, y)[1] = "value" /\ ValueToken(k, y)[2] = k /\ ValueToken(k, y)[3] = y
      BY DEF ValueToken
    <3> QED
      BY <3>1, <3>2
  <2>4. s[j][3] <= s[n + i][3]
    BY <1>2, <1>4, <2>2, <2>3 DEF Ordered
  <2> QED
    BY <2>3, <2>4
<1> QED
  BY <1>3, <1>5, <1>6

\* In whole messages, a value has the third place.
LEMMA ValuePlace ==
  ASSUME NEW T, NEW s \in Seq(T), Whole(s), NEW i \in 1 .. Len(s), s[i][1] = "value"
  PROVE  \E m \in 0 .. (Len(s) \div 4) - 1 : i = 4 * m + 3
<1>1. \A n \in Nat : n % 4 = 0 => \A j \in 1 .. n :
        /\ (j - 1) \div 4 \in 0 .. (n \div 4) - 1
        /\ j \in {4 * ((j - 1) \div 4) + 1, 4 * ((j - 1) \div 4) + 2,
                  4 * ((j - 1) \div 4) + 3, 4 * ((j - 1) \div 4) + 4}
  OBVIOUS
<1> DEFINE m == (i - 1) \div 4
<1>2. Len(s) \in Nat /\ Len(s) % 4 = 0
  BY DEF Whole
<1>3. /\ m \in 0 .. (Len(s) \div 4) - 1
      /\ i = 4 * m + 1 \/ i = 4 * m + 2 \/ i = 4 * m + 3 \/ i = 4 * m + 4
  BY <1>1, <1>2
<1> HIDE DEF m
<1>4. s[4 * m + 1][1] = "key" /\ s[4 * m + 2] = Sep /\ s[4 * m + 4] = End
  BY <1>3, QuarterProperties
<1>5. Sep[1] = "sep" /\ End[1] = "end"
  BY DEF Sep, End
<1>6. i = 4 * m + 3
  BY <1>3, <1>4, <1>5
<1> QED
  BY <1>3, <1>6

\* A parse of whole messages with the current value of a key takes it.
LEMMA ApplyWhole ==
  ASSUME ZkType, NEW a \in Seq(Known), Whole(a), Ordered(a), NEW c, NEW k \in Keys,
         NEW i \in 1 .. Len(a), a[i] = ValueToken(k, zk[k])
  PROVE  Apply(c, Updates(a))[k] = ValueToken(k, zk[k])
<1> DEFINE us == Updates(a)
           Q == Len(a) \div 4
           r == Apply(c, us)[k]
           U == {<<a[4 * n - 3][2], <<a[4 * n - 1]>>>> : n \in 1 .. Q}
<1>1. Q \in Nat
  <2>1. \A n \in Nat : n % 4 = 0 => (n \div 4) \in Nat
    OBVIOUS
  <2> QED
    BY <2>1 DEF Whole
<1>2. us = [n \in 1 .. Q |-> <<a[4 * n - 3][2], <<a[4 * n - 1]>>>>]
  BY KnownIsTokens, WholeUpdates
<1>3. \A m \in 0 .. Q - 1 :
        /\ 4 * m + 3 \in 1 .. Len(a) /\ a[4 * m + 3][1] = "value"
        /\ a[4 * m + 3][2] = a[4 * m + 1][2]
  <2> TAKE m \in 0 .. Q - 1
  <2>1. /\ 4 * m + 1 \in 1 .. Len(a) /\ 4 * m + 4 \in 1 .. Len(a)
        /\ a[4 * m + 3][1] = "value" /\ a[4 * m + 3][2] = a[4 * m + 1][2]
    BY QuarterProperties
  <2>2. 4 * m + 3 \in 1 .. Len(a)
    BY <1>1, <2>1
  <2> QED
    BY <2>1, <2>2
<1>4. a[i][1] = "value" /\ a[i][2] = k /\ a[i][3] = zk[k]
  BY DEF ValueToken
<1>5. PICK m \in 0 .. Q - 1 : i = 4 * m + 3
  BY <1>4, ValuePlace
<1> HIDE DEF Q, us, U
<1>6. us \in Seq(U) /\ Len(us) = Q
  <2> DEFINE e(n) == <<a[4 * n - 3][2], <<a[4 * n - 1]>>>>
  <2>1. \A n \in 1 .. Q : e(n) \in U
    BY DEF U
  <2>2. us = [n \in 1 .. Q |-> e(n)]
    BY <1>2
  <2> HIDE DEF e
  <2>3. us \in [1 .. Q -> U]
    BY <2>1, <2>2
  <2> QED
    BY <1>1, <2>3
<1>7. \A n \in 1 .. Q : us[n][1] = a[4 * n - 3][2] /\ us[n][2] = <<a[4 * n - 1]>>
  BY <1>2
<1>8. m + 1 \in 1 .. Q /\ us[m + 1][1] = k
  <2>1. m + 1 \in 1 .. Q /\ 4 * (m + 1) - 3 = 4 * m + 1
    BY <1>1
  <2> QED
    BY <1>3, <1>4, <1>5, <1>7, <2>1
<1>9. \E n \in 1 .. Len(us) : us[n][1] = k /\ m + 1 <= n /\ r = ValueOf(us[n][2])
  <2> DEFINE p == m + 1
  <2>1. us \in Seq(U) /\ p \in 1 .. Len(us) /\ us[p][1] = k
    BY <1>6, <1>8
  <2> HIDE DEF p
  <2>2. \E n \in 1 .. Len(us) : us[n][1] = k /\ p <= n /\ r = ValueOf(us[n][2])
    BY <2>1, ApplyTakes
  <2> QED
    BY <2>2 DEF p
<1>10. PICK n \in 1 .. Q : us[n][1] = k /\ m + 1 <= n /\ r = ValueOf(us[n][2])
  BY <1>6, <1>9
<1> DEFINE j == 4 * n - 1
<1>11. n - 1 \in 0 .. Q - 1 /\ 4 * (n - 1) + 3 = j /\ 4 * (n - 1) + 1 = 4 * n - 3 /\ i <= j
  BY <1>1, <1>5, <1>10
<1>12. j \in 1 .. Len(a) /\ a[j][1] = "value" /\ a[j][2] = k
  <2>1. a[j][1] = "value" /\ a[j][2] = a[4 * n - 3][2] /\ j \in 1 .. Len(a)
    BY <1>3, <1>11
  <2> QED
    BY <1>7, <1>10, <2>1
<1>13. r = a[j]
  <2>1. us[n][2] = <<a[j]>>
    BY <1>7
  <2> HIDE DEF j
  <2> QED
    BY <1>10, <1>12, <2>1, ValueOfSingle
<1> HIDE DEF j
<1>14. a[j] \in Known
  BY <1>12
<1>15. a[j] = ValueToken(k, a[j][3]) /\ a[j][3] \in Versions /\ a[j][3] <= zk[k]
  BY <1>12, <1>14, TokenCases DEF Sep, End
<1>16. zk[k] <= a[j][3]
  <2>1. CASE i = j
    BY <1>4, <1>15, <2>1 DEF ZkType
  <2>2. CASE i # j
    <3>1. i < j
      BY <1>11, <1>12, <2>2
    <3> QED
      BY <1>4, <1>12, <3>1 DEF Ordered
  <2> QED
    BY <2>1, <2>2
<1>17. a[j][3] = zk[k]
  <2>1. a[j][3] \in Int /\ zk[k] \in Int
    BY <1>15 DEF Versions, ZkType
  <2> QED
    BY <1>15, <1>16, <2>1
<1> QED
  BY <1>13, <1>15, <1>17 DEF us

-----------------------------------------------------------------------------
(* What a step does to a worker whose stream is sound.                     *)

LEMMA UnmixedStep ==
  ASSUME [Next]_vars, NEW w \in Workers, w \notin mixed'
  PROVE  w \notin mixed
<1>1. ASSUME NEW u \in Workers, Worker(u) PROVE w \notin mixed
  BY <1>1 DEF Worker, StartTimeout, Ping, Read, Parse, Command, Crash, Respawn
<1>2. ASSUME NEW t \in Threads, Thread(t) PROVE w \notin mixed
  BY <1>2 DEF Thread, GetOK, GetFails, Write, WriteFails
<1>3. ASSUME Sender PROVE w \notin mixed
  <2>1. CASE Ends
    BY <2>1, EndsRestarts DEF Restarted
  <2>2. CASE ~Ends
    BY <1>2, <1>3, <2>2 DEF Sender, Accept, AcceptEarly, Answer, Watcher, Close, Reopen, Ends
  <2> QED
    BY <2>1, <2>2
<1>4. ASSUME Environment PROVE w \notin mixed
  BY <1>4 DEF Environment, Change, Expire
<1> QED
  BY <1>1, <1>3, <1>4 DEF Next, vars

\* A worker becomes clean only when nothing is on its way to it.
LEMMA CleanStep ==
  ASSUME [Next]_vars, NEW w \in Workers, w \in clean'
  PROVE  w \in clean \/ (AtRest(w) /\ UNCHANGED <<buf, pipe, out, conf>>)
<1>1. ASSUME NEW u \in Workers, Worker(u) PROVE w \in clean
  BY <1>1 DEF Worker, StartTimeout, Ping, Read, Parse, Command, Crash, Respawn
<1>2. ASSUME NEW c \in Clients, Accept(c)
      PROVE  w \in clean \/ (AtRest(w) /\ UNCHANGED <<buf, pipe, out, conf>>)
  BY <1>2 DEF Accept, workerVars
<1>3. ASSUME NEW t \in Threads, Thread(t) PROVE w \in clean
  BY <1>3 DEF Thread, GetOK, GetFails, Write, WriteFails
<1>4. ASSUME \/ \E c \in Clients : AcceptEarly(c)
             \/ Answer \/ Watcher \/ Close \/ Reopen \/ Ends
      PROVE  w \in clean
  BY <1>4, EndsRestarts DEF AcceptEarly, Answer, Watcher, Close, Reopen, Restarted
<1>5. ASSUME Environment PROVE w \in clean
  BY <1>5 DEF Environment, Change, Expire
<1> QED
  BY <1>1, <1>2, <1>3, <1>4, <1>5 DEF Next, Sender, Ends, vars

\* The stream and the configuration stay, or a command changes the one, or a
\* message is appended to the other, or the buffer is taken off its front by a
\* parse or a crash.
LEMMA StreamStep ==
  ASSUME TypeInv, OneWriter, [Next]_vars, NEW w \in Workers, Sound(w), Sound(w)'
  PROVE  \/ Stream(w)' = Stream(w) /\ conf'[w] = conf[w]
         \/ /\ Stream(w)' = Stream(w) /\ w \notin clean'
            /\ \E k \in Keys : conf'[w] = [conf[w] EXCEPT ![k] = Commanded]
         \/ /\ conf'[w] = conf[w]
            /\ \E k \in Keys : zk' = zk /\ Stream(w)' = Stream(w) \o Message(k, zk[k])
         \/ /\ Stream(w)' \in Seq(Known) /\ Stream(w) = buf[w] \o Stream(w)'
            /\ conf'[w] = Apply(conf[w], Updates(buf[w]))
            /\ w \in clean' => Whole(buf[w])
            /\ zk' = zk
         \/ /\ Stream(w)' \in Seq(Known) /\ Stream(w) = buf[w] \o Stream(w)'
            /\ conf'[w] = Unset /\ worker'[w] = "down" /\ w \notin clean'
<1>0. /\ conf \in [Workers -> [Keys -> Held]] /\ worker \in [Workers -> {"down", "starting", "running"}]
      /\ mixed \subseteq Workers
  BY DEF TypeInv, WorkerType, HistoryType
<1>1. CASE UNCHANGED <<buf, pipe, out, conf>>
  BY <1>1, StreamStays
<1>2. ASSUME NEW t \in Threads, GetOK(t)
      PROVE  /\ conf'[w] = conf[w]
             /\ \E k \in Keys : zk' = zk /\ Stream(w)' = Stream(w) \o Message(k, zk[k])
  <2>1. ~Writing(t)
    BY <1>2 DEF GetOK, Sound
  <2>2. zk' = zk /\ conf' = conf
    BY <1>2 DEF GetOK, workerVars
  <2> QED
    BY <1>2, <2>1, <2>2, StreamGet
<1>3. ASSUME NEW t \in Threads, Write(t) \/ WriteFails(t)
      PROVE  Stream(w)' = Stream(w) /\ conf'[w] = conf[w]
  <2>1. OneMessage(out)
    BY <1>0 DEF OneWriter, Sound
  <2>2. Write(t) \/ (WriteFails(t) /\ w # Head(out[t])[1])
    BY <1>3 DEF WriteFails, Sound
  <2> QED
    BY <1>3, <2>1, <2>2, StreamWrite DEF Write, WriteFails
<1>4. CASE Ends
  <2>0. Restarted
    BY <1>4, EndsRestarts
  <2>1. UNCHANGED <<buf, pipe, conf>> /\ out' = [t \in Threads |-> <<>>]
    BY <2>0 DEF Restarted
  <2>2. \A t \in Threads : out[t] = <<>>
    BY <2>0 DEF Restarted, Sound
  <2>3. Flight(out) = <<>> /\ Flight(out') = <<>>
    BY <2>1, <2>2 DEF Flight
  <2> QED
    BY <2>1, <2>3 DEF Stream
<1>5. ASSUME NEW u \in Workers, Read(u) PROVE Stream(w)' = Stream(w) /\ conf'[w] = conf[w]
  <2>1. Stream(w)' = Stream(w)
    BY <1>5, StreamRead DEF Sound
  <2> QED
    BY <1>5, <2>1 DEF Read
<1>6. ASSUME NEW u \in Workers, Parse(u)
      PROVE  \/ Stream(w)' = Stream(w) /\ conf'[w] = conf[w]
             \/ /\ Stream(w)' \in Seq(Known) /\ Stream(w) = buf[w] \o Stream(w)'
                /\ conf'[w] = Apply(conf[w], Updates(buf[w]))
                /\ w \in clean' => Whole(buf[w])
                /\ zk' = zk
  <2>1. /\ UNCHANGED <<pipe, out>> /\ buf' = [buf EXCEPT ![u] = <<>>] /\ zk' = zk
        /\ conf' = [conf EXCEPT ![u] = Apply(conf[u], Updates(buf[u]))]
        /\ clean' = IF Whole(buf[u]) THEN clean ELSE clean \ {u}
    BY <1>6 DEF Parse, zkVars, senderVars
  <2>2. CASE w = u
    BY <1>0, <2>1, <2>2, StreamCut
  <2>3. CASE w # u
    BY <1>0, <2>1, <2>3, StreamCut
  <2> QED
    BY <2>2, <2>3
<1>7. ASSUME NEW u \in Workers, Command(u)
      PROVE  \/ Stream(w)' = Stream(w) /\ conf'[w] = conf[w]
             \/ /\ Stream(w)' = Stream(w) /\ w \notin clean'
                /\ \E k \in Keys : conf'[w] = [conf[w] EXCEPT ![k] = Commanded]
  <2>1. UNCHANGED <<buf, pipe, out>> /\ clean' = clean \ {u}
    BY <1>7 DEF Command, senderVars
  <2>2. PICK k \in CommandKeys : conf' = [conf EXCEPT ![u][k] = Commanded]
    BY <1>7 DEF Command
  <2>3. k \in Keys
    BY CapAssumption
  <2>4. Stream(w)' = Stream(w)
    BY <2>1, StreamStays
  <2>5. CASE w = u
    <3>1. conf'[w] = [conf[w] EXCEPT ![k] = Commanded]
      BY <1>0, <2>2, <2>5
    <3> QED
      BY <2>1, <2>3, <2>4, <2>5, <3>1
  <2>6. CASE w # u
    <3>1. conf'[w] = conf[w]
      BY <1>0, <2>2, <2>6
    <3> QED
      BY <2>4, <3>1
  <2> QED
    BY <2>5, <2>6
<1>8. ASSUME NEW u \in Workers, Crash(u)
      PROVE  \/ Stream(w)' = Stream(w) /\ conf'[w] = conf[w]
             \/ /\ Stream(w)' \in Seq(Known) /\ Stream(w) = buf[w] \o Stream(w)'
                /\ conf'[w] = Unset /\ worker'[w] = "down" /\ w \notin clean'
  <2>1. /\ UNCHANGED <<pipe, out>> /\ buf' = [buf EXCEPT ![u] = <<>>]
        /\ conf' = [conf EXCEPT ![u] = Unset] /\ worker' = [worker EXCEPT ![u] = "down"]
        /\ clean' = clean \ {u}
    BY <1>8 DEF Crash
  <2>2. CASE w = u
    BY <1>0, <2>1, <2>2, StreamCut
  <2>3. CASE w # u
    BY <1>0, <2>1, <2>3, StreamCut
  <2> QED
    BY <2>2, <2>3
<1>9. CASE \/ Environment \/ Answer \/ Watcher \/ Close \/ Reopen
           \/ (\E c \in Clients : Accept(c) \/ AcceptEarly(c)) \/ \E t \in Threads : GetFails(t)
  <2>1. UNCHANGED <<buf, pipe, out, conf>>
    BY <1>9 DEF Environment, Change, Expire, Answer, Watcher, Close, Reopen, Accept, AcceptEarly,
                GetFails, senderVars, workerVars
  <2> QED
    BY <1>1, <2>1
<1>10. ASSUME NEW u \in Workers, StartTimeout(u) \/ Ping(u) \/ Respawn(u)
       PROVE  UNCHANGED <<buf, pipe, out, conf>>
  BY <1>10 DEF StartTimeout, Ping, Respawn, senderVars, workerVars
<1>11. CASE UNCHANGED vars
  BY <1>1, <1>11 DEF vars, senderVars, workerVars
<1>12. CASE Sender
  BY <1>2, <1>3, <1>4, <1>9, <1>12 DEF Sender, Thread, Ends
<1>13. ASSUME NEW u \in Workers, Worker(u)
       PROVE \/ UNCHANGED <<buf, pipe, out, conf>>
             \/ Read(u) \/ Parse(u) \/ Command(u) \/ Crash(u)
  BY <1>10, <1>13 DEF Worker
<1>14. CASE \E u \in Workers : Worker(u)
  BY <1>1, <1>5, <1>6, <1>7, <1>8, <1>13, <1>14
<1> QED
  BY <1>9, <1>11, <1>12, <1>14 DEF Next

LEMMA RestIsEmpty ==
  ASSUME NEW w \in Workers, AtRest(w)
  PROVE  Stream(w) = <<>>
<1>1. buf[w] = <<>> /\ pipe[w] = <<>> /\ \A t \in Threads : out[t] = <<>>
  BY DEF AtRest, Idle
<1>2. Flight(out) = <<>>
  BY <1>1 DEF Flight
<1>3. For(w, Flight(out)) = <<>>
  BY <1>2, ForEmpty
<1>4. <<>> \o <<>> \o <<>> = <<>>
  OBVIOUS
<1> QED
  BY <1>1, <1>3, <1>4 DEF Stream

LEMMA EmptyDelivers ==
  ASSUME NEW c
  PROVE  Aligned(<<>>) /\ Ordered(<<>>) /\ Behind(c, <<>>)
<1>1. Len(<<>>) = 0
  OBVIOUS
<1>2. Aligned(<<>>)
  BY <1>1 DEF Aligned
<1>3. Ordered(<<>>)
  BY <1>1 DEF Ordered
<1>4. Behind(c, <<>>)
  BY <1>1 DEF Behind
<1> QED
  BY <1>2, <1>3, <1>4

\* A configuration with no version of a key is behind everything.
LEMMA BehindLess ==
  ASSUME NEW c, NEW d, NEW s, Behind(c, s),
         \A k \in Keys : d[k] \in {<<>>, Commanded} \/ d[k] = c[k]
  PROVE  Behind(d, s)
<1> SUFFICES ASSUME NEW k \in Keys, NEW i \in 1 .. Len(s), NEW x \in Versions, NEW y \in Versions,
                    d[k] = ValueToken(k, x), s[i] = ValueToken(k, y)
             PROVE  x <= y
  BY DEF Behind
<1>1. ValueToken(k, x) # <<>> /\ ValueToken(k, x) # Commanded
  BY DEF ValueToken, Commanded
<1>2. c[k] = ValueToken(k, x)
  BY <1>1
<1> QED
  BY <1>2 DEF Behind

LEMMA DeliveryStep ==
  ASSUME TypeInv, OneWriter, Delivery, [Next]_vars
  PROVE  Delivery'
<1> SUFFICES ASSUME NEW w \in Workers, Sound(w)'
             PROVE  /\ Aligned(Stream(w)') /\ Ordered(Stream(w)')
                    /\ Behind(conf'[w], Stream(w)')
  BY DEF Delivery, Aligned, Follows, Ordered, Behind
<1>0. /\ ZkType /\ buf[w] \in Seq(Known) /\ Stream(w) \in Seq(Known)
      /\ conf[w] \in [Keys -> Held]
  BY StreamType DEF TypeInv, WorkerType
<1>1. CASE ~Sound(w)
  <2>1. AtRest(w) /\ UNCHANGED <<buf, pipe, out, conf>>
    <3>1. w \in mixed'
      BY <1>1, UnmixedStep DEF Sound
    <3> QED
      BY <1>1, <3>1, CleanStep DEF Sound
  <2>2. Stream(w)' = <<>>
    BY <2>1, StreamStays, RestIsEmpty
  <2> QED
    BY <2>2, EmptyDelivers
<1>2. CASE Sound(w)
  <2>0. Aligned(Stream(w)) /\ Ordered(Stream(w)) /\ Behind(conf[w], Stream(w))
    BY <1>2 DEF Delivery
  <2> DEFINE s == Stream(w)
             p == Stream(w)'
             b == buf[w]
  <2>1. CASE p = s /\ conf'[w] = conf[w]
    BY <2>0, <2>1
  <2>2. CASE p = s /\ \E k \in Keys : conf'[w] = [conf[w] EXCEPT ![k] = Commanded]
    <3>1. \A k \in Keys : conf'[w][k] = Commanded \/ conf'[w][k] = conf[w][k]
      BY <1>0, <2>2
    <3>2. Behind(conf'[w], s)
      BY <2>0, <3>1, BehindLess
    <3> QED
      BY <2>0, <2>2, <3>2
  <2>3. CASE conf'[w] = conf[w] /\ \E k \in Keys : p = s \o Message(k, zk[k])
    <3>1. PICK k \in Keys : p = s \o Message(k, zk[k])
      BY <2>3
    <3> HIDE DEF s, p
    <3>2. s \in Seq(Known) /\ Aligned(s) /\ Ordered(s) /\ Behind(conf[w], s)
      BY <1>0, <2>0 DEF s
    <3>3. Aligned(p)
      BY <1>0, <3>1, <3>2, AlignedGrown
    <3>4. Ordered(p)
      BY <1>0, <3>1, <3>2, OrderedGrown
    <3>5. Behind(conf[w], p)
      BY <1>0, <3>1, <3>2, BehindGrown
    <3> QED
      BY <2>3, <3>3, <3>4, <3>5 DEF p
  <2>4. CASE /\ p \in Seq(Known) /\ s = b \o p
             /\ conf'[w] = Unset \/ conf'[w] = Apply(conf[w], Updates(b))
    <3> HIDE DEF s, p, b
    <3>1. b \in Seq(Known) /\ Aligned(b \o p) /\ Ordered(b \o p) /\ Behind(conf[w], b \o p)
      BY <1>0, <2>0, <2>4 DEF s, b
    <3>2. Aligned(p) /\ Ordered(p)
      BY <2>4, <3>1, AlignedCut, OrderedCut
    <3>3. Behind(conf[w], p)
      BY <2>4, <3>1, BehindCut
    <3>4. Behind(Unset, p)
      BY <3>3, BehindLess DEF Unset
    <3>5. Behind(Apply(conf[w], Updates(b)), p)
      BY <2>4, <3>1, BehindApply
    <3> QED
      BY <2>4, <3>2, <3>4, <3>5 DEF p
  <2> QED
    BY <1>2, <2>1, <2>2, <2>3, <2>4, StreamStep
<1> QED
  BY <1>1, <1>2

-----------------------------------------------------------------------------
(* Only values of ZooKeeper, and never an older one after a newer one.     *)

LEMMA ZkGrows ==
  ASSUME TypeInv, [Next]_vars, NEW k \in Keys
  PROVE  zk[k] \in Nat /\ zk'[k] \in Nat /\ zk[k] <= zk'[k]
<1>1. zk \in [Keys -> Nat]
  BY DEF TypeInv, ZkType
<1>2. zk' = zk \/ \E j \in Keys : zk' = [zk EXCEPT ![j] = @ + 1]
  <2>1. ASSUME NEW w \in Workers, Worker(w) PROVE zk' = zk
    BY <2>1 DEF Worker, StartTimeout, Ping, Read, Parse, Command, Crash, Respawn, zkVars
  <2>2. ASSUME Sender PROVE zk' = zk
    BY <2>2, EndsRestarts DEF Sender, Thread, GetOK, GetFails, Write, WriteFails, Accept,
                AcceptEarly, Answer, Watcher, Close, Reopen, Ends, Restarted, zkVars
  <2>3. CASE Environment
    BY <2>3 DEF Environment, Change, Expire
  <2> QED
    BY <2>1, <2>2, <2>3 DEF Next, vars, zkVars
<1> QED
  BY <1>1, <1>2

\* What a parse gives a sound worker for a key is what it had, or a version
\* that ZooKeeper held and that is not older.
LEMMA ParseTakes ==
  ASSUME TypeInv, NEW a \in Seq(Known), NEW b \in Seq(Known), NEW c, NEW k \in Keys,
         Aligned(a \o b), Behind(c, a \o b), Apply(c, Updates(a))[k] # c[k]
  PROVE  \E y \in 0 .. zk[k] :
           /\ Apply(c, Updates(a))[k] = ValueToken(k, y)
           /\ \A x \in Versions : c[k] = ValueToken(k, x) => x <= y
<1> DEFINE r == Apply(c, Updates(a))[k]
<1>1. PICK i \in 1 .. Len(a) : a[i][1] = "value" /\ a[i][2] = k /\ r = a[i]
  BY ApplyAligned
<1> HIDE DEF r
<1>2. a[i] \in Known
  OBVIOUS
<1> DEFINE y == a[i][3]
<1>3. a[i] = ValueToken(k, y) /\ y \in Versions /\ y <= zk[k]
  BY <1>1, <1>2, TokenCases DEF Sep, End
<1>4. zk[k] \in Nat
  BY DEF TypeInv, ZkType
<1>5. y \in 0 .. zk[k]
  <2>1. y \in Nat
    BY <1>3 DEF Versions
  <2> HIDE DEF y
  <2> QED
    BY <1>3, <1>4, <2>1
<1>6. i \in 1 .. Len(a \o b) /\ (a \o b)[i] = a[i]
  BY ConcatIndex
<1> HIDE DEF y
<1>7. \A x \in Versions : c[k] = ValueToken(k, x) => x <= y
  BY <1>3, <1>6 DEF Behind
<1> QED
  BY <1>1, <1>3, <1>5, <1>7 DEF r

LEMMA GenuineStep ==
  ASSUME TypeInv, OneWriter, Delivery, Genuine, [Next]_vars
  PROVE  Genuine'
<1> SUFFICES ASSUME NEW w \in Workers, w \notin mixed', NEW k \in Keys
             PROVE  \/ conf'[w][k] \in {<<>>, Commanded}
                    \/ \E v \in 0 .. zk'[k] : conf'[w][k] = ValueToken(k, v)
  BY DEF Genuine, Commanded, ValueToken
<1>0. /\ Sound(w) /\ Sound(w)' /\ conf[w] \in [Keys -> Held] /\ buf[w] \in Seq(Known)
  BY UnmixedStep DEF Sound, TypeInv, WorkerType
<1>1. zk[k] \in Nat /\ zk'[k] \in Nat /\ zk[k] <= zk'[k]
  BY ZkGrows
<1>2. CASE conf'[w][k] = conf[w][k]
  <2>1. conf[w][k] \in {<<>>, Commanded} \/ \E v \in 0 .. zk[k] : conf[w][k] = ValueToken(k, v)
    BY UnmixedStep DEF Genuine
  <2>2. 0 .. zk[k] \subseteq 0 .. zk'[k]
    BY <1>1
  <2> QED
    BY <1>2, <2>1, <2>2
<1>3. CASE conf'[w] = Unset \/ \E j \in Keys : conf'[w] = [conf[w] EXCEPT ![j] = Commanded]
  BY <1>0, <1>2, <1>3 DEF Unset
<1>4. CASE /\ Stream(w)' \in Seq(Known) /\ Stream(w) = buf[w] \o Stream(w)'
           /\ conf'[w] = Apply(conf[w], Updates(buf[w]))
           /\ zk' = zk
  <2> DEFINE p == Stream(w)'
  <2>1. Aligned(buf[w] \o p) /\ Behind(conf[w], buf[w] \o p) /\ p \in Seq(Known)
    BY <1>0, <1>4 DEF Delivery
  <2> HIDE DEF p
  <2>2. CASE conf'[w][k] # conf[w][k]
    BY <1>0, <1>4, <2>1, <2>2, ParseTakes
  <2> QED
    BY <1>2, <2>2
<1> QED
  BY <1>0, <1>2, <1>3, <1>4, StreamStep

\* What a worker has for a key is a version with another place than <<>> and
\* what a command leaves.
LEMMA TokenVersion ==
  ASSUME NEW k, NEW x
  PROVE  ValueToken(k, x)[3] = x /\ ValueToken(k, x) # <<>> /\ ValueToken(k, x) # Commanded
BY DEF ValueToken, Commanded

LEMMA BackwardsStep ==
  ASSUME TypeInv, OneWriter, Delivery, Genuine, [Next]_vars,
         NEW w \in Workers, w \notin mixed', NEW k \in Keys, conf[w][k] \notin {<<>>, Commanded},
         conf'[w][k] # Commanded, worker'[w] # "down"
  PROVE  conf'[w][k] # <<>> /\ conf'[w][k][3] >= conf[w][k][3]
<1>0. /\ Sound(w) /\ Sound(w)' /\ conf[w] \in [Keys -> Held] /\ buf[w] \in Seq(Known)
  BY UnmixedStep DEF Sound, TypeInv, WorkerType
<1>1. PICK x \in 0 .. zk[k] : conf[w][k] = ValueToken(k, x)
  BY UnmixedStep DEF Genuine
<1>2. x \in Versions /\ x \in Nat
  <2>1. zk[k] \in 0 .. changes /\ changes \in 0 .. MaxChanges /\ MaxChanges \in Nat
    BY CapAssumption DEF TypeInv, ZkType
  <2> QED
    BY <2>1 DEF Versions
<1>3. CASE conf'[w][k] = conf[w][k]
  <2>1. ValueToken(k, x)[3] >= ValueToken(k, x)[3] /\ ValueToken(k, x) # <<>>
    BY <1>2, TokenVersion
  <2> QED
    BY <1>1, <1>3, <2>1
<1>4. CASE \E j \in Keys : conf'[w] = [conf[w] EXCEPT ![j] = Commanded]
  BY <1>0, <1>3, <1>4
<1>5. CASE /\ Stream(w)' \in Seq(Known) /\ Stream(w) = buf[w] \o Stream(w)'
           /\ conf'[w] = Apply(conf[w], Updates(buf[w]))
  <2> DEFINE p == Stream(w)'
             r == Apply(conf[w], Updates(buf[w]))[k]
  <2>1. Aligned(buf[w] \o p) /\ Behind(conf[w], buf[w] \o p) /\ p \in Seq(Known)
    BY <1>0, <1>5 DEF Delivery
  <2> HIDE DEF p
  <2>2. CASE r # conf[w][k]
    <3>1. PICK y \in 0 .. zk[k] :
                r = ValueToken(k, y) /\ \A z \in Versions : conf[w][k] = ValueToken(k, z) => z <= y
      BY <1>0, <2>1, <2>2, ParseTakes
    <3> HIDE DEF r
    <3>2. x <= y
      BY <1>1, <1>2, <3>1
    <3>3. r # <<>> /\ r[3] = y /\ conf[w][k][3] = x
      BY <1>1, <3>1, TokenVersion
    <3>4. y >= x
      <4>1. y \in Int
        BY <3>1
      <4> QED
        BY <1>2, <3>2, <4>1
    <3> QED
      BY <1>5, <3>3, <3>4 DEF r
  <2> QED
    BY <1>3, <1>5, <2>2
<1> QED
  BY <1>0, <1>3, <1>4, <1>5, StreamStep

-----------------------------------------------------------------------------
(* A registration repairs a worker.                                        *)

\* A clean worker has the current value of a key, or has it in its stream, until
\* the key changes.
LEMMA CurrentStep ==
  ASSUME TypeInv, OneWriter, Delivery, [Next]_vars, NEW w \in Workers, w \in clean, w \in clean',
         NEW k \in Keys, zk'[k] = zk[k], Current(w, k)
  PROVE  Current(w, k)'
<1> DEFINE s == Stream(w)
           p == Stream(w)'
           b == buf[w]
           z == zk[k]
<1>0. /\ Sound(w) /\ Sound(w)' /\ ZkType /\ b \in Seq(Known) /\ s \in Seq(Known)
      /\ Aligned(s) /\ Ordered(s) /\ Behind(conf[w], s)
  BY StreamType DEF Sound, Delivery, TypeInv, WorkerType
<1>1. conf[w][k] = ValueToken(k, z) \/ \E i \in 1 .. Len(s) : s[i] = ValueToken(k, z)
  BY DEF Current
<1>2. SUFFICES conf'[w][k] = ValueToken(k, z) \/ \E i \in 1 .. Len(p) : p[i] = ValueToken(k, z)
  BY DEF Current
<1>3. z \in Versions /\ z \in Nat
  <2>1. zk[k] \in 0 .. changes /\ changes \in 0 .. MaxChanges /\ MaxChanges \in Nat
    BY CapAssumption DEF TypeInv, ZkType
  <2> QED
    BY <2>1 DEF Versions
<1>4. CASE p = s /\ conf'[w] = conf[w]
  BY <1>1, <1>4
<1>5. CASE conf'[w] = conf[w] /\ \E j \in Keys : p = s \o Message(j, zk[j])
  <2>1. PICK j \in Keys : p = s \o Message(j, zk[j])
    BY <1>5
  <2> HIDE DEF s, p
  <2>2. Len(p) = Len(s) + 4 /\ Len(s) \in Nat /\ \A i \in 1 .. Len(s) : p[i] = s[i]
    BY <1>0, <2>1, GrownIndex
  <2> QED
    BY <1>1, <1>5, <2>2
<1>6. CASE /\ p \in Seq(Known) /\ s = b \o p
           /\ conf'[w] = Apply(conf[w], Updates(b))
           /\ Whole(b)
  <2> HIDE DEF s, p, b
  <2>1. /\ Len(s) = Len(b) + Len(p) /\ Len(b) \in Nat /\ Len(p) \in Nat
        /\ \A i \in 1 .. Len(b) : s[i] = b[i]
        /\ \A i \in 1 .. Len(p) : s[Len(b) + i] = p[i]
    BY <1>0, <1>6, ConcatIndex
  <2>2. ASSUME NEW i \in 1 .. Len(b), b[i] = ValueToken(k, z)
        PROVE  conf'[w][k] = ValueToken(k, z)
    <3>1. Ordered(b)
      <4>1. \A i1 \in 1 .. Len(b) : i1 \in 1 .. Len(s) /\ s[i1] = b[i1]
        BY <2>1
      <4> QED
        BY <1>0, <4>1 DEF Ordered
    <3>2. Apply(conf[w], Updates(b))[k] = ValueToken(k, zk[k])
      BY <1>0, <1>6, <2>2, <3>1, ApplyWhole
    <3> QED
      BY <1>6, <3>2
  <2>3. ASSUME NEW i \in 1 .. Len(s), s[i] = ValueToken(k, z), i \notin 1 .. Len(b)
        PROVE  \E j \in 1 .. Len(p) : p[j] = ValueToken(k, z)
    <3>1. i - Len(b) \in 1 .. Len(p) /\ Len(b) + (i - Len(b)) = i
      BY <2>1, <2>3
    <3>2. p[i - Len(b)] = s[i]
      BY <2>1, <3>1
    <3> QED
      BY <2>3, <3>1, <3>2
  <2>4. ASSUME conf[w][k] = ValueToken(k, z) PROVE conf'[w][k] = ValueToken(k, z)
    <3> DEFINE r == Apply(conf[w], Updates(b))[k]
    <3>1. CASE r # conf[w][k]
      <4>1. PICK y \in 0 .. zk[k] :
                  r = ValueToken(k, y) /\ \A x \in Versions : conf[w][k] = ValueToken(k, x) => x <= y
        <5>1. Aligned(b \o p) /\ Behind(conf[w], b \o p)
          BY <1>0, <1>6
        <5> QED
          BY <1>0, <1>6, <3>1, <5>1, ParseTakes
      <4> HIDE DEF r
      <4>2. z <= y
        BY <1>3, <2>4, <4>1
      <4>3. y = z
        <5>1. y \in Int /\ y <= z
          BY <1>3, <4>1
        <5> QED
          BY <1>3, <4>2, <5>1
      <4> QED
        BY <1>6, <4>1, <4>3 DEF r
    <3>2. CASE r = conf[w][k]
      BY <1>6, <2>4, <3>2
    <3> QED
      BY <3>1, <3>2
  <2>5. ASSUME NEW i \in 1 .. Len(s), s[i] = ValueToken(k, z), i \in 1 .. Len(b)
        PROVE  conf'[w][k] = ValueToken(k, z)
    BY <2>1, <2>2, <2>5
  <2> QED
    BY <1>1, <2>3, <2>4, <2>5
<1> HIDE DEF z
<1> QED
  BY <1>0, <1>4, <1>5, <1>6, StreamStep

LEMMA QuietStep ==
  ASSUME TypeInv, Quiet, [Next]_vars
  PROVE  Quiet'
<1>1. ASSUME NEW w \in Workers, Worker(w) PROVE Quiet'
  <2>1. UNCHANGED <<session, events>> /\ clean' \subseteq clean
    BY <1>1 DEF Worker, StartTimeout, Ping, Read, Parse, Command, Crash, Respawn, zkVars
  <2> QED
    BY <2>1 DEF Quiet
<1>2. ASSUME NEW t \in Threads, Thread(t) PROVE Quiet'
  <2>1. UNCHANGED <<session, events>> /\ clean' \subseteq clean
    BY <1>2 DEF Thread, GetOK, GetFails, Write, WriteFails, zkVars
  <2> QED
    BY <2>1 DEF Quiet
<1>3. ASSUME NEW c \in Clients, Accept(c) PROVE Quiet'
  <2>1. UNCHANGED <<session, events>> /\ clean' = clean \cup {u \in Workers : AtRest(u)}
    BY <1>3 DEF Accept, zkVars
  <2>2. CASE \E u \in Workers : AtRest(u)
    BY <2>1, <2>2 DEF AtRest, Quiet
  <2>3. CASE ~\E u \in Workers : AtRest(u)
    BY <2>1, <2>3 DEF Quiet
  <2> QED
    BY <2>2, <2>3
<1>4. ASSUME \/ \E c \in Clients : AcceptEarly(c)
             \/ Answer
      PROVE  Quiet'
  BY <1>4 DEF AcceptEarly, Answer, Quiet, zkVars
<1>5. ASSUME Watcher PROVE Quiet'
  BY <1>5 DEF Watcher, Quiet
<1>6. ASSUME Close \/ Reopen PROVE Quiet'
  BY <1>6 DEF Close, Reopen, Quiet
<1>7. ASSUME Ends PROVE Quiet'
  BY <1>7, EndsRestarts DEF Restarted, Quiet
<1>8. ASSUME NEW k \in Keys, Change(k) PROVE Quiet'
  BY <1>8 DEF Change, Quiet
<1>9. ASSUME Expire PROVE Quiet'
  BY <1>9 DEF Expire, Quiet
<1>10. CASE UNCHANGED vars
  BY <1>10 DEF Quiet, vars, zkVars
<1> QED
  BY <1>1, <1>2, <1>3, <1>4, <1>5, <1>6, <1>7, <1>8, <1>9, <1>10
     DEF Next, Sender, Environment, Ends

LEMMA HealingStep ==
  ASSUME TypeInv, OneWriter, Delivery, Quiet, Healing, [Next]_vars
  PROVE  Healing'
<1> SUFFICES ASSUME clean' # {}, NEW k \in Keys, ~Pending(k)'
             PROVE  k \in watch' /\ session' = "ok" /\ \A w \in clean' : Current(w, k)'
  BY DEF Healing
<1>0. ~Ends /\ ~Expire /\ (\A t \in Threads : ~GetFails(t)) /\ clean \subseteq Workers
      /\ clean' \subseteq Workers /\ ~Close
  <2>1. ~Ends
    BY EndsRestarts DEF Restarted
  <2>2. ~Expire /\ \A t \in Threads : ~GetFails(t)
    BY DEF Expire, GetFails
  <2>3. ASSUME Close PROVE FALSE
    <3>1. events = <<>> /\ UNCHANGED <<todo, clean>> /\ events' = <<>> /\ session # "ok"
      BY <2>3 DEF Close, Quiet, senderVars
    <3>2. ~Pending(k)
      BY <3>1 DEF Pending
    <3> QED
      BY <3>1, <3>2 DEF Healing
  <2>4. clean \subseteq Workers /\ clean' \subseteq Workers
    BY TypeStep DEF TypeInv, HistoryType
  <2> QED
    BY <2>1, <2>2, <2>3, <2>4
<1>1. \A c \in Clients : ~Accept(c)
  <2> SUFFICES ASSUME NEW c \in Clients, Accept(c) PROVE FALSE
    OBVIOUS
  <2>1. todo'["main"] = KeyOrder /\ "main" \in Threads
    BY DEF Accept, TypeInv, SenderType, Threads
  <2> QED
    BY <2>1, AllPending
<1>2. clean' \subseteq clean
  <2>1. ASSUME NEW w \in Workers, Worker(w) PROVE clean' \subseteq clean
    BY <2>1 DEF Worker, StartTimeout, Ping, Read, Parse, Command, Crash, Respawn
  <2>2. ASSUME Sender PROVE clean' \subseteq clean
    BY <1>0, <1>1, <2>2 DEF Sender, Thread, GetOK, Write, WriteFails, AcceptEarly, Answer, Watcher,
                           Close, Reopen, Ends
  <2>3. CASE Environment
    BY <1>0, <2>3 DEF Environment, Change
  <2> QED
    BY <2>1, <2>2, <2>3 DEF Next, vars
<1>3. CASE \E t \in Threads : GetOK(t) /\ k = Head(todo[t])
  <2>1. PICK t \in Threads : GetOK(t) /\ k = Head(todo[t])
    BY <1>3
  <2>2. k \in watch' /\ session' = "ok" /\ zk' = zk
    BY <2>1 DEF GetOK
  <2>3. ~Writing(t)
    BY <2>1 DEF GetOK
  <2>4. ASSUME NEW w \in clean' PROVE Current(w, k)'
    <3> DEFINE s == Stream(w)
               p == Stream(w)'
    <3>1. p = s \o Message(k, zk[k])
      BY <1>0, <2>1, <2>3, StreamGet
    <3>2. s \in Seq(Known) /\ ZkType
      BY <1>0, StreamType DEF TypeInv
    <3> HIDE DEF s, p
    <3>3. Len(p) = Len(s) + 4 /\ Len(s) \in Nat /\ p[Len(s) + 3] = ValueToken(k, zk[k])
      BY <3>1, <3>2, GrownIndex
    <3>4. Len(s) + 3 \in 1 .. Len(p)
      BY <3>3
    <3> QED
      BY <2>2, <3>3, <3>4 DEF Current, p
  <2> QED
    BY <2>2, <2>4
<1>4. CASE \A t \in Threads : GetOK(t) \/ GetFails(t) => k # Head(todo[t])
  <2>1. ~Pending(k)
    BY <1>0, <1>4, PendingStep
  <2>2. k \in watch /\ session = "ok" /\ \A w \in clean : Current(w, k)
    BY <1>2, <2>1 DEF Healing
  <2>3. k \in watch' /\ session' = "ok" /\ zk'[k] = zk[k]
    BY <1>0, <2>2, WatchStep
  <2>4. ASSUME NEW w \in clean' PROVE Current(w, k)'
    BY <1>0, <1>2, <2>2, <2>3, CurrentStep
  <2> QED
    BY <2>3, <2>4
<1> QED
  BY <1>0, <1>3, <1>4

-----------------------------------------------------------------------------
(* The theorems.                                                           *)

LEMMA InvInit == Init => Inv
<1> SUFFICES ASSUME Init PROVE Inv
  OBVIOUS
<1>1. TypeInv
  BY TypeInit
<1>2. OneWriter
  BY DEF Init, OneWriter, OneMessage
<1>3. Noticed /\ Quiet
  BY NoticedInit DEF Init, Quiet
<1>4. Delivery
  <2> SUFFICES ASSUME NEW w \in Workers
               PROVE  Aligned(Stream(w)) /\ Ordered(Stream(w)) /\ Behind(conf[w], Stream(w))
    BY DEF Delivery
  <2>1. buf[w] = <<>> /\ pipe[w] = <<>> /\ \A t \in Threads : out[t] = <<>>
    BY DEF Init
  <2>2. Flight(out) = <<>>
    BY <2>1 DEF Flight
  <2>3. For(w, Flight(out)) = <<>>
    BY <2>2, ForEmpty
  <2>4. <<>> \o <<>> \o <<>> = <<>>
    OBVIOUS
  <2>5. Stream(w) = <<>>
    BY <2>1, <2>3, <2>4 DEF Stream
  <2> QED
    BY <2>5, EmptyDelivers
<1>5. Genuine
  BY DEF Init, Genuine, Unset
<1>6. Healing
  <2> SUFFICES ASSUME clean # {}, NEW k \in Keys PROVE Pending(k)
    BY DEF Healing
  <2>1. session = "ok"
    BY DEF Init
  <2>2. todo["main"] = KeyOrder /\ "main" \in Threads
    BY <2>1 DEF Init, Threads
  <2> QED
    BY <2>2, KeyOrderAssumption DEF Pending
<1> QED
  BY <1>1, <1>2, <1>3, <1>4, <1>5, <1>6 DEF Inv

LEMMA InvStep == Inv /\ [Next]_vars => Inv'
BY TypeStep, OneWriterStep, NoticedStep, DeliveryStep, GenuineStep, QuietStep, HealingStep DEF Inv

LEMMA InvHolds == Spec => []Inv
BY InvInit, InvStep, PTL DEF Spec

\* Whatever the interleaving of writes, reads, drains that come too early,
\* failed writes and crashes, what a worker has for a key is a value ZooKeeper
\* held for it, unless messages were mixed up in its own pipe.
THEOREM TakesOnlyGenuine == Spec => []Genuine
<1>1. Inv => Genuine
  BY DEF Inv
<1> QED
  BY <1>1, InvHolds, PTL

\* Unless messages were mixed up in its pipe, a worker never goes back to an
\* older value.
THEOREM NeverGoesBack == Spec => NeverBackwards
<1>1. Inv /\ [Next]_vars =>
        [\A w \in Workers, k \in Keys :
           /\ w \notin mixed' /\ worker'[w] # "down"
           /\ conf[w][k] \notin {<<>>, Commanded} /\ conf'[w][k] # Commanded
           => conf'[w][k] # <<>> /\ conf'[w][k][3] >= conf[w][k][3]]_vars
  BY BackwardsStep DEF Inv
<1> QED
  BY <1>1, InvHolds, PTL DEF Spec, NeverBackwards

LEMMA HealingRepairs == TypeInv /\ Healing => Healed
<1> SUFFICES ASSUME TypeInv, Healing, NEW w \in clean, AtRest(w)
             PROVE  conf[w] = [k \in Keys |-> ValueToken(k, zk[k])]
  BY DEF Healed
<1>1. w \in Workers /\ conf[w] \in [Keys -> Held]
  BY DEF TypeInv, WorkerType, HistoryType
<1>2. Stream(w) = <<>>
  BY <1>1, RestIsEmpty
<1>3. ASSUME NEW k \in Keys PROVE conf[w][k] = ValueToken(k, zk[k])
  <2>1. ~Pending(k)
    BY DEF AtRest, Idle, Pending
  <2>2. Current(w, k)
    BY <2>1 DEF Healing
  <2> QED
    BY <1>2, <2>2 DEF Current
<1> QED
  BY <1>1, <1>3

\* A registration that began at rest and is over, with nothing torn, mixed,
\* failed or restarted since, has given the worker the current value of every
\* key, whatever it had lost before.
THEOREM RegistrationRepairs == Spec => []Healed
<1>1. Inv => Healed
  BY HealingRepairs DEF Inv
<1> QED
  BY <1>1, InvHolds, PTL
=============================================================================
