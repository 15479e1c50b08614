------------------------ MODULE BlockQueueConservation ------------------------
(***************************************************************************)
(* For every Size >= 3 and every MaxEvents, and unless the consumer was    *)
(* lapped: events are posted in the order they were created, the memory of  *)
(* each is in exactly one place, and none is touched when it is freed.     *)
(***************************************************************************)
EXTENDS BlockQueueProofs, FiniteSetTheorems

-----------------------------------------------------------------------------
(* Order.                                                                  *)

\* The events the ring holds, oldest first, are newer than what was claimed
\* last and older than the one the producer is offering.  Lapped or not.
RingOrdered ==
  /\ \A i, j \in 1 .. Count : i < j => Backlog[i] < Backlog[j]
  /\ \A i \in 1 .. Count :
       /\ claimed < Backlog[i] /\ Backlog[i] <= created
       /\ pcP # "idle" => Backlog[i] < created
  /\ claimed <= created
  /\ pcP # "idle" => claimed < created

\* The event the consumer holds is the one its CAS claimed, and it is newer
\* than all that were posted.
HoldsClaimed ==
  /\ pcC = "readSlot" => CircularQueue[headC] = claimed
  /\ pcC \in {"readFree", "pushFree", "send"} => result = claimed
  /\ \A i \in DOMAIN posted :
       /\ posted[i] <= claimed
       /\ pcC \in {"readSlot", "readFree", "pushFree", "send"} => posted[i] < claimed
  /\ \A i, j \in DOMAIN posted : i < j => posted[i] < posted[j]

OrderInv == RingOrdered /\ (lapped \/ HoldsClaimed)

\* Elements of the ring when head moves, when tail moves, and in between.
LEMMA HeadMoves ==
  ASSUME TypeOK, TypeOK', head # tail, head' = Succ(head),
         UNCHANGED <<tail, CircularQueue>>
  PROVE  /\ Count \in Nat /\ Count >= 1 /\ Count' = Count - 1
         /\ Backlog[1] = CircularQueue[head]
         /\ \A i \in 1 .. Count' : Backlog'[i] = Backlog[i + 1]
<1> BacklogOK /\ BacklogOK'
  BY BacklogType, PTL
<1>1. /\ Backlog \in Seq(Pointer) /\ Backlog # <<>> /\ Backlog' = Tail(Backlog)
      /\ Len(Backlog) = Count /\ Len(Backlog') = Count' /\ Head(Backlog) = CircularQueue[head]
  BY BacklogTail DEF BacklogOK
<1>2. \A i \in 1 .. Len(Tail(Backlog)) : Tail(Backlog)[i] = Backlog[i + 1]
  BY <1>1, HeadTailProperties
<1>3. Count \in Nat /\ Len(Tail(Backlog)) = Len(Backlog) - 1 /\ Head(Backlog) = Backlog[1]
  BY <1>1, HeadTailProperties DEF BacklogOK
<1>4. Count >= 1
  BY <1>1, <1>3, EmptySeq
<1> QED
  BY <1>1, <1>2, <1>3, <1>4

LEMMA TailMoves ==
  ASSUME TypeOK, TypeOK', ~isBlockQueueFull, tail' = Succ(tail),
         UNCHANGED <<head, CircularQueue>>
  PROVE  /\ Count \in Nat /\ Count' = Count + 1
         /\ Backlog'[Count + 1] = CircularQueue[tail]
         /\ \A i \in 1 .. Count : Backlog'[i] = Backlog[i]
<1> BacklogOK /\ BacklogOK'
  BY BacklogType, PTL
<1>1. /\ Backlog \in Seq(Pointer) /\ Backlog' = Append(Backlog, CircularQueue[tail])
      /\ Len(Backlog) = Count /\ Len(Backlog') = Count' /\ Count \in Nat
  BY BacklogAppend DEF BacklogOK
<1>2. CircularQueue[tail] \in Pointer
  BY DEF TypeOK
<1> QED
  BY <1>1, <1>2, AppendProperties

LEMMA RingStays ==
  ASSUME UNCHANGED <<head, tail, CircularQueue>>
  PROVE  Count' = Count /\ Backlog' = Backlog
BY DEF Count, Backlog, Slot

\* What the ring holds are event numbers.
LEMMA BacklogNumbers ==
  ASSUME TypeOK
  PROVE  /\ Count \in Nat /\ Len(Backlog) = Count /\ DOMAIN Backlog = 1 .. Count
         /\ \A i \in 1 .. Count : Backlog[i] \in 0 .. MaxEvents
         /\ created \in 0 .. MaxEvents /\ claimed \in 0 .. MaxEvents /\ result \in 0 .. MaxEvents
<1>1. Pointer = 0 .. MaxEvents
  BY MaxEventsAssumption DEF Pointer, Events, NULL
<1>2. BacklogOK
  BY BacklogType
<1>3. \A i \in 1 .. Count : Backlog[i] \in Pointer
  BY <1>2 DEF BacklogOK
<1> QED
  BY <1>1, <1>2, <1>3 DEF BacklogOK, TypeOK

LEMMA RingOrderedStep ==
  ASSUME TypeOK, TypeOK', RingInv, Filled, RingOrdered, [Next]_vars
  PROVE  RingOrdered'
<1> USE DEF RingOrdered, ringVars, prodVars, consVars, history
<1>n. /\ Count \in Nat /\ \A i \in 1 .. Count : Backlog[i] \in Nat
      /\ created \in Nat /\ claimed \in Nat
  BY BacklogNumbers, MaxEventsAssumption
<1>s. ASSUME UNCHANGED <<head, tail, CircularQueue>> PROVE Count' = Count /\ Backlog' = Backlog
  BY <1>s, RingStays
<1>1. CASE Offer
  BY <1>1, <1>s, <1>n DEF Offer
<1>2. CASE CreateFails
  BY <1>2, <1>s, <1>n DEF CreateFails
<1>3. CASE Reclaim
  <2>1. CASE head = Succ(tail) /\ head' = Succ(head)
    <3>1. head # tail
      BY <2>1, SuccMoves DEF TypeOK
    <3>2. /\ Count' \in Nat /\ Count' = Count - 1
          /\ \A i \in 1 .. Count' : Backlog'[i] = Backlog[i + 1]
      BY <1>3, <2>1, <3>1, <1>n, HeadMoves DEF Reclaim
    <3> QED
      BY <1>3, <3>2, <1>n DEF Reclaim
  <2>2. CASE UNCHANGED head
    BY <1>3, <2>2, <1>s, <1>n DEF Reclaim
  <2> QED
    BY <1>3, <2>1, <2>2 DEF Reclaim
<1>4. CASE ReadFreeP
  BY <1>4, <1>s DEF ReadFreeP
<1>5. CASE PushFreeP
  BY <1>5, <1>s DEF PushFreeP
<1>6. CASE WriteSlot
  <2>1. Backlog' = Backlog /\ Count' = Count
    BY <1>6, BacklogStore DEF WriteSlot, Count
  <2> QED
    BY <1>6, <2>1 DEF WriteSlot
<1>7. CASE WriteTail
  <2>1. ~isBlockQueueFull /\ CircularQueue[tail] = created
    BY <1>7 DEF WriteTail, RingInv, Room, Filled
  <2>2. /\ Count' = Count + 1 /\ Backlog'[Count + 1] = created
        /\ \A i \in 1 .. Count : Backlog'[i] = Backlog[i]
    BY <1>7, <2>1, TailMoves DEF WriteTail
  <2> QED
    BY <1>7, <2>2, <1>n DEF WriteTail
<1>11. CASE CasHead
  <2>1. CASE head = headC
    <3>1. head # tail
      BY <1>11 DEF CasHead, RingInv, NoUnderflow, isBlockQueueEmpty
    <3>2. /\ Count >= 1 /\ Count' = Count - 1 /\ claimed' = Backlog[1]
          /\ \A i \in 1 .. Count' : Backlog'[i] = Backlog[i + 1]
      BY <1>11, <2>1, <3>1, HeadMoves DEF CasHead
    <3> QED
      BY <1>11, <3>2, <1>n DEF CasHead
  <2>2. CASE head # headC
    BY <1>11, <2>2, <1>s DEF CasHead
  <2> QED
    BY <2>1, <2>2
<1>12. CASE WakeUp \/ Poll \/ ReadHead \/ ReadSlot \/ ReadFreeC \/ PushFreeC \/ Send
            \/ Drain \/ PopFree \/ Destroy \/ Tick \/ Die \/ UNCHANGED vars
  <2>1. UNCHANGED <<head, tail, CircularQueue, created, pcP, claimed>>
    BY <1>12 DEF WakeUp, Poll, ReadHead, ReadSlot, ReadFreeC, PushFreeC, Send,
                 Drain, PopFree, Destroy, Tick, Die, vars
  <2> QED
    BY <2>1, <1>s
<1> QED
  BY <1>1, <1>2, <1>3, <1>4, <1>5, <1>6, <1>7, <1>11, <1>12
  DEF Next, Producer, ProducerStep, Consumer

LEMMA HoldsClaimedStep ==
  ASSUME TypeOK, RingInv, RingOrdered, HoldsClaimed, [Next]_vars, ~lapped'
  PROVE  HoldsClaimed'
<1> USE DEF HoldsClaimed, ringVars, prodVars, consVars, history
<1>n. /\ claimed \in Nat /\ result \in Nat /\ created \in Nat
      /\ posted \in Seq(Nat) /\ \A i \in DOMAIN posted : posted[i] \in Nat
  BY MaxEventsAssumption DEF TypeOK, Pointer, Events, NULL
<1>1. CASE WriteSlot
  <2>1. pcC = "readSlot" => CircularQueue'[headC] = CircularQueue[headC]
    BY <1>1 DEF WriteSlot, TypeOK
  <2> QED
    BY <1>1, <2>1 DEF WriteSlot
<1>2. CASE CasHead
  <2>1. CASE head = headC
    <3>1. head # tail
      BY <1>2 DEF CasHead, RingInv, NoUnderflow, isBlockQueueEmpty
    <3>2. Backlog[1] = CircularQueue[head] /\ 1 \in 1 .. Count
      <4>1. TypeOK'
        BY <1>2, SuccMoves DEF CasHead, TypeOK, Next, Living, Tick, Die, vars
      <4> QED
        BY <1>2, <2>1, <3>1, <4>1, HeadMoves DEF CasHead
    <3>3. claimed' = CircularQueue[head] /\ claimed < claimed' /\ claimed' \in Nat
      BY <1>2, <2>1, <3>2, BacklogNumbers DEF CasHead, RingOrdered
    <3> QED
      BY <1>2, <2>1, <3>3, <1>n DEF CasHead
  <2>2. CASE head # headC
    BY <1>2, <2>2 DEF CasHead
  <2> QED
    BY <2>1, <2>2
<1>3. CASE ReadSlot
  BY <1>3 DEF ReadSlot
<1>4. CASE Send
  <2>1. CASE UNCHANGED posted
    BY <1>4, <2>1, <1>n DEF Send
  <2>2. CASE posted' = Append(posted, result)
    <3>1. /\ DOMAIN posted' = 1 .. Len(posted) + 1 /\ DOMAIN posted = 1 .. Len(posted)
          /\ posted'[Len(posted) + 1] = claimed /\ Len(posted) \in Nat
          /\ \A i \in 1 .. Len(posted) : posted'[i] = posted[i]
      BY <1>4, <2>2, <1>n, AppendProperties DEF Send
    <3>2. \A i \in 1 .. Len(posted) : posted[i] < claimed /\ posted[i] \in Nat
      BY <1>4, <1>n DEF Send
    <3>3. pcC' \in {"idle", "drain"} /\ UNCHANGED <<claimed, result, CircularQueue, headC>>
      BY <1>4 DEF Send
    <3>4. \A i \in DOMAIN posted' : posted'[i] <= claimed
      BY <3>1, <3>2, <1>n
    <3>5. \A i, j \in DOMAIN posted' : i < j => posted'[i] < posted'[j]
      BY <3>1, <3>2, <1>n
    <3> QED
      BY <3>3, <3>4, <3>5
  <2> QED
    BY <1>4, <2>1, <2>2 DEF Send
<1>5. CASE \/ Offer \/ CreateFails \/ Reclaim \/ ReadFreeP \/ PushFreeP \/ WriteTail
           \/ WakeUp \/ Poll \/ ReadHead \/ ReadFreeC \/ PushFreeC \/ Drain
           \/ PopFree \/ Destroy \/ Tick \/ Die \/ UNCHANGED vars
  <2>1. UNCHANGED <<CircularQueue, result, claimed, posted>>
    BY <1>5 DEF Offer, CreateFails, Reclaim, ReadFreeP, PushFreeP, WriteTail, WakeUp, Poll,
                ReadHead, ReadFreeC, PushFreeC, Drain, PopFree, Destroy, Tick, Die, vars
  <2>2. /\ pcC' = "readSlot" => pcC = "readSlot" /\ headC' = headC
        /\ pcC' \in {"readFree", "pushFree", "send"} => pcC \in {"readFree", "pushFree", "send"}
    BY <1>5 DEF Offer, CreateFails, Reclaim, ReadFreeP, PushFreeP, WriteTail, WakeUp, Poll,
                ReadHead, ReadFreeC, PushFreeC, Drain, PopFree, Destroy, Tick, Die, vars
  <2> QED
    BY <2>1, <2>2
<1> QED
  BY <1>1, <1>2, <1>3, <1>4, <1>5 DEF Next, Producer, ProducerStep, Consumer

LEMMA LappedStays == [Next]_vars /\ lapped => lapped'
BY DEF Next, Producer, ProducerStep, Consumer, Offer, CreateFails, Reclaim, ReadFreeP, PushFreeP,
       WriteSlot, WriteTail, WakeUp, Poll, ReadHead, CasHead, ReadSlot, ReadFreeC, PushFreeC,
       Send, Drain, PopFree, Destroy, Tick, Die, vars, ringVars, prodVars, consVars, history

LEMMA OrderInit == Init => OrderInv
<1> SUFFICES ASSUME Init PROVE OrderInv
  OBVIOUS
<1>1. Count = 0 /\ DOMAIN posted = {}
  BY DEF Init, Count
<1> QED
  BY <1>1 DEF Init, OrderInv, RingOrdered, HoldsClaimed, NULL

LEMMA OrderStep ==
  TypeOK /\ TypeOK' /\ RingInv /\ Filled /\ OrderInv /\ [Next]_vars => OrderInv'
<1> SUFFICES ASSUME TypeOK, TypeOK', RingInv, Filled, OrderInv, [Next]_vars PROVE OrderInv'
  OBVIOUS
<1>1. RingOrdered'
  BY RingOrderedStep DEF OrderInv
<1>2. lapped' \/ HoldsClaimed'
  BY HoldsClaimedStep, LappedStays DEF OrderInv
<1> QED
  BY <1>1, <1>2 DEF OrderInv

\* Events are posted in the order the requests were blocked, each at most once,
\* whatever is dropped or fails to be allocated on either side meanwhile.
THEOREM PostsInOrder == Spec => []PostedInOrder
<1>1. Init => RingInv /\ Filled
  BY DEF Init, RingInv, NoUnderflow, Room, Filled, PolledIsEvent, Occupied
<1>2. OrderInv => PostedInOrder
  BY DEF OrderInv, HoldsClaimed, PostedInOrder
<1> QED
  BY TypeCorrect, <1>1, RingStep, FilledStep, OrderInit, OrderStep, <1>2, PTL DEF Spec

-----------------------------------------------------------------------------
(* Memory.                                                                 *)

OnList(e) == \E k \in DOMAIN freelist : freelist[k] = e
Offered(e) == pcP # "idle" /\ created = e
OutOfRing(e) == pcP \in {"readFree", "pushFree"} /\ Dropped = e
Claimed(e) == pcC = "readSlot" /\ CircularQueue[headC] = e
Polled(e) == pcC \in {"readFree", "pushFree"} /\ result = e
Victim(e) == pcC = "destroy" /\ Head(freelistC) = e
Freed(e) == e \in freed
Lost(e) == e \in lost

\* The memory of e is somewhere.
Placed(e) == InRing(e) \/ OnList(e) \/ Offered(e) \/ OutOfRing(e) \/ Claimed(e)
               \/ Polled(e) \/ Victim(e) \/ Freed(e) \/ Lost(e)

\* It is not in two places of different kinds.
Apart(e) ==
  /\ InRing(e) => ~(OnList(e) \/ Offered(e) \/ OutOfRing(e) \/ Claimed(e)
                      \/ Polled(e) \/ Victim(e) \/ Freed(e) \/ Lost(e))
  /\ OnList(e) => ~(Offered(e) \/ OutOfRing(e) \/ Claimed(e)
                      \/ Polled(e) \/ Victim(e) \/ Freed(e) \/ Lost(e))
  /\ Offered(e) => ~(OutOfRing(e) \/ Claimed(e) \/ Polled(e) \/ Victim(e)
                       \/ Freed(e) \/ Lost(e))
  /\ OutOfRing(e) => ~(Claimed(e) \/ Polled(e) \/ Victim(e) \/ Freed(e) \/ Lost(e))
  /\ Claimed(e) => ~(Polled(e) \/ Victim(e) \/ Freed(e) \/ Lost(e))
  /\ Polled(e) => ~(Victim(e) \/ Freed(e) \/ Lost(e))
  /\ Victim(e) => ~(Freed(e) \/ Lost(e))
  /\ ~(Freed(e) /\ Lost(e))

\* An event is on the free list once.
ListedOnce ==
  \A i, j \in DOMAIN freelist : freelist[i] = freelist[j] /\ freelist[i] # NULL => i = j

\* What is not created yet is nowhere.
MemoryInv ==
  lapped \/ /\ ListedOnce
            /\ \A e \in Events : Apart(e) /\ (Placed(e) <=> e <= created)

\* What the ring holds after head or tail moved.
LEMMA LeavesRing ==
  ASSUME TypeOK, TypeOK', RingOrdered, head # tail, head' = Succ(head),
         UNCHANGED <<tail, CircularQueue>>
  PROVE  /\ InRing(CircularQueue[head])
         /\ \A e : InRing(e)' <=> InRing(e) /\ e # CircularQueue[head]
<1>1. /\ Count \in Nat /\ Count >= 1 /\ Count' = Count - 1
      /\ Backlog[1] = CircularQueue[head]
      /\ \A i \in 1 .. Count' : Backlog'[i] = Backlog[i + 1]
  BY HeadMoves
<1>2. DOMAIN Backlog = 1 .. Count /\ \A i \in 1 .. Count : Backlog[i] \in 0 .. MaxEvents
  BY BacklogNumbers
<1>3. DOMAIN Backlog' = 1 .. Count'
  BY DEF Backlog
<1>4. ASSUME NEW i \in 2 .. Count PROVE Backlog[i] # Backlog[1]
  <2>1. 1 \in 1 .. Count /\ i \in 1 .. Count /\ 1 < i
    BY <1>1
  <2>2. Backlog[1] < Backlog[i] /\ Backlog[1] \in Nat /\ Backlog[i] \in Nat
    BY <2>1, <1>2, MaxEventsAssumption DEF RingOrdered
  <2> QED
    BY <2>2
<1>5. InRing(CircularQueue[head])
  BY <1>1, <1>2 DEF InRing
<1>6. ASSUME NEW e PROVE InRing(e)' <=> InRing(e) /\ e # CircularQueue[head]
  <2>1. ASSUME InRing(e)' PROVE InRing(e) /\ e # CircularQueue[head]
    <3>1. PICK i \in 1 .. Count' : Backlog'[i] = e
      BY <2>1, <1>3 DEF InRing
    <3>2. i + 1 \in 2 .. Count /\ i + 1 \in DOMAIN Backlog /\ Backlog[i + 1] = e
      BY <3>1, <1>1, <1>2
    <3>3. e # Backlog[1]
      BY <3>2, <1>4
    <3> QED
      BY <3>2, <3>3, <1>1 DEF InRing
  <2>2. ASSUME InRing(e), e # CircularQueue[head] PROVE InRing(e)'
    <3>1. PICK i \in 1 .. Count : Backlog[i] = e
      BY <2>2, <1>2 DEF InRing
    <3>2. i - 1 \in 1 .. Count' /\ Backlog'[i - 1] = e
      BY <3>1, <2>2, <1>1
    <3> QED
      BY <3>2, <1>3 DEF InRing
  <2> QED
    BY <2>1, <2>2
<1> QED
  BY <1>5, <1>6

LEMMA EntersRing ==
  ASSUME TypeOK, TypeOK', ~isBlockQueueFull, tail' = Succ(tail),
         UNCHANGED <<head, CircularQueue>>
  PROVE  \A e : InRing(e)' <=> InRing(e) \/ e = CircularQueue[tail]
<1>1. /\ Count \in Nat /\ Count' = Count + 1
      /\ Backlog'[Count + 1] = CircularQueue[tail]
      /\ \A i \in 1 .. Count : Backlog'[i] = Backlog[i]
  BY TailMoves
<1>2. DOMAIN Backlog = 1 .. Count /\ DOMAIN Backlog' = 1 .. Count'
  BY DEF Backlog
<1> QED
  BY <1>1, <1>2 DEF InRing

\* What the free list holds after a push or a pop.
LEMMA EntersList ==
  ASSUME TypeOK, ListedOnce, NEW x \in Pointer, ~OnList(x) \/ x = NULL,
         freelist' = <<x>> \o freelist
  PROVE  ListedOnce' /\ \A e : OnList(e)' <=> OnList(e) \/ e = x
<1>1. /\ Len(freelist) \in Nat /\ DOMAIN freelist = 1 .. Len(freelist)
      /\ DOMAIN freelist' = 1 .. Len(freelist) + 1
      /\ freelist'[1] = x
      /\ \A i \in 1 .. Len(freelist) : freelist'[i + 1] = freelist[i]
  BY DEF TypeOK
<1>2. ASSUME NEW e PROVE OnList(e)' <=> OnList(e) \/ e = x
  <2>1. ASSUME OnList(e)' PROVE OnList(e) \/ e = x
    <3>1. PICK i \in 1 .. Len(freelist) + 1 : freelist'[i] = e
      BY <2>1, <1>1 DEF OnList
    <3>2. i = 1 \/ (i - 1 \in 1 .. Len(freelist) /\ freelist[i - 1] = e)
      BY <3>1, <1>1
    <3> QED
      BY <3>1, <3>2, <1>1 DEF OnList
  <2>2. ASSUME OnList(e) PROVE OnList(e)'
    <3>1. PICK i \in 1 .. Len(freelist) : freelist[i] = e
      BY <2>2, <1>1 DEF OnList
    <3>2. i + 1 \in DOMAIN freelist' /\ freelist'[i + 1] = e
      BY <3>1, <1>1
    <3> QED
      BY <3>2 DEF OnList
  <2>3. OnList(x)'
    BY <1>1 DEF OnList
  <2> QED
    BY <2>1, <2>2, <2>3
<1>3. ListedOnce'
  <2> SUFFICES ASSUME NEW i \in 1 .. Len(freelist) + 1, NEW j \in 1 .. Len(freelist) + 1,
                      freelist'[i] = freelist'[j], freelist'[i] # NULL
               PROVE  i = j
    BY <1>1 DEF ListedOnce
  <2>1. \A n \in 2 .. Len(freelist) + 1 :
          n - 1 \in DOMAIN freelist /\ freelist'[n] = freelist[n - 1]
    BY <1>1
  <2>2. \A n \in 2 .. Len(freelist) + 1 : freelist'[n] = x => x = NULL
    BY <2>1 DEF OnList
  <2>3. CASE i = 1 \/ j = 1
    BY <2>3, <2>2, <1>1
  <2>4. CASE i # 1 /\ j # 1
    <3>1. /\ i - 1 \in DOMAIN freelist /\ freelist[i - 1] = freelist'[i]
          /\ j - 1 \in DOMAIN freelist /\ freelist[j - 1] = freelist'[j]
      BY <2>4, <2>1, <1>1
    <3>2. i - 1 = j - 1
      BY <3>1 DEF ListedOnce
    <3> QED
      BY <3>2
  <2> QED
    BY <2>3, <2>4
<1> QED
  BY <1>2, <1>3

LEMMA LeavesList ==
  ASSUME TypeOK, ListedOnce, freelist # <<>>, freelist' = Tail(freelist)
  PROVE  /\ ListedOnce' /\ OnList(Head(freelist))
         /\ \A e : e # NULL => (OnList(e)' <=> OnList(e) /\ e # Head(freelist))
<1>1. /\ Len(freelist) \in Nat \ {0} /\ DOMAIN freelist = 1 .. Len(freelist)
      /\ DOMAIN freelist' = 1 .. Len(freelist) - 1
      /\ Head(freelist) = freelist[1]
      /\ \A i \in 1 .. Len(freelist) - 1 : freelist'[i] = freelist[i + 1]
  BY EmptySeq, HeadTailProperties DEF TypeOK
<1>2. OnList(Head(freelist))
  BY <1>1 DEF OnList
<1>3. ASSUME NEW e, e # NULL PROVE OnList(e)' <=> OnList(e) /\ e # Head(freelist)
  <2>1. ASSUME OnList(e)' PROVE OnList(e) /\ e # Head(freelist)
    <3>1. PICK i \in 1 .. Len(freelist) - 1 : freelist'[i] = e
      BY <2>1, <1>1 DEF OnList
    <3>2. i + 1 \in DOMAIN freelist /\ freelist[i + 1] = e /\ i + 1 # 1 /\ 1 \in DOMAIN freelist
      BY <3>1, <1>1
    <3> QED
      BY <3>2, <1>1, <1>3 DEF OnList, ListedOnce
  <2>2. ASSUME OnList(e), e # Head(freelist) PROVE OnList(e)'
    <3>1. PICK i \in 1 .. Len(freelist) : freelist[i] = e
      BY <2>2, <1>1 DEF OnList
    <3>2. i - 1 \in DOMAIN freelist' /\ freelist'[i - 1] = e
      BY <3>1, <2>2, <1>1
    <3> QED
      BY <3>2 DEF OnList
  <2> QED
    BY <2>1, <2>2
<1>4. ListedOnce'
  <2> SUFFICES ASSUME NEW i \in 1 .. Len(freelist) - 1, NEW j \in 1 .. Len(freelist) - 1,
                      freelist'[i] = freelist'[j], freelist'[i] # NULL
               PROVE  i = j
    BY <1>1 DEF ListedOnce
  <2>1. /\ i + 1 \in DOMAIN freelist /\ freelist[i + 1] = freelist'[i]
        /\ j + 1 \in DOMAIN freelist /\ freelist[j + 1] = freelist'[j]
    BY <1>1
  <2>2. i + 1 = j + 1
    BY <2>1 DEF ListedOnce
  <2> QED
    BY <2>2
<1> QED
  BY <1>2, <1>3, <1>4

LEMMA MemoryStep ==
  ASSUME TypeOK, TypeOK', Popping, RingInv, Filled, RingOrdered, MemoryInv, [Next]_vars
  PROVE  MemoryInv'
<1> SUFFICES ASSUME ~lapped'
             PROVE  ListedOnce' /\ \A e \in Events : Apart(e)' /\ (Placed(e)' <=> e <= created')
  BY DEF MemoryInv
<1>m. ListedOnce /\ \A e \in Events : Apart(e) /\ (Placed(e) <=> e <= created)
  BY LappedStays DEF MemoryInv
<1>t. /\ created \in 0 .. MaxEvents /\ \A e \in Events : e \in Nat /\ e # NULL
      /\ Dropped \in Pointer /\ result \in Pointer
  BY SuccMoves, MaxEventsAssumption DEF TypeOK, Pointer, Events, NULL, Dropped
<1> USE DEF ringVars, prodVars, consVars, history
<1>r. ASSUME Count' = Count, Backlog' = Backlog PROVE \A e : InRing(e)' <=> InRing(e)
  BY <1>r DEF InRing
<1>u. ASSUME UNCHANGED <<head, tail, CircularQueue>> PROVE \A e : InRing(e)' <=> InRing(e)
  BY <1>u, <1>r, RingStays
<1>l. ASSUME UNCHANGED freelist PROVE ListedOnce' /\ \A e : OnList(e)' <=> OnList(e)
  BY <1>l, <1>m DEF ListedOnce, OnList
\* Steps that move nothing: the ring, the list and the numbers stay, and each
\* thread stays within the steps that hold the same event.
<1>q. ASSUME UNCHANGED <<head, tail, CircularQueue, freelist, created, result, freed, lost>>,
             \/ pcP' = pcP
             \/ {pcP, pcP'} \subseteq {"readFree", "pushFree"}
             \/ {pcP, pcP'} \subseteq {"reclaim", "writeSlot"},
             \/ pcC' = pcC /\ UNCHANGED <<headC, freelistC>>
             \/ {pcC, pcC'} \subseteq {"readFree", "pushFree"}
             \/ {pcC, pcC'} \cap {"readSlot", "readFree", "pushFree", "destroy"} = {}
      PROVE  ListedOnce' /\ \A e \in Events : Apart(e)' /\ (Placed(e)' <=> e <= created')
  <2>1. \A e : /\ Offered(e)' <=> Offered(e)
               /\ OutOfRing(e)' <=> OutOfRing(e)
               /\ Freed(e)' <=> Freed(e)
               /\ Lost(e)' <=> Lost(e)
    BY <1>q DEF Offered, OutOfRing, Freed, Lost, Dropped
  <2>2. \A e : /\ Claimed(e)' <=> Claimed(e)
               /\ Polled(e)' <=> Polled(e)
               /\ Victim(e)' <=> Victim(e)
    BY <1>q DEF Claimed, Polled, Victim
  <2> QED
    BY <2>1, <2>2, <1>q, <1>u, <1>l, <1>m DEF Apart, Placed
<1>1. CASE Offer
  <2>1. /\ \A e : InRing(e)' <=> InRing(e)
        /\ ListedOnce' /\ \A e : OnList(e)' <=> OnList(e)
    BY <1>1, <1>u, <1>l DEF Offer
  <2>2. \A e : /\ Offered(e)' <=> e = created + 1
               /\ ~Offered(e) /\ ~OutOfRing(e) /\ ~OutOfRing(e)'
               /\ Claimed(e)' <=> Claimed(e)
               /\ Polled(e)' <=> Polled(e)
               /\ Victim(e)' <=> Victim(e)
               /\ Freed(e)' <=> Freed(e)
               /\ Lost(e)' <=> Lost(e)
    BY <1>1 DEF Offer, Offered, OutOfRing, Claimed, Polled, Victim, Freed, Lost
  <2>3. \A e \in Events : e <= created' <=> e <= created \/ e = created + 1
    BY <1>1, <1>t DEF Offer
  <2>4. \A e \in Events : e = created + 1 => ~Placed(e)
    BY <1>m, <1>t
  <2> QED
    BY <2>1, <2>2, <2>3, <2>4, <1>m DEF Apart, Placed
<1>2. CASE CreateFails
  <2>1. /\ \A e : InRing(e)' <=> InRing(e)
        /\ ListedOnce' /\ \A e : OnList(e)' <=> OnList(e)
    BY <1>2, <1>u, <1>l DEF CreateFails
  <2>2. \A e : /\ ~Offered(e) /\ ~Offered(e)'
               /\ OutOfRing(e)' <=> OutOfRing(e)
               /\ Claimed(e)' <=> Claimed(e)
               /\ Polled(e)' <=> Polled(e)
               /\ Victim(e)' <=> Victim(e)
               /\ Freed(e)' <=> Freed(e) \/ e = created + 1
               /\ Lost(e)' <=> Lost(e)
    BY <1>2 DEF CreateFails, Offered, OutOfRing, Claimed, Polled, Victim, Freed, Lost, Dropped
  <2>3. \A e \in Events : e <= created' <=> e <= created \/ e = created + 1
    BY <1>2, <1>t DEF CreateFails
  <2>4. \A e \in Events : e = created + 1 => ~Placed(e)
    BY <1>m, <1>t
  <2> QED
    BY <2>1, <2>2, <2>3, <2>4, <1>m DEF Apart, Placed
<1>3. CASE Reclaim
  <2>1. CASE head = Succ(tail) /\ head' = Succ(head)
    <3>1. head # tail
      BY <2>1, SuccMoves DEF TypeOK
    <3>2. InRing(Dropped) /\ \A e : InRing(e)' <=> InRing(e) /\ e # Dropped
      BY <1>3, <2>1, <3>1, LeavesRing DEF Reclaim, Dropped
    <3>3. ListedOnce' /\ \A e : OnList(e)' <=> OnList(e)
      BY <1>3, <1>l DEF Reclaim
    <3>4. \A e : /\ Offered(e) <=> e = created
                 /\ ~OutOfRing(e)
                 /\ Claimed(e)' <=> Claimed(e)
                 /\ Polled(e)' <=> Polled(e)
                 /\ Victim(e)' <=> Victim(e)
                 /\ Freed(e)' <=> Freed(e)
      BY <1>3 DEF Reclaim, Offered, OutOfRing, Claimed, Polled, Victim, Freed
    <3>5. CASE pcP' = "readFree" /\ UNCHANGED lost
      <4>1. \A e : /\ Offered(e)' <=> Offered(e)
                   /\ OutOfRing(e)' <=> e = Dropped
                   /\ Lost(e)' <=> Lost(e)
        BY <1>3, <3>5 DEF Reclaim, Offered, OutOfRing, Lost, Dropped
      <4>2. created' = created
        BY <1>3 DEF Reclaim
      <4> QED
        BY <3>2, <3>3, <3>4, <4>1, <4>2, <1>m DEF Apart, Placed
    <3>6. CASE pcP' = "idle" /\ lost' = lost \cup {Dropped, created}
      <4>1. \A e : /\ ~Offered(e)' /\ ~OutOfRing(e)'
                   /\ Lost(e)' <=> Lost(e) \/ e = Dropped \/ e = created
        BY <1>3, <3>6 DEF Reclaim, Offered, OutOfRing, Lost
      <4>2. created' = created
        BY <1>3 DEF Reclaim
      <4> QED
        BY <3>2, <3>3, <3>4, <4>1, <4>2, <1>m DEF Apart, Placed
    <3> QED
      BY <1>3, <2>1, <3>5, <3>6 DEF Reclaim
  <2>2. CASE head # Succ(tail)
    BY <1>3, <2>2, <1>q DEF Reclaim
  <2> QED
    BY <1>3, <2>1, <2>2 DEF Reclaim
<1>4. CASE PushFreeP
  <2>1. CASE freelist = freelistP
    <3>1. freelist' = <<Dropped>> \o freelist /\ OutOfRing(Dropped)
      BY <1>4, <2>1 DEF PushFreeP, OutOfRing
    <3>2. ~OnList(Dropped) \/ Dropped = NULL
      BY <3>1, <1>m, <1>t DEF Apart, Pointer
    <3>3. ListedOnce' /\ \A e : OnList(e)' <=> OnList(e) \/ e = Dropped
      BY <3>1, <3>2, <1>m, <1>t, EntersList
    <3>4. /\ created' = created
          /\ \A e : InRing(e)' <=> InRing(e)
      BY <1>4, <1>u DEF PushFreeP
    <3>5. \A e : /\ Offered(e)' <=> Offered(e)
                 /\ OutOfRing(e) <=> e = Dropped
                 /\ ~OutOfRing(e)'
                 /\ Claimed(e)' <=> Claimed(e)
                 /\ Polled(e)' <=> Polled(e)
                 /\ Victim(e)' <=> Victim(e)
                 /\ Freed(e)' <=> Freed(e)
                 /\ Lost(e)' <=> Lost(e)
      BY <1>4, <2>1 DEF PushFreeP, Offered, OutOfRing, Claimed, Polled, Victim, Freed, Lost
    <3> QED
      BY <3>3, <3>4, <3>5, <1>m DEF Apart, Placed
  <2>2. CASE freelist # freelistP
    BY <1>4, <2>2, <1>q DEF PushFreeP
  <2> QED
    BY <2>1, <2>2
<1>5. CASE WriteSlot
  <2>1. Backlog' = Backlog /\ Count' = Count
    BY <1>5, BacklogStore DEF WriteSlot, Count
  <2>2. UNCHANGED <<freelist, created>>
    BY <1>5 DEF WriteSlot
  <2>3. pcC = "readSlot" => CircularQueue'[headC] = CircularQueue[headC]
    BY <1>5 DEF WriteSlot, TypeOK
  <2>4. \A e : /\ Offered(e)' <=> Offered(e)
               /\ OutOfRing(e)' <=> OutOfRing(e)
               /\ Claimed(e)' <=> Claimed(e)
               /\ Polled(e)' <=> Polled(e)
               /\ Victim(e)' <=> Victim(e)
               /\ Freed(e)' <=> Freed(e)
               /\ Lost(e)' <=> Lost(e)
    BY <1>5, <2>3 DEF WriteSlot, Offered, OutOfRing, Claimed, Polled, Victim, Freed, Lost
  <2> QED
    BY <2>1, <2>2, <2>4, <1>r, <1>l, <1>m DEF Apart, Placed
<1>6. CASE WriteTail
  <2>1. ~isBlockQueueFull /\ CircularQueue[tail] = created
    BY <1>6 DEF WriteTail, RingInv, Room, Filled
  <2>2. \A e : InRing(e)' <=> InRing(e) \/ e = created
    BY <1>6, <2>1, EntersRing DEF WriteTail
  <2>3. /\ created' = created
        /\ ListedOnce' /\ \A e : OnList(e)' <=> OnList(e)
    BY <1>6, <1>l DEF WriteTail
  <2>4. \A e : /\ Offered(e) <=> e = created
               /\ ~Offered(e)' /\ ~OutOfRing(e) /\ ~OutOfRing(e)'
               /\ Claimed(e)' <=> Claimed(e)
               /\ Polled(e)' <=> Polled(e)
               /\ Victim(e)' <=> Victim(e)
               /\ Freed(e)' <=> Freed(e)
               /\ Lost(e)' <=> Lost(e)
    BY <1>6 DEF WriteTail, Offered, OutOfRing, Claimed, Polled, Victim, Freed, Lost
  <2> QED
    BY <2>2, <2>3, <2>4, <1>m DEF Apart, Placed
<1>7. CASE CasHead
  <2>1. CASE head = headC
    <3>1. head # tail
      BY <1>7 DEF CasHead, RingInv, NoUnderflow, isBlockQueueEmpty
    <3>2. /\ InRing(CircularQueue[head])
          /\ \A e : InRing(e)' <=> InRing(e) /\ e # CircularQueue[head]
      BY <1>7, <2>1, <3>1, LeavesRing DEF CasHead
    <3>3. /\ created' = created
          /\ ListedOnce' /\ \A e : OnList(e)' <=> OnList(e)
      BY <1>7, <1>l DEF CasHead
    <3>4. \A e : /\ Offered(e)' <=> Offered(e)
                 /\ OutOfRing(e)' <=> OutOfRing(e)
                 /\ ~Claimed(e) /\ (Claimed(e)' <=> e = CircularQueue[head])
                 /\ Polled(e)' <=> Polled(e)
                 /\ Victim(e)' <=> Victim(e)
                 /\ Freed(e)' <=> Freed(e)
                 /\ Lost(e)' <=> Lost(e)
      BY <1>7, <2>1 DEF CasHead, Offered, OutOfRing, Claimed, Polled, Victim, Freed, Lost, Dropped
    <3> QED
      BY <3>2, <3>3, <3>4, <1>m DEF Apart, Placed
  <2>2. CASE head # headC
    BY <1>7, <2>2, <1>q DEF CasHead
  <2> QED
    BY <2>1, <2>2
<1>8. CASE ReadSlot
  <2>1. /\ created' = created
        /\ \A e : InRing(e)' <=> InRing(e)
        /\ ListedOnce' /\ \A e : OnList(e)' <=> OnList(e)
    BY <1>8, <1>u, <1>l DEF ReadSlot
  <2>2. \A e : /\ Offered(e)' <=> Offered(e)
               /\ OutOfRing(e)' <=> OutOfRing(e)
               /\ Claimed(e) <=> e = CircularQueue[headC]
               /\ ~Claimed(e)' /\ ~Polled(e)
               /\ Victim(e)' <=> Victim(e)
               /\ Freed(e)' <=> Freed(e)
    BY <1>8 DEF ReadSlot, Offered, OutOfRing, Claimed, Polled, Victim, Freed, Dropped
  <2>3. CASE pcC' = "readFree" /\ UNCHANGED lost
    <3>1. \A e : /\ Polled(e)' <=> e = CircularQueue[headC]
                 /\ Lost(e)' <=> Lost(e)
      BY <1>8, <2>3 DEF ReadSlot, Polled, Lost
    <3> QED
      BY <2>1, <2>2, <3>1, <1>m DEF Apart, Placed
  <2>4. CASE pcC' = "idle" /\ lost' = lost \cup {result'}
    <3>1. \A e : /\ ~Polled(e)'
                 /\ Lost(e)' <=> Lost(e) \/ e = CircularQueue[headC]
      BY <1>8, <2>4 DEF ReadSlot, Polled, Lost
    <3> QED
      BY <2>1, <2>2, <3>1, <1>m DEF Apart, Placed
  <2> QED
    BY <1>8, <2>3, <2>4 DEF ReadSlot
<1>9. CASE PushFreeC
  <2>1. CASE freelist = freelistC
    <3>1. freelist' = <<result>> \o freelist /\ Polled(result)
      BY <1>9, <2>1 DEF PushFreeC, Polled
    <3>2. ~OnList(result) \/ result = NULL
      BY <3>1, <1>m, <1>t DEF Apart, Pointer
    <3>3. ListedOnce' /\ \A e : OnList(e)' <=> OnList(e) \/ e = result
      BY <3>1, <3>2, <1>m, <1>t, EntersList
    <3>4. /\ created' = created
          /\ \A e : InRing(e)' <=> InRing(e)
      BY <1>9, <1>u DEF PushFreeC
    <3>5. \A e : /\ Offered(e)' <=> Offered(e)
                 /\ OutOfRing(e)' <=> OutOfRing(e)
                 /\ Claimed(e)' <=> Claimed(e)
                 /\ (Polled(e) <=> e = result) /\ ~Polled(e)'
                 /\ Victim(e)' <=> Victim(e)
                 /\ Freed(e)' <=> Freed(e)
                 /\ Lost(e)' <=> Lost(e)
      BY <1>9, <2>1 DEF PushFreeC, Offered, OutOfRing, Claimed, Polled, Victim, Freed, Lost, Dropped
    <3> QED
      BY <3>3, <3>4, <3>5, <1>m DEF Apart, Placed
  <2>2. CASE freelist # freelistC
    BY <1>9, <2>2, <1>q DEF PushFreeC
  <2> QED
    BY <2>1, <2>2
<1>10. CASE PopFree
  <2>1. CASE freelist = freelistC
    <3>1. freelist # <<>> /\ freelist' = Tail(freelist)
      BY <1>10, <2>1 DEF PopFree, Popping
    <3>2. /\ ListedOnce' /\ OnList(Head(freelist))
          /\ \A e \in Events : OnList(e)' <=> OnList(e) /\ e # Head(freelist)
      BY <3>1, <1>m, <1>t, LeavesList
    <3>3. /\ created' = created
          /\ \A e : InRing(e)' <=> InRing(e)
      BY <1>10, <1>u DEF PopFree
    <3>4. \A e : /\ Offered(e)' <=> Offered(e)
                 /\ OutOfRing(e)' <=> OutOfRing(e)
                 /\ Claimed(e)' <=> Claimed(e)
                 /\ Polled(e)' <=> Polled(e)
                 /\ ~Victim(e) /\ (Victim(e)' <=> e = Head(freelist))
                 /\ Freed(e)' <=> Freed(e)
                 /\ Lost(e)' <=> Lost(e)
      BY <1>10, <2>1 DEF PopFree, Offered, OutOfRing, Claimed, Polled, Victim, Freed, Lost, Dropped
    <3> QED
      BY <3>2, <3>3, <3>4, <1>m DEF Apart, Placed
  <2>2. CASE freelist # freelistC
    BY <1>10, <2>2, <1>q DEF PopFree
  <2> QED
    BY <2>1, <2>2
<1>11. CASE Destroy
  <2>1. /\ created' = created
        /\ \A e : InRing(e)' <=> InRing(e)
        /\ ListedOnce' /\ \A e : OnList(e)' <=> OnList(e)
    BY <1>11, <1>u, <1>l DEF Destroy
  <2>2. \A e : /\ Offered(e)' <=> Offered(e)
               /\ OutOfRing(e)' <=> OutOfRing(e)
               /\ Claimed(e)' <=> Claimed(e)
               /\ Polled(e)' <=> Polled(e)
               /\ (Victim(e) <=> e = Head(freelistC)) /\ ~Victim(e)'
               /\ Freed(e)' <=> Freed(e) \/ e = Head(freelistC)
               /\ Lost(e)' <=> Lost(e)
    BY <1>11 DEF Destroy, Offered, OutOfRing, Claimed, Polled, Victim, Freed, Lost, Dropped
  <2> QED
    BY <2>1, <2>2, <1>m DEF Apart, Placed
<1>12. CASE \/ ReadFreeP \/ WakeUp \/ Poll \/ ReadHead \/ ReadFreeC \/ Send \/ Drain
            \/ Tick \/ Die \/ UNCHANGED vars
  <2>1. UNCHANGED <<head, tail, CircularQueue, freelist, created, result, freed, lost>>
    BY <1>12 DEF ReadFreeP, WakeUp, Poll, ReadHead, ReadFreeC, Send, Drain, Tick, Die, vars
  <2>2. \/ pcP' = pcP
        \/ {pcP, pcP'} \subseteq {"readFree", "pushFree"}
    BY <1>12 DEF ReadFreeP, WakeUp, Poll, ReadHead, ReadFreeC, Send, Drain, Tick, Die, vars
  <2>3. \/ pcC' = pcC /\ UNCHANGED <<headC, freelistC>>
        \/ {pcC, pcC'} \subseteq {"readFree", "pushFree"}
        \/ {pcC, pcC'} \cap {"readSlot", "readFree", "pushFree", "destroy"} = {}
    BY <1>12 DEF ReadFreeP, WakeUp, Poll, ReadHead, ReadFreeC, Send, Drain, Tick, Die, vars
  <2> QED
    BY <2>1, <2>2, <2>3, <1>q
<1> QED
  BY <1>1, <1>2, <1>3, <1>4, <1>5, <1>6, <1>7, <1>8, <1>9, <1>10, <1>11, <1>12
  DEF Next, Producer, ProducerStep, Consumer

-----------------------------------------------------------------------------
(* Exactly one place.                                                      *)

LEMMA OnePlace ==
  ASSUME TypeOK, RingOrdered, ListedOnce, NEW e \in Events, Placed(e), Apart(e)
  PROVE  \E p : Places(e) = {p}
<1> USE DEF Tag
<1>1. e # NULL
  BY DEF Events, NULL
<1> DEFINE inRing == {<<"ring", k>> : k \in {i \in DOMAIN Backlog : Backlog[i] = e}}
           onList == {<<"freelist", k>> : k \in {i \in DOMAIN freelist : freelist[i] = e}}
           inHand == Tag("offered", Offered(e)) \cup Tag("dropped", OutOfRing(e))
                       \cup Tag("claimed", Claimed(e)) \cup Tag("polled", Polled(e))
                       \cup Tag("victim", Victim(e)) \cup Tag("freed", Freed(e))
                       \cup Tag("lost", Lost(e))
<1>2. Places(e) = inRing \cup onList \cup inHand
  BY DEF Places, Offered, OutOfRing, Claimed, Polled, Victim, Freed, Lost
<1>3. ~InRing(e) => inRing = {}
  BY DEF InRing
<1>4. ~OnList(e) => onList = {}
  BY DEF OnList
<1>5. CASE InRing(e)
  <2>1. PICK k \in DOMAIN Backlog : Backlog[k] = e
    BY <1>5 DEF InRing
  <2>2. ASSUME NEW i \in DOMAIN Backlog, Backlog[i] = e PROVE i = k
    <3>1. /\ Count \in Nat /\ i \in 1 .. Count /\ k \in 1 .. Count /\ e \in Nat
      BY BacklogNumbers DEF Events
    <3>2. ~(i < k) /\ ~(k < i)
      BY <2>1, <2>2, <3>1 DEF RingOrdered
    <3> QED
      BY <3>1, <3>2
  <2>3. inRing = {<<"ring", k>>}
    BY <2>1, <2>2
  <2>4. onList = {} /\ inHand = {}
    BY <1>4, <1>5 DEF Apart
  <2> HIDE DEF inRing, onList, inHand
  <2> QED
    BY <1>2, <2>3, <2>4
<1>6. CASE OnList(e)
  <2>1. PICK k \in DOMAIN freelist : freelist[k] = e
    BY <1>6 DEF OnList
  <2>2. \A i \in DOMAIN freelist : freelist[i] = e => i = k
    BY <1>1, <2>1 DEF ListedOnce
  <2>3. onList = {<<"freelist", k>>}
    BY <2>1, <2>2
  <2>4. inRing = {} /\ inHand = {}
    BY <1>3, <1>6 DEF Apart
  <2> HIDE DEF inRing, onList, inHand
  <2> QED
    BY <1>2, <2>3, <2>4
<1>7. CASE ~InRing(e) /\ ~OnList(e)
  <2>1. inRing = {} /\ onList = {}
    BY <1>3, <1>4, <1>7
  <2>2. \E p : inHand = {p}
    BY <1>7 DEF Placed, Apart
  <2> HIDE DEF inRing, onList, inHand
  <2> QED
    BY <1>2, <2>1, <2>2
<1> QED
  BY <1>5, <1>6, <1>7

LEMMA MemoryInit == Init => MemoryInv
<1> SUFFICES ASSUME Init PROVE MemoryInv
  OBVIOUS
<1>1. DOMAIN Backlog = {} /\ DOMAIN freelist = {}
  BY DEF Init, Backlog, Count
<1>2. ASSUME NEW e \in Events PROVE ~Placed(e) /\ ~(e <= created)
  BY <1>1 DEF Init, Placed, InRing, OnList, Offered, OutOfRing, Claimed, Polled, Victim,
              Freed, Lost, Events
<1>3. \A e \in Events : Apart(e)
  BY <1>2 DEF Apart, Placed
<1> QED
  BY <1>1, <1>2, <1>3 DEF MemoryInv, ListedOnce

\* The pool of every event is in exactly one place: none is freed twice or
\* while it is queued, and none leaks but on a failed allocation.
THEOREM ConservesMemory == Spec => []Conservation
<1>1. Init => RingInv /\ Filled
  BY DEF Init, RingInv, NoUnderflow, Room, Filled, PolledIsEvent, Occupied
<1>2. TypeInv => TypeOK /\ Popping
  BY DEF TypeInv
<1>3. TypeOK /\ OrderInv /\ MemoryInv => Conservation
  <2> SUFFICES ASSUME TypeOK, RingOrdered, MemoryInv, ~lapped, NEW e \in 1 .. created
               PROVE  Cardinality(Places(e)) = 1
    BY DEF Conservation, OrderInv
  <2>1. e \in Events /\ e <= created
    BY MaxEventsAssumption DEF TypeOK, Pointer, Events, NULL
  <2>2. \E p : Places(e) = {p}
    BY <2>1, OnePlace DEF MemoryInv
  <2> QED
    BY <2>2, FS_Singleton
<1>4. OrderInv => RingOrdered
  BY DEF OrderInv
<1>5. TypeOK /\ TypeOK' /\ Popping /\ RingInv /\ Filled /\ RingOrdered /\ MemoryInv /\ [Next]_vars
        => MemoryInv'
  BY MemoryStep
<1> QED
  BY TypeInit, TypeStep, <1>1, RingStep, FilledStep, OrderInit, OrderStep, MemoryInit,
     <1>2, <1>3, <1>4, <1>5, PTL
  DEF Spec
-----------------------------------------------------------------------------
(* What the threads touch.                                                 *)

\* A push keeps what is on the list, and adds the event pushed.
LEMMA PushKeeps ==
  ASSUME NEW x \in Pointer, NEW s \in Seq(Pointer), NEW y,
         y = x \/ \E i \in DOMAIN s : s[i] = y
  PROVE  \E i \in DOMAIN (<<x>> \o s) : (<<x>> \o s)[i] = y
<1> DEFINE t == <<x>> \o s
<1>1. Len(t) = Len(s) + 1 /\ DOMAIN t = 1 .. Len(t) /\ t[1] = x
  OBVIOUS
<1>2. CASE y = x
  <2>1. 1 \in DOMAIN t
    BY <1>1
  <2> QED
    BY <1>1, <1>2, <2>1
<1>3. CASE \E i \in DOMAIN s : s[i] = y
  <2>1. PICK i \in DOMAIN s : s[i] = y
    BY <1>3
  <2>2. i + 1 \in DOMAIN t /\ t[i + 1] = y
    BY <2>1
  <2> QED
    BY <2>2
<1> QED
  BY <1>2, <1>3

\* The event being sent is on the free list already, and so is the one the drain is
\* about to take off: only the push thread pops.
Listing ==
  /\ pcC = "send" => OnList(result)
  /\ pcC = "popFree" => OnList(Head(freelistC))

LEMMA ListingStep == TypeOK /\ Listing /\ [Next]_vars => Listing'
<1> SUFFICES ASSUME TypeOK, Listing, [Next]_vars PROVE Listing'
  OBVIOUS
<1> USE DEF Listing, OnList, ringVars, prodVars, consVars, history
<1>1. CASE PushFreeP
  <2>1. Dropped \in Pointer
    BY SuccMoves DEF Dropped, TypeOK
  <2>2. freelist' = <<Dropped>> \o freelist \/ UNCHANGED freelist
    BY <1>1 DEF PushFreeP
  <2>3. \A e : (\E k \in DOMAIN freelist : freelist[k] = e)
                => \E k \in DOMAIN freelist' : freelist'[k] = e
    <3>1. CASE UNCHANGED freelist
      BY <3>1
    <3>2. CASE freelist' = <<Dropped>> \o freelist
      BY <2>1, <3>2, PushKeeps DEF TypeOK
    <3> QED
      BY <2>2, <3>1, <3>2
  <2>4. UNCHANGED <<pcC, result, freelistC>>
    BY <1>1 DEF PushFreeP
  <2> QED
    BY <2>3, <2>4
<1>2. CASE PushFreeC
  BY <1>2, PushKeeps DEF PushFreeC, TypeOK
<1>3. CASE Drain
  <2>1. freelist # <<>> => 1 \in DOMAIN freelist /\ Head(freelist) = freelist[1]
    BY DEF TypeOK
  <2> QED
    BY <1>3, <2>1 DEF Drain
<1>4. CASE PopFree
  BY <1>4 DEF PopFree
<1>5. CASE \/ Offer \/ CreateFails \/ Reclaim \/ ReadFreeP \/ WriteSlot \/ WriteTail \/ WakeUp
           \/ Poll \/ ReadHead \/ CasHead \/ ReadSlot \/ ReadFreeC \/ Send \/ Destroy \/ Tick
           \/ Die \/ UNCHANGED vars
  <2>1. /\ UNCHANGED freelist
        /\ pcC' = "send" => pcC = "send" /\ UNCHANGED result
        /\ pcC' = "popFree" => pcC = "popFree" /\ UNCHANGED freelistC
    BY <1>5 DEF Offer, CreateFails, Reclaim, ReadFreeP, WriteSlot, WriteTail, WakeUp, Poll, ReadHead,
                CasHead, ReadSlot, ReadFreeC, Send, Destroy, Tick, Die, vars
  <2> QED
    BY <2>1
<1> QED
  BY <1>1, <1>2, <1>3, <1>4, <1>5 DEF Next, Producer, ProducerStep, Consumer

\* What is touched is in the ring, on the list, or in the hands of one thread.
LEMMA TouchedIsPlaced ==
  ASSUME TypeOK, Listing, NEW e, Touches(e)
  PROVE  InRing(e) \/ OutOfRing(e) \/ Claimed(e) \/ Polled(e) \/ OnList(e) \/ Victim(e)
<1>1. CASE pcP = "reclaim" /\ head = Succ(tail) /\ e = Dropped
  <2>1. head # tail
    BY <1>1, SuccMoves DEF TypeOK
  <2>2. head \in 0 .. Size - 1 /\ tail \in 0 .. Size - 1
    BY DEF TypeOK, Index
  <2>3. Slot(1 - 1) = head /\ 1 \in 1 .. Count
    BY <2>1, <2>2, SizeAssumption DEF Slot, Count
  <2>4. 1 \in DOMAIN Backlog /\ Backlog[1] = CircularQueue[head]
    BY <2>3 DEF Backlog
  <2> QED
    BY <1>1, <2>4 DEF InRing, Dropped
<1>2. CASE ~(pcP = "reclaim" /\ head = Succ(tail) /\ e = Dropped)
  BY <1>2 DEF Touches, OutOfRing, Claimed, Polled, Victim, Listing
<1> QED
  BY <1>1, <1>2

\* No thread touches an event whose pool is freed: the push thread puts an event on
\* the list of those to free before it uses it, and the producer writes to the events it
\* drops, but neither is ever too late.
THEOREM NeverUsesFreed == Spec => []NoUseAfterFree
<1>1. Init => RingInv /\ Filled /\ Listing
  BY DEF Init, RingInv, NoUnderflow, Room, Filled, PolledIsEvent, Occupied, Listing
<1>2. TypeInv => TypeOK /\ Popping
  BY DEF TypeInv
<1>3. TypeOK /\ MemoryInv /\ Listing => NoUseAfterFree
  <2> SUFFICES ASSUME TypeOK, MemoryInv, Listing, ~lapped, NEW e \in 1 .. created, Touches(e)
               PROVE  e \notin freed
    BY DEF NoUseAfterFree
  <2>1. e \in Events
    BY MaxEventsAssumption DEF TypeOK, Pointer, Events, NULL
  <2>2. Apart(e)
    BY <2>1 DEF MemoryInv
  <2> QED
    BY <2>2, TouchedIsPlaced DEF Apart, Freed
<1>4. OrderInv => RingOrdered
  BY DEF OrderInv
<1>5. TypeOK /\ TypeOK' /\ Popping /\ RingInv /\ Filled /\ RingOrdered /\ MemoryInv /\ [Next]_vars
        => MemoryInv'
  BY MemoryStep
<1> QED
  BY TypeInit, TypeStep, <1>1, RingStep, FilledStep, OrderInit, OrderStep, MemoryInit, ListingStep,
     <1>2, <1>3, <1>4, <1>5, PTL
  DEF Spec
=============================================================================
