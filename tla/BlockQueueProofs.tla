--------------------------- MODULE BlockQueueProofs ---------------------------
(***************************************************************************)
(* Theorems about BlockQueue for every Size >= 3 and every MaxEvents: its  *)
(* types, that the ring never runs under, that what is polled is an event, *)
(* and that the ring implements DropOldest.                                *)
(***************************************************************************)
EXTENDS BlockQueue, SequenceTheorems, TLAPS

-----------------------------------------------------------------------------
(* Succ on the ring.                                                       *)

\* Succ is (i + 1) % size, what the code computes.
LEMMA SuccIsModulo ==
  ASSUME NEW i \in Index
  PROVE  Succ(i) = (i + 1) % Size
<1>1. CASE i = Size - 1
  <2>1. i + 1 = Size /\ Succ(i) = 0
    BY <1>1, SizeAssumption DEF Succ, Index
  <2>2. Size % Size = 0
    BY SizeAssumption, SMT
  <2> QED
    BY <2>1, <2>2
<1>2. CASE i # Size - 1
  <2>1. i + 1 \in 0 .. Size - 1 /\ Succ(i) = i + 1
    BY <1>2, SizeAssumption DEF Succ, Index
  <2>2. (i + 1) % Size = i + 1
    BY <2>1, SizeAssumption, SMT
  <2> QED
    BY <2>1, <2>2
<1> QED
  BY <1>1, <1>2

\* Neither one nor two steps lead back to where they started.
LEMMA SuccMoves ==
  ASSUME NEW i \in Index
  PROVE  Succ(i) \in Index /\ Succ(i) # i /\ Succ(Succ(i)) # i
BY SizeAssumption DEF Succ, Index

\* Two indices with one successor are one.
LEMMA SuccInjective ==
  ASSUME NEW i \in Index, NEW j \in Index, Succ(i) = Succ(j)
  PROVE  i = j
BY SizeAssumption DEF Succ, Index

-----------------------------------------------------------------------------
(* Types.                                                                  *)

\* The thread that pops found the list non-empty, and its copy is non-empty.
Popping == pcC \in {"popFree", "destroy"} => freelistC # <<>>

TypeInv == TypeOK /\ Popping

\* A pointer pushed on a list of pointers.
LEMMA PushType ==
  ASSUME NEW x \in Pointer, NEW s \in Seq(Pointer)
  PROVE  <<x>> \o s \in Seq(Pointer) /\ <<x>> \o s # <<>>
OBVIOUS

LEMMA TypeInit == Init => TypeInv
<1>1. 0 \in Index /\ NULL \in Pointer /\ NULL = 0
  BY SizeAssumption DEF Index, Pointer, NULL
<1>2. <<>> \in Seq(Pointer)
  OBVIOUS
<1> QED
  BY <1>1, <1>2 DEF Init, TypeInv, TypeOK, Popping

LEMMA TypeStep == TypeInv /\ [Next]_vars => TypeInv'
<1> SUFFICES ASSUME TypeInv, [Next]_vars PROVE TypeInv'
  OBVIOUS
<1> USE SizeAssumption, MaxEventsAssumption
<1> USE DEF TypeInv, TypeOK, Popping, ringVars, prodVars, consVars, history
<1>d. Dropped \in Pointer
  BY SuccMoves DEF Dropped
<1>e. died' \in BOOLEAN
  BY DEF Next, Living, Tick, Die, vars
<1> USE <1>e
<1>1. CASE Offer
  BY <1>1 DEF Offer, Pointer, Events, NULL
<1>2. CASE CreateFails
  BY <1>2 DEF CreateFails, Pointer, Events, NULL
<1>3. CASE Reclaim
  BY <1>3, <1>d, SuccMoves DEF Reclaim
<1>4. CASE ReadFreeP
  BY <1>4 DEF ReadFreeP
<1>5. CASE PushFreeP
  BY <1>5, <1>d, PushType DEF PushFreeP
<1>6. CASE WriteSlot
  BY <1>6 DEF WriteSlot
<1>7. CASE WriteTail
  BY <1>7, SuccMoves DEF WriteTail
<1>8. CASE WakeUp
  BY <1>8 DEF WakeUp
<1>9. CASE Poll
  BY <1>9 DEF Poll
<1>10. CASE ReadHead
  BY <1>10 DEF ReadHead
<1>11. CASE CasHead
  BY <1>11, SuccMoves DEF CasHead
<1>12. CASE ReadSlot
  BY <1>12 DEF ReadSlot
<1>13. CASE ReadFreeC
  BY <1>13 DEF ReadFreeC
<1>14. CASE PushFreeC
  BY <1>14, PushType DEF PushFreeC
<1>15. CASE Send
  <2>1. posted' \in Seq(Pointer)
    <3>1. CASE UNCHANGED posted
      BY <3>1
    <3>2. CASE posted' = Append(posted, result)
      BY <3>2
    <3> QED
      BY <1>15, <3>1, <3>2 DEF Send
  <2>2. pcC' \in {"idle", "drain"}
    BY <1>15 DEF Send
  <2> QED
    BY <1>15, <2>1, <2>2 DEF Send
<1>16. CASE Drain
  BY <1>16 DEF Drain
<1>17. CASE PopFree
  <2>1. freelist # <<>> /\ freelist = freelistC => Tail(freelist) \in Seq(Pointer)
    OBVIOUS
  <2>2. freelist' \in Seq(Pointer)
    BY <1>17, <2>1 DEF PopFree
  <2> QED
    BY <1>17, <2>2 DEF PopFree
<1>18. CASE Destroy
  BY <1>18 DEF Destroy
<1>19. CASE Tick
  BY <1>19 DEF Tick
<1>20. CASE UNCHANGED vars
  BY <1>20 DEF vars
<1>21. CASE Die
  BY <1>21 DEF Die
<1> QED
  BY <1>1, <1>2, <1>3, <1>4, <1>5, <1>6, <1>7, <1>8, <1>9, <1>10, <1>11, <1>12, <1>13, <1>14, <1>15, <1>16, <1>17, <1>18, <1>19, <1>20, <1>21
  DEF Next, Producer, ProducerStep, Consumer

\* Every variable keeps its type: no index leaves the ring, and no step of
\* either thread pushes, posts or frees anything but an event pointer.
THEOREM TypeCorrect == Spec => []TypeOK
<1>1. TypeInv => TypeOK
  BY DEF TypeInv
<1> QED
  BY TypeInit, TypeStep, <1>1, PTL DEF Spec

-----------------------------------------------------------------------------
(* The ring never underflows.                                              *)

\* NoUnderflow is not inductive: the store of tail by the producer must not
\* close the ring on a consumer that has seen it non-empty.  Between its test
\* for a full ring and that store the producer has room, for the consumer
\* only makes more of it.
Room ==
  pcP \in {"readFree", "pushFree", "writeSlot", "writeTail"} => ~isBlockQueueFull

RingInv == NoUnderflow /\ Room

LEMMA RingStep == TypeOK /\ RingInv /\ [Next]_vars => RingInv'
<1> SUFFICES ASSUME TypeOK, RingInv, [Next]_vars PROVE RingInv'
  OBVIOUS
<1> USE DEF RingInv, NoUnderflow, Room, isBlockQueueEmpty, isBlockQueueFull,
            ringVars, prodVars, consVars, history
<1>t. head \in Index /\ tail \in Index
  BY DEF TypeOK
<1>1. CASE Offer
  BY <1>1, <1>t, SuccMoves, SuccInjective DEF Offer
<1>2. CASE CreateFails
  BY <1>2 DEF CreateFails
<1>3. CASE Reclaim
  BY <1>3, <1>t, SuccMoves, SuccInjective DEF Reclaim
<1>4. CASE ReadFreeP
  BY <1>4 DEF ReadFreeP
<1>5. CASE PushFreeP
  BY <1>5 DEF PushFreeP
<1>6. CASE WriteSlot
  BY <1>6 DEF WriteSlot
<1>7. CASE WriteTail
  BY <1>7, <1>t, SuccMoves, SuccInjective DEF WriteTail
<1>8. CASE WakeUp
  BY <1>8 DEF WakeUp
<1>9. CASE Poll
  BY <1>9 DEF Poll
<1>10. CASE ReadHead
  BY <1>10 DEF ReadHead
<1>11. CASE CasHead
  BY <1>11, <1>t, SuccMoves, SuccInjective DEF CasHead
<1>12. CASE ReadSlot
  BY <1>12 DEF ReadSlot
<1>13. CASE ReadFreeC
  BY <1>13 DEF ReadFreeC
<1>14. CASE PushFreeC
  BY <1>14 DEF PushFreeC
<1>15. CASE Send
  BY <1>15 DEF Send
<1>16. CASE Drain
  BY <1>16 DEF Drain
<1>17. CASE PopFree
  BY <1>17 DEF PopFree
<1>18. CASE Destroy
  BY <1>18 DEF Destroy
<1>19. CASE Tick
  BY <1>19 DEF Tick
<1>20. CASE UNCHANGED vars
  BY <1>20 DEF vars
<1>21. CASE Die
  BY <1>21 DEF Die
<1> QED
  BY <1>1, <1>2, <1>3, <1>4, <1>5, <1>6, <1>7, <1>8, <1>9, <1>10,
     <1>11, <1>12, <1>13, <1>14, <1>15, <1>16, <1>17, <1>18, <1>19, <1>20, <1>21
  DEF Next, Producer, ProducerStep, Consumer

\* The single emptiness test of blockQueuePoll is enough: head never passes
\* tail, whatever the producer drops between the test and the CAS.
THEOREM NeverUnderflows == Spec => []NoUnderflow
<1>1. Init => RingInv
  BY DEF Init, RingInv, NoUnderflow, Room
<1>2. RingInv => NoUnderflow
  BY DEF RingInv
<1> QED
  BY TypeCorrect, <1>1, RingStep, <1>2, PTL DEF Spec

-----------------------------------------------------------------------------
(* The contents of the ring.                                               *)

\* Backlog is a sequence of Count events, none of them in the slot at tail.
BacklogOK ==
  /\ Count \in 0 .. Size - 1
  /\ Backlog \in Seq(Pointer)
  /\ Len(Backlog) = Count
  /\ \A k \in 1 .. Count : /\ Slot(k - 1) \in Index
                           /\ Slot(k - 1) # tail
                           /\ Backlog[k] = CircularQueue[Slot(k - 1)]

LEMMA BacklogType == TypeOK => BacklogOK
<1> SUFFICES ASSUME TypeOK PROVE BacklogOK
  OBVIOUS
<1>1. head \in 0 .. Size - 1 /\ tail \in 0 .. Size - 1
  BY DEF TypeOK, Index
<1>2. Count \in 0 .. Size - 1
  BY <1>1, SizeAssumption DEF Count
<1>3. \A k \in 1 .. Count : Slot(k - 1) \in Index /\ Slot(k - 1) # tail
  BY <1>1, SizeAssumption DEF Count, Slot, Index
<1>4. \A k \in 1 .. Count : CircularQueue[Slot(k - 1)] \in Pointer
  BY <1>3 DEF TypeOK
<1>5. Backlog \in [1 .. Count -> Pointer]
  BY <1>4 DEF Backlog
<1>6. Backlog \in Seq(Pointer)
  BY <1>2, <1>5
<1> QED
  BY <1>2, <1>3, <1>5, <1>6 DEF Backlog, BacklogOK

\* Moving head takes the first event off.
LEMMA BacklogTail ==
  ASSUME TypeOK, TypeOK', head # tail, head' = Succ(head),
         UNCHANGED <<tail, CircularQueue>>
  PROVE  /\ Backlog # <<>> /\ Backlog' = Tail(Backlog)
         /\ Len(Backlog) = Count
         /\ Head(Backlog) = CircularQueue[head]
<1> BacklogOK /\ BacklogOK'
  BY BacklogType, PTL
<1> USE DEF BacklogOK
<1>1. head \in 0 .. Size - 1 /\ tail \in 0 .. Size - 1
  BY DEF TypeOK, Index
<1>2. Count >= 1 /\ Count' = Count - 1
  BY <1>1, SizeAssumption DEF Count, Succ
<1>3. \A k \in 1 .. Count' : Slot(k - 1)' = Slot((k + 1) - 1)
  BY <1>1, SizeAssumption DEF Count, Slot, Succ
<1>4. Backlog # <<>> /\ Head(Backlog) = CircularQueue[head]
  <2>1. Backlog \in Seq(Pointer) /\ Len(Backlog) >= 1
    BY <1>2
  <2>2. Slot(1 - 1) = head
    BY <1>1, SizeAssumption DEF Slot
  <2>3. 1 \in 1 .. Count /\ Backlog[1] = CircularQueue[head]
    BY <1>2, <2>2
  <2> QED
    BY <2>1, <2>3
<1>5. Backlog' = Tail(Backlog)
  <2>1. /\ Tail(Backlog) \in Seq(Pointer)
        /\ Len(Tail(Backlog)) = Count - 1
        /\ \A k \in 1 .. Count - 1 : Tail(Backlog)[k] = Backlog[k + 1]
    BY <1>4, HeadTailProperties
  <2>2. Backlog' \in Seq(Pointer) /\ Len(Backlog') = Count - 1
    BY <1>2
  <2>3. ASSUME NEW k \in 1 .. Count - 1 PROVE Backlog'[k] = Backlog[k + 1]
    BY <2>3, <1>2, <1>3  DEF Backlog
  <2> QED
    BY <2>1, <2>2, <2>3, SeqEqual
<1> QED
  BY <1>4, <1>5

\* Moving tail adds the event in its slot.
LEMMA BacklogAppend ==
  ASSUME TypeOK, TypeOK', ~isBlockQueueFull, tail' = Succ(tail),
         UNCHANGED <<head, CircularQueue>>
  PROVE  /\ Len(Backlog) < Size - 1
         /\ Backlog' = Append(Backlog, CircularQueue[tail])
<1> BacklogOK /\ BacklogOK'
  BY BacklogType, PTL
<1> USE DEF BacklogOK
<1>1. head \in 0 .. Size - 1 /\ tail \in 0 .. Size - 1
  BY DEF TypeOK, Index
<1>2. Count < Size - 1 /\ Count' = Count + 1
  BY <1>1, SizeAssumption DEF Count, Succ, isBlockQueueFull
<1>3. \A k \in 1 .. Count : Slot(k - 1)' = Slot(k - 1)
  BY <1>1, SizeAssumption DEF Slot
<1>4. Slot(Count) = tail
  BY <1>1, SizeAssumption DEF Slot, Count
<1>5. CircularQueue[tail] \in Pointer
  BY DEF TypeOK
<1> DEFINE t == Append(Backlog, CircularQueue[tail])
<1>6. /\ t \in Seq(Pointer) /\ Len(t) = Count + 1
      /\ \A k \in 1 .. Count : t[k] = Backlog[k]
      /\ t[Count + 1] = CircularQueue[tail]
  BY <1>5, AppendProperties
<1>7. Backlog' \in Seq(Pointer) /\ Len(Backlog') = Count + 1
  BY <1>2
<1>8. ASSUME NEW k \in 1 .. Count + 1 PROVE Backlog'[k] = t[k]
  BY <1>2, <1>3, <1>4, <1>6  DEF Backlog, Slot
<1>9. Backlog' = t
  BY <1>6, <1>7, <1>8, SeqEqual
<1> QED
  BY <1>2, <1>9

\* The slot at tail is outside: its store changes nothing.
LEMMA BacklogStore ==
  ASSUME TypeOK, NEW x, CircularQueue' = [CircularQueue EXCEPT ![tail] = x],
         UNCHANGED <<head, tail>>
  PROVE  Backlog' = Backlog
<1>1. Count' = Count /\ \A k \in 1 .. Count : Slot(k - 1)' = Slot(k - 1)
  BY DEF Count, Slot
<1>2. \A k \in 1 .. Count : CircularQueue'[Slot(k - 1)] = CircularQueue[Slot(k - 1)]
  BY BacklogType DEF TypeOK, BacklogOK
<1> QED
  BY <1>1, <1>2 DEF Backlog

-----------------------------------------------------------------------------
(* What is polled is an event.                                             *)

\* A slot between head and tail is never empty: it is stored before tail
\* makes it visible, and what a claimed slot is rewritten with is an event.
Filled ==
  /\ \A i \in Occupied : CircularQueue[i] # NULL
  /\ pcP # "idle" => created # NULL
  /\ pcP = "writeTail" => CircularQueue[tail] = created
  /\ pcC = "readSlot" => CircularQueue[headC] # NULL
  /\ PolledIsEvent

LEMMA OccupiedMoves ==
  ASSUME NEW h \in Index, NEW t \in Index
  PROVE  LET Occ(hh, tt) == IF hh <= tt THEN hh .. tt - 1
                                        ELSE (hh .. Size - 1) \cup (0 .. tt - 1)
         IN  /\ Occ(h, t) \subseteq Index /\ t \notin Occ(h, t)
             /\ h # t => h \in Occ(h, t) /\ Occ(Succ(h), t) \subseteq Occ(h, t)
             /\ Succ(t) # h => Occ(h, Succ(t)) \subseteq Occ(h, t) \cup {t}
BY SizeAssumption DEF Index, Succ

LEMMA FilledStep == TypeOK /\ RingInv /\ Filled /\ [Next]_vars => Filled'
<1> SUFFICES ASSUME TypeOK, RingInv, Filled, [Next]_vars PROVE Filled'
  OBVIOUS
<1> USE DEF Filled, PolledIsEvent, Occupied, ringVars, prodVars, consVars, history
<1>t. head \in Index /\ tail \in Index /\ headC \in Index /\ created \in Nat
  BY MaxEventsAssumption DEF TypeOK, Pointer, Events, NULL
<1>c. /\ CircularQueue \in [Index -> Pointer]
      /\ pcC \in {"casHead"} => head # tail
      /\ pcP \in {"writeTail"} => Succ(tail) # head
  BY DEF TypeOK, RingInv, NoUnderflow, Room, isBlockQueueEmpty, isBlockQueueFull
<1>1. CASE Offer
  BY <1>1, <1>t DEF Offer, NULL
<1>2. CASE CreateFails
  BY <1>2, <1>t DEF CreateFails
<1>3. CASE Reclaim
  <2>1. CASE head = Succ(tail) /\ head' = Succ(head)
    <3>1. head # tail
      BY <2>1, <1>t, SuccMoves
    <3> QED
      BY <1>3, <2>1, <3>1, <1>t, OccupiedMoves DEF Reclaim
  <2>2. CASE UNCHANGED head
    BY <1>3, <2>2 DEF Reclaim
  <2> QED
    BY <1>3, <2>1, <2>2 DEF Reclaim
<1>4. CASE ReadFreeP
  BY <1>4 DEF ReadFreeP
<1>5. CASE PushFreeP
  BY <1>5 DEF PushFreeP
<1>6. CASE WriteSlot
  <2>1. tail \notin Occupied /\ Occupied \subseteq Index
    BY <1>t, OccupiedMoves
  <2>2. \A i \in Index : CircularQueue'[i] = IF i = tail THEN created ELSE CircularQueue[i]
    BY <1>6, <1>c DEF WriteSlot
  <2>3. \A i \in Occupied' : CircularQueue'[i] # NULL
    BY <1>6, <2>1, <2>2 DEF WriteSlot
  <2>4. CircularQueue'[tail] = created /\ created # NULL
    BY <1>6, <2>2, <1>t DEF WriteSlot
  <2>5. pcC = "readSlot" => CircularQueue'[headC] # NULL
    BY <1>6, <2>2, <2>4, <1>t DEF WriteSlot
  <2> QED
    BY <1>6, <2>3, <2>4, <2>5 DEF WriteSlot
<1>7. CASE WriteTail
  <2>1. CircularQueue[tail] # NULL
    BY <1>7 DEF WriteTail
  <2>2. Occupied' \subseteq Occupied \cup {tail}
    BY <1>7, <1>t, <1>c, OccupiedMoves DEF WriteTail
  <2> QED
    BY <1>7, <2>1, <2>2 DEF WriteTail
<1>8. CASE WakeUp
  BY <1>8 DEF WakeUp
<1>9. CASE Poll
  BY <1>9 DEF Poll
<1>10. CASE ReadHead
  BY <1>10 DEF ReadHead
<1>11. CASE CasHead
  <2>1. CASE head = headC
    <3>1. head \in Occupied /\ Occupied' \subseteq Occupied
      BY <1>11, <2>1, <1>t, <1>c, OccupiedMoves DEF CasHead
    <3> QED
      BY <1>11, <2>1, <3>1 DEF CasHead
  <2>2. CASE head # headC
    BY <1>11, <2>2 DEF CasHead
  <2> QED
    BY <2>1, <2>2
<1>12. CASE ReadSlot
  BY <1>12 DEF ReadSlot
<1>13. CASE ReadFreeC
  BY <1>13 DEF ReadFreeC
<1>14. CASE PushFreeC
  BY <1>14 DEF PushFreeC
<1>15. CASE Send
  BY <1>15 DEF Send
<1>16. CASE Drain
  BY <1>16 DEF Drain
<1>17. CASE PopFree
  BY <1>17 DEF PopFree
<1>18. CASE Destroy
  BY <1>18 DEF Destroy
<1>19. CASE Tick
  BY <1>19 DEF Tick
<1>20. CASE UNCHANGED vars
  BY <1>20 DEF vars
<1>21. CASE Die
  BY <1>21 DEF Die
<1> QED
  BY <1>1, <1>2, <1>3, <1>4, <1>5, <1>6, <1>7, <1>8, <1>9, <1>10,
     <1>11, <1>12, <1>13, <1>14, <1>15, <1>16, <1>17, <1>18, <1>19, <1>20, <1>21
  DEF Next, Producer, ProducerStep, Consumer

\* blockQueuePoll never dereferences an empty slot.
THEOREM PollsEvents == Spec => []PolledIsEvent
<1>1. Init => RingInv /\ Filled
  BY DEF Init, RingInv, NoUnderflow, Room, Filled, PolledIsEvent, Occupied
<1>2. Filled => PolledIsEvent
  BY DEF Filled
<1> QED
  BY TypeCorrect, <1>1, RingStep, FilledStep, <1>2, PTL DEF Spec

-----------------------------------------------------------------------------
(* The refinement.                                                         *)

LEMMA PromiseInit == Init => Promise!Init
<1> SUFFICES ASSUME Init PROVE Promise!Init
  OBVIOUS
<1>1. Backlog \in Seq(Pointer) /\ Len(Backlog) = 0
  BY TypeInit, BacklogType DEF Init, TypeInv, BacklogOK, Count
<1>2. Backlog = <<>>
  BY <1>1, EmptySeq
<1> QED
  BY <1>2 DEF Init, Promise!Init, NULL

LEMMA PromiseStep ==
  ASSUME TypeOK, TypeOK', RingInv, Filled, [Next]_vars
  PROVE  [Promise!Next]_(Promise!vars)
<1> USE DEF ringVars, prodVars, consVars, history
<1> DEFINE latest == IF pcP = "idle" THEN created ELSE created - 1
<1>t. head \in Index /\ tail \in Index /\ created \in 0 .. MaxEvents
  BY MaxEventsAssumption DEF TypeOK, Pointer, Events, NULL
<1>s. ASSUME UNCHANGED <<head, tail, CircularQueue, claimed>>, latest' = latest
      PROVE  UNCHANGED Promise!vars
  BY <1>s DEF Promise!vars, Backlog, Count, Slot
<1>1. CASE Offer
  BY <1>1, <1>s, <1>t DEF Offer
<1>2. CASE CreateFails
  <2>1. latest < MaxEvents /\ latest' = latest + 1
    BY <1>2, <1>t, MaxEventsAssumption DEF CreateFails
  <2>2. Backlog' = Backlog /\ claimed' = claimed
    BY <1>2 DEF CreateFails, Backlog, Count, Slot
  <2>3. Promise!GiveUp
    BY <2>1, <2>2 DEF Promise!GiveUp, Promise!NewEvent
  <2> QED
    BY <2>3 DEF Promise!Next
<1>3. CASE Reclaim
  <2>1. CASE head = Succ(tail) /\ head' = Succ(head)
    <3>1. head # tail
      BY <2>1, <1>t, SuccMoves
    <3>2. Backlog' = Tail(Backlog) /\ Len(Backlog) = Count
      BY <1>3, <2>1, <3>1, BacklogTail DEF Reclaim
    <3>3. Count = Size - 1
      BY <2>1, <1>t, SizeAssumption DEF Count, Succ, Index
    <3>4. UNCHANGED latest \/ (latest < MaxEvents /\ latest' = latest + 1)
      BY <1>3, <1>t, MaxEventsAssumption DEF Reclaim
    <3>5. claimed' = claimed
      BY <1>3 DEF Reclaim
    <3>6. Promise!DropHead
      BY <3>2, <3>3, <3>4, <3>5 DEF Promise!DropHead, Promise!NewEvent
    <3> QED
      BY <3>6 DEF Promise!Next
  <2>2. CASE head # Succ(tail)
    BY <1>3, <2>2, <1>s DEF Reclaim
  <2> QED
    BY <1>3, <2>1, <2>2 DEF Reclaim
<1>4. CASE ReadFreeP
  BY <1>4, <1>s DEF ReadFreeP
<1>5. CASE PushFreeP
  BY <1>5, <1>s DEF PushFreeP
<1>6. CASE WriteSlot
  <2>1. Backlog' = Backlog
    BY <1>6, BacklogStore DEF WriteSlot
  <2> QED
    BY <1>6, <2>1 DEF WriteSlot, Promise!vars
<1>7. CASE WriteTail
  <2>1. ~isBlockQueueFull /\ CircularQueue[tail] = created /\ created # NULL
    BY <1>7 DEF WriteTail, RingInv, Room, Filled
  <2>2. /\ Len(Backlog) < Size - 1
        /\ Backlog' = Append(Backlog, created)
    BY <1>7, <2>1, BacklogAppend DEF WriteTail
  <2>3. latest < MaxEvents /\ latest' = latest + 1 /\ latest' = created
    BY <1>7, <2>1, <1>t, MaxEventsAssumption DEF WriteTail, NULL
  <2>4. claimed' = claimed
    BY <1>7 DEF WriteTail
  <2>5. Promise!Put
    BY <2>2, <2>3, <2>4 DEF Promise!Put, Promise!NewEvent
  <2> QED
    BY <2>5 DEF Promise!Next
<1>8. CASE WakeUp
  BY <1>8, <1>s DEF WakeUp
<1>9. CASE Poll
  BY <1>9, <1>s DEF Poll
<1>10. CASE ReadHead
  BY <1>10, <1>s DEF ReadHead
<1>11. CASE CasHead
  <2>1. CASE head = headC
    <3>1. head # tail
      BY <1>11 DEF CasHead, RingInv, NoUnderflow, isBlockQueueEmpty
    <3>2. /\ Backlog # <<>> /\ Backlog' = Tail(Backlog)
          /\ claimed' = Head(Backlog)
      BY <1>11, <2>1, <3>1, BacklogTail DEF CasHead
    <3>3. latest' = latest
      BY <1>11 DEF CasHead
    <3>4. Promise!Take
      BY <3>2, <3>3 DEF Promise!Take
    <3> QED
      BY <3>4 DEF Promise!Next
  <2>2. CASE head # headC
    BY <1>11, <2>2, <1>s DEF CasHead
  <2> QED
    BY <2>1, <2>2
<1>12. CASE ReadSlot
  BY <1>12, <1>s DEF ReadSlot
<1>13. CASE ReadFreeC
  BY <1>13, <1>s DEF ReadFreeC
<1>14. CASE PushFreeC
  BY <1>14, <1>s DEF PushFreeC
<1>15. CASE Send
  BY <1>15, <1>s DEF Send
<1>16. CASE Drain
  BY <1>16, <1>s DEF Drain
<1>17. CASE PopFree
  BY <1>17, <1>s DEF PopFree
<1>18. CASE Destroy
  BY <1>18, <1>s DEF Destroy
<1>19. CASE Tick
  BY <1>19, <1>s DEF Tick
<1>20. CASE UNCHANGED vars
  BY <1>20, <1>s DEF vars
<1>21. CASE Die
  BY <1>21, <1>s DEF Die
<1> QED
  BY <1>1, <1>2, <1>3, <1>4, <1>5, <1>6, <1>7, <1>8, <1>9, <1>10,
     <1>11, <1>12, <1>13, <1>14, <1>15, <1>16, <1>17, <1>18, <1>19, <1>20, <1>21
  DEF Next, Producer, ProducerStep, Consumer

\* Whatever the two threads do, the ring is the bounded queue that gives up
\* its oldest event only when it is full, and hands events out in order.
THEOREM RefinesDropOldest == Spec => ImplementsDropOldest
<1>1. Init => RingInv /\ Filled
  BY DEF Init, RingInv, NoUnderflow, Room, Filled, PolledIsEvent, Occupied
<1>2. TypeOK /\ TypeOK' /\ RingInv /\ Filled /\ [Next]_vars
        => [Promise!Next]_(Promise!vars)
  BY PromiseStep
<1> QED
  BY TypeCorrect, PromiseInit, <1>1, RingStep, FilledStep, <1>2, PTL
  DEF Spec, ImplementsDropOldest, Promise!Spec
=============================================================================
