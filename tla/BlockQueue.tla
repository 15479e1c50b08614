------------------------------ MODULE BlockQueue ------------------------------
(***************************************************************************)
(* The queue of block events of one worker process (blockrequestqueue.c),  *)
(* its producer (the event-loop thread, doFilter) and its consumer (the    *)
(* push thread, pushRequestThread and sendFirewallHttpRequest).            *)
(*                                                                         *)
(* Nothing is locked.  head is advanced by compare-and-swap, by the        *)
(* consumer when it polls and by the producer when the ring is full and it *)
(* drops the oldest event; tail is written by the producer alone.  An      *)
(* event that left the ring goes to the lock-free stack freelist, and the  *)
(* push thread alone pops the stack and frees.  One action is one access   *)
(* to a shared variable, with the thread-local work that follows it.       *)
(*                                                                         *)
(* An event is the number of its creation, so "older" is "smaller".  Its   *)
(* memory is the pool it lives in.  The nodes of freelist are allocated    *)
(* from that same pool, which may be exhausted: every allocation has an    *)
(* outcome NULL.  Stores become visible in program order (x86).            *)
(***************************************************************************)
EXTENDS Integers, Sequences, FiniteSets

CONSTANTS Size,       \* blockRequestQueue.size: one more than the capacity
          MaxEvents   \* bound on the number of block events created

\* With two slots a producer that drops would leave the ring empty under a
\* consumer that has just found it non-empty.  The code has 2001.
ASSUME SizeAssumption == Size \in Nat /\ Size >= 3
ASSUME MaxEventsAssumption == MaxEvents \in Nat

Index   == 0 .. Size - 1
Events  == 1 .. MaxEvents
NULL    == 0
Pointer == Events \cup {NULL}

VARIABLES
  head, tail, CircularQueue,   \* the ring
  freelist,                    \* the stack of events to free, top first
  created,                     \* the newest event, the producer's e
  pcP, freelistP,              \* the producer and its local freelist_head
  pcC, headC, result,          \* the consumer, its local head and result
  freelistC,                   \* its local freelist_head
  expired,                     \* time(NULL) > expiretime
  claimed,                     \* history: what the consumer's CAS took
  lapped,                      \* history: that slot was rewritten unread
  posted,                      \* history: the events posted, in order
  freed,                       \* history: the events whose pool is freed
  lost,                        \* history: the events abandoned on a NULL
  died                         \* the process is gone, and the queue with it

ringVars == <<head, tail, CircularQueue>>
prodVars == <<created, pcP, freelistP>>
consVars == <<pcC, headC, result, freelistC>>
history  == <<claimed, lapped, posted, freed, lost>>
vars == <<ringVars, freelist, prodVars, consVars, expired, history, died>>

TypeOK ==
  /\ head \in Index /\ tail \in Index
  /\ CircularQueue \in [Index -> Pointer]
  /\ freelist \in Seq(Pointer)
  /\ created \in Pointer
  /\ pcP \in {"idle", "reclaim", "readFree", "pushFree", "writeSlot", "writeTail"}
  /\ freelistP \in Seq(Pointer)
  /\ pcC \in {"idle", "poll", "readHead", "casHead", "readSlot", "readFree",
              "pushFree", "send", "drain", "popFree", "destroy"}
  /\ headC \in Index
  /\ result \in Pointer
  /\ freelistC \in Seq(Pointer)
  /\ expired \in BOOLEAN
  /\ claimed \in Pointer
  /\ lapped \in BOOLEAN
  /\ posted \in Seq(Pointer)
  /\ freed \subseteq Pointer /\ lost \subseteq Pointer
  /\ died \in BOOLEAN

\* Mutant of Succ: the index is not taken modulo size.
SuccUnbounded(i) == i + 1

\* (i + 1) % size
Succ(i) == IF i = Size - 1 THEN 0 ELSE i + 1

\* Mutant of isBlockQueueEmpty: the consumer polls without looking.
NeverEmpty == FALSE

isBlockQueueEmpty == head = tail

\* Mutant of isBlockQueueFull: the producer never finds the ring full.
NeverFull == FALSE

isBlockQueueFull == Succ(tail) = head

\* initBlockRequestQueue.  expiretime is a zero-initialised global, so the
\* first post drains the free list.
Init ==
  /\ head = 0 /\ tail = 0
  /\ CircularQueue = [i \in Index |-> NULL]
  /\ freelist = <<>>
  /\ created = 0
  /\ pcP = "idle" /\ freelistP = <<>>
  /\ pcC = "idle" /\ headC = 0 /\ result = NULL /\ freelistC = <<>>
  /\ expired = TRUE
  /\ claimed = NULL /\ lapped = FALSE
  /\ posted = <<>> /\ freed = {} /\ lost = {} /\ died = FALSE

-----------------------------------------------------------------------------
(* The producer: doFilter of a blocked request, and blockQueueOffer.       *)

\* multi_malloc_blockEvent succeeds, blockQueueOffer(e) reads head and tail.
Offer ==
  /\ pcP = "idle" /\ created < MaxEvents
  /\ created' = created + 1
  /\ pcP' = IF isBlockQueueFull THEN "reclaim" ELSE "writeSlot"
  /\ UNCHANGED <<ringVars, freelist, freelistP, consVars, expired, history>>

\* An allocation of multi_malloc_blockEvent or of getHttpStatus fails: the
\* pool is destroyed and the event is never offered.
CreateFails ==
  /\ pcP = "idle" /\ created < MaxEvents
  /\ created' = created + 1
  /\ freed' = freed \cup {created + 1}
  /\ UNCHANGED <<ringVars, freelist, pcP, freelistP, consVars, expired,
                 claimed, lapped, posted, lost>>

\* The event the producer took out of a full ring.
Dropped == CircularQueue[Succ(tail)]

\* Mutant of Reclaim: a plain store of head instead of the CAS.
ReclaimStore ==
  /\ pcP = "reclaim"
  /\ head' = Succ(Succ(tail))
  /\ \/ pcP' = "readFree" /\ UNCHANGED lost
     \/ pcP' = "idle" /\ lost' = lost \cup {Dropped, created}
  /\ UNCHANGED <<tail, CircularQueue, freelist, created, freelistP, consVars,
                 expired, claimed, lapped, posted, freed>>

\* CAS(head, h, h + 1) with h = tail + 1, and the malloc of the list node.
\* On a NULL, "return 0": neither the dropped event nor e is kept anywhere.
\* The CAS fails when the consumer polled meanwhile; then there is room.
Reclaim ==
  /\ pcP = "reclaim"
  /\ \/ /\ head = Succ(tail)
        /\ head' = Succ(head)
        /\ \/ pcP' = "readFree" /\ UNCHANGED lost
           \/ pcP' = "idle" /\ lost' = lost \cup {Dropped, created}
     \/ /\ head # Succ(tail)
        /\ pcP' = "writeSlot"
        /\ UNCHANGED <<head, lost>>
  /\ UNCHANGED <<tail, CircularQueue, freelist, created, freelistP, consVars,
                 expired, claimed, lapped, posted, freed>>

\* The push of the dropped event on freelist: read the top, then CAS it.
ReadFreeP ==
  /\ pcP = "readFree"
  /\ freelistP' = freelist
  /\ pcP' = "pushFree"
  /\ UNCHANGED <<ringVars, freelist, created, consVars, expired, history>>

\* Mutant of PushFreeP: a plain store of freelist instead of the CAS.
PushFreePStore ==
  /\ pcP = "pushFree"
  /\ freelist' = <<Dropped>> \o freelistP /\ pcP' = "writeSlot"
  /\ UNCHANGED <<ringVars, created, freelistP, consVars, expired, history>>

\* Mutant of PushFreeP: the retry does not read freelist again.
PushFreePStale ==
  /\ pcP = "pushFree"
  /\ IF freelist = freelistP
       THEN freelist' = <<Dropped>> \o freelist /\ pcP' = "writeSlot"
       ELSE pcP' = "pushFree" /\ UNCHANGED freelist
  /\ UNCHANGED <<ringVars, created, freelistP, consVars, expired, history>>

PushFreeP ==
  /\ pcP = "pushFree"
  /\ IF freelist = freelistP
       THEN freelist' = <<Dropped>> \o freelist /\ pcP' = "writeSlot"
       ELSE pcP' = "readFree" /\ UNCHANGED freelist
  /\ UNCHANGED <<ringVars, created, freelistP, consVars, expired, history>>

\* CircularQueue[tail] = e.  The slot may be one the consumer has claimed and
\* not read yet: it has been lapped.
WriteSlot ==
  /\ pcP = "writeSlot"
  /\ CircularQueue' = [CircularQueue EXCEPT ![tail] = created]
  /\ lapped' = (lapped \/ (pcC = "readSlot" /\ headC = tail))
  /\ pcP' = "writeTail"
  /\ UNCHANGED <<head, tail, freelist, created, freelistP, consVars, expired,
                 claimed, posted, freed, lost>>

WriteTail ==
  /\ pcP = "writeTail"
  /\ tail' = Succ(tail)
  /\ pcP' = "idle"
  /\ UNCHANGED <<head, CircularQueue, freelist, created, freelistP, consVars,
                 expired, history>>

-----------------------------------------------------------------------------
(* The consumer: pushRequestThread, blockQueuePoll, sendFirewallHttpRequest.*)

\* The loop of pushRequestThread; it sleeps while the ring is empty.
WakeUp ==
  /\ pcC = "idle" /\ ~isBlockQueueEmpty
  /\ pcC' = "poll"
  /\ UNCHANGED <<ringVars, freelist, prodVars, headC, result, freelistC,
                 expired, history>>

\* blockQueuePoll's own test, made once, before its loop.
Poll ==
  /\ pcC = "poll"
  /\ pcC' = IF isBlockQueueEmpty THEN "idle" ELSE "readHead"
  /\ UNCHANGED <<ringVars, freelist, prodVars, headC, result, freelistC,
                 expired, history>>

ReadHead ==
  /\ pcC = "readHead"
  /\ headC' = head
  /\ pcC' = "casHead"
  /\ UNCHANGED <<ringVars, freelist, prodVars, result, freelistC, expired, history>>

\* Mutant of CasHead: a plain store of head instead of the CAS.
CasHeadStore ==
  /\ pcC = "casHead"
  /\ head' = Succ(headC)
  /\ claimed' = CircularQueue[headC]
  /\ pcC' = "readSlot"
  /\ UNCHANGED <<tail, CircularQueue, freelist, prodVars, headC, result,
                 freelistC, expired, lapped, posted, freed, lost>>

\* Mutant of CasHead: the retry does not read head again.
CasHeadStale ==
  /\ pcC = "casHead"
  /\ IF head = headC
       THEN /\ head' = Succ(head)
            /\ claimed' = CircularQueue[head]
            /\ pcC' = "readSlot"
       ELSE pcC' = "casHead" /\ UNCHANGED <<head, claimed>>
  /\ UNCHANGED <<tail, CircularQueue, freelist, prodVars, headC, result,
                 freelistC, expired, lapped, posted, freed, lost>>

CasHead ==
  /\ pcC = "casHead"
  /\ IF head = headC
       THEN /\ head' = Succ(head)
            /\ claimed' = CircularQueue[head]
            /\ pcC' = "readSlot"
       ELSE pcC' = "readHead" /\ UNCHANGED <<head, claimed>>
  /\ UNCHANGED <<tail, CircularQueue, freelist, prodVars, headC, result,
                 freelistC, expired, lapped, posted, freed, lost>>

\* result = CircularQueue[head], and the malloc of the list node from the
\* pool of result.  On a NULL the poll returns NULL and result is abandoned.
ReadSlot ==
  /\ pcC = "readSlot"
  /\ result' = CircularQueue[headC]
  /\ \/ pcC' = "readFree" /\ UNCHANGED lost
     \/ pcC' = "idle" /\ lost' = lost \cup {result'}
  /\ UNCHANGED <<ringVars, freelist, prodVars, headC, freelistC, expired,
                 claimed, lapped, posted, freed>>

\* The polled event is pushed on freelist before it is sent.
ReadFreeC ==
  /\ pcC = "readFree"
  /\ freelistC' = freelist
  /\ pcC' = "pushFree"
  /\ UNCHANGED <<ringVars, freelist, prodVars, headC, result, expired, history>>

PushFreeC ==
  /\ pcC = "pushFree"
  /\ IF freelist = freelistC
       THEN freelist' = <<result>> \o freelist /\ pcC' = "send"
       ELSE pcC' = "readFree" /\ UNCHANGED freelist
  /\ UNCHANGED <<ringVars, prodVars, headC, result, freelistC, expired, history>>

\* sendFirewallHttpRequest after its poll: an early return, or the post (its
\* outcome is ignored) and the test of the clock.
Send ==
  /\ pcC = "send"
  /\ \/ pcC' = "idle" /\ UNCHANGED posted
     \/ /\ posted' = Append(posted, result)
        /\ pcC' = IF expired THEN "drain" ELSE "idle"
  /\ UNCHANGED <<ringVars, freelist, prodVars, headC, result, freelistC,
                 expired, claimed, lapped, freed, lost>>

\* while(freelist), and the read of its top.  The two reads are one action:
\* only this thread pops, so a stack found non-empty stays so.
Drain ==
  /\ pcC = "drain"
  /\ IF freelist = <<>>
       THEN pcC' = "idle" /\ expired' = FALSE /\ UNCHANGED freelistC
       ELSE pcC' = "popFree" /\ freelistC' = freelist /\ UNCHANGED expired
  /\ UNCHANGED <<ringVars, freelist, prodVars, headC, result, history>>

\* Mutant of PopFree: a plain store of freelist instead of the CAS.
PopFreeStore ==
  /\ pcC = "popFree"
  /\ freelist' = Tail(freelistC) /\ pcC' = "destroy"
  /\ UNCHANGED <<ringVars, prodVars, headC, result, freelistC, expired, history>>

\* Mutant of PopFree: the retry does not read the top again.
PopFreeStale ==
  /\ pcC = "popFree"
  /\ IF freelist = freelistC
       THEN freelist' = Tail(freelist) /\ pcC' = "destroy"
       ELSE pcC' = "popFree" /\ UNCHANGED freelist
  /\ UNCHANGED <<ringVars, prodVars, headC, result, freelistC, expired, history>>

PopFree ==
  /\ pcC = "popFree"
  /\ IF freelist = freelistC
       THEN freelist' = Tail(freelist) /\ pcC' = "destroy"
       ELSE pcC' = "drain" /\ UNCHANGED freelist
  /\ UNCHANGED <<ringVars, prodVars, headC, result, freelistC, expired, history>>

Destroy ==
  /\ pcC = "destroy"
  /\ freed' = freed \cup {Head(freelistC)}
  /\ pcC' = "drain"
  /\ UNCHANGED <<ringVars, freelist, prodVars, headC, result, freelistC,
                 expired, claimed, lapped, posted, lost>>

\* EXPIRETIME seconds pass since the last drain.
Tick ==
  /\ expired' = TRUE
  /\ UNCHANGED <<ringVars, freelist, prodVars, consVars, history, died>>

\* A thread is about to read or write the pool of e: to take the list node from
\* it (lines 20, 47) and link that (24-29, 51-56), to encode and post e, to take
\* the node of e off the list (119), to free the pool (120).
Touches(e) ==
  \/ pcP = "reclaim" /\ head = Succ(tail) /\ e = Dropped
  \/ pcP \in {"readFree", "pushFree"} /\ e = Dropped
  \/ pcC = "readSlot" /\ e = CircularQueue[headC]
  \/ pcC \in {"readFree", "pushFree", "send"} /\ e = result
  \/ pcC \in {"popFree", "destroy"} /\ e = Head(freelistC)

\* The worker dies.  The pool of a new event is used untested, NULL or not (lines
\* 285-286); so is a text of commonconfig that was never received (82).  A pool
\* that is freed may hold anything: the thread that touches it dies here, or goes
\* on as if nothing had been written there since.
Die ==
  /\ ~died /\ died' = TRUE
  /\ \/ pcP = "idle" /\ created < MaxEvents
     \/ pcC = "send"
     \/ \E e \in freed : Touches(e)
  /\ UNCHANGED <<ringVars, freelist, prodVars, consVars, expired, history>>

-----------------------------------------------------------------------------
Living == ~died /\ UNCHANGED died
ProducerStep == Reclaim \/ ReadFreeP \/ PushFreeP \/ WriteSlot \/ WriteTail
Producer == Offer \/ CreateFails \/ ProducerStep
Consumer == WakeUp \/ Poll \/ ReadHead \/ CasHead \/ ReadSlot \/ ReadFreeC
              \/ PushFreeC \/ Send \/ Drain \/ PopFree \/ Destroy

Next == (Living /\ (Producer \/ Consumer)) \/ Tick \/ Die

Spec == Init /\ [][Next]_vars

\* The push thread runs as long as its process, and an event loop inside
\* blockQueueOffer waits for nothing.  Nothing obliges a request to be blocked.
FairSpec == Spec /\ WF_vars(Living /\ Consumer) /\ WF_vars(Living /\ ProducerStep)

-----------------------------------------------------------------------------
Count == IF tail >= head THEN tail - head ELSE tail - head + Size
Slot(k) == IF head + k < Size THEN head + k ELSE head + k - Size

\* What the ring holds, oldest first.
Backlog == [k \in 1 .. Count |-> CircularQueue[Slot(k - 1)]]

-----------------------------------------------------------------------------
(* Properties.                                                             *)

\* The emptiness test of blockQueuePoll (line 39) is made once, and its CAS
\* loop (43-45) trusts it: whatever the producer drops meanwhile, the ring is
\* not empty when head moves, so poll never runs past tail.
NoUnderflow == pcC \in {"poll", "readHead", "casHead"} => ~isBlockQueueEmpty

\* The slots that hold an event: from head to tail, around the end.
Occupied ==
  IF head <= tail THEN head .. tail - 1 ELSE (head .. Size - 1) \cup (0 .. tail - 1)

\* line 47 dereferences what line 46 read without a test: it is an event, lapped
\* or not, because a slot is stored before tail makes it visible.
PolledIsEvent == pcC \in {"readFree", "pushFree", "send"} => result # NULL

\* Events reach the server in the order the requests were blocked, each at
\* most once, through drops, failed allocations and CAS retries, unless the
\* consumer was lapped between its CAS (line 45) and its read (line 46).
PostedInOrder ==
  lapped \/ \A i, j \in DOMAIN posted : i < j => posted[i] < posted[j]

Tag(place, holds) == IF holds THEN {place} ELSE {}

\* Where the memory of event e is.
Places(e) ==
  {<<"ring", k>> : k \in {i \in DOMAIN Backlog : Backlog[i] = e}}
    \cup {<<"freelist", k>> : k \in {i \in DOMAIN freelist : freelist[i] = e}}
    \cup Tag("offered", pcP # "idle" /\ created = e)
    \cup Tag("dropped", pcP \in {"readFree", "pushFree"} /\ Dropped = e)
    \cup Tag("claimed", pcC = "readSlot" /\ CircularQueue[headC] = e)
    \cup Tag("polled", pcC \in {"readFree", "pushFree"} /\ result = e)
    \cup Tag("victim", pcC = "destroy" /\ Head(freelistC) = e)
    \cup Tag("freed", e \in freed)
    \cup Tag("lost", e \in lost)

\* The memory of every event created is in exactly one place: the ring, the
\* hands of one thread, the free list, freed, or abandoned on a failed
\* allocation.  So none is freed twice, none is freed while it is queued, and
\* none leaks but by a NULL; unless the consumer was lapped.
Conservation ==
  lapped \/ \A e \in 1 .. created : Cardinality(Places(e)) = 1

\* Neither thread ever touches the memory of an event that is freed: not the
\* producer when it takes the list node out of the event it drops, although the
\* drain frees without a look at the ring, not the push thread when it encodes
\* and posts an event that line 56 has already put on the list of those to free,
\* nor when it takes a node off; unless the consumer was lapped.
NoUseAfterFree ==
  lapped \/ \A e \in 1 .. created : Touches(e) => e \notin freed

\* The ring implements the drop-oldest queue, lapped or not: only the value
\* the consumer reads after its CAS can be wrong, never the queue.
Promise == INSTANCE DropOldest WITH
  Capacity <- Size - 1,
  backlog  <- Backlog,
  taken    <- claimed,
  latest   <- IF pcP = "idle" THEN created ELSE created - 1

ImplementsDropOldest == Promise!Spec

\* An offer ends although it retries its CAS on freelist as long as the
\* consumer changes it: the event loop is not held up by the push thread.
OfferReturns == pcP # "idle" ~> pcP = "idle" \/ died

InRing(e) == \E k \in DOMAIN Backlog : Backlog[k] = e

\* Every event that entered the ring leaves it, polled or dropped.
RingServed == \A e \in Events : InRing(e) ~> ~InRing(e) \/ died

Draining == pcC \in {"drain", "popFree", "destroy"}

\* A drain ends, and the push thread goes back to polling, if the producer pushes
\* on the list finitely often: neither the CAS of line 119 nor the while of line
\* 115 goes round by itself.  If it pushes for ever, between the read of the top and
\* the CAS or before the list is found empty, it may hold the push thread for ever.
DrainEnds == <>[](pcP # "pushFree") => (Draining ~> ~Draining \/ died)
=============================================================================
