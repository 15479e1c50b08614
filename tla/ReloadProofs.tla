----------------------------- MODULE ReloadProofs -----------------------------
(***************************************************************************)
(* Theorems about Reload, for any number of slots, workers and loads.      *)
(***************************************************************************)
EXTENDS Reload, TLAPS

\* Slot 0 exists and every configuration has a worker for it.
LEMMA SlotZero ==
  /\ 0 \in Slots /\ 0 \in Loads /\ 1 \in Loads
  /\ \A n \in Counts : n \in Nat /\ n > 0 /\ n \in Slots
<1>1. \A n \in Counts : n \in 1 .. NSlots - 1
  BY CountsAssumption
<1>2. PICK n \in Counts : TRUE
  BY CountsAssumption
<1> QED
  BY <1>1, <1>2, NumbersAssumption DEF Slots, Loads

\* What a reload chooses: slots that were free.
LEMMA ReloadChooses ==
  ASSUME NEW n \in Counts, Reload(n)
  PROVE  \E d \in Slots, W \in SUBSET Slots :
           /\ kind[d] = "free" /\ \A s \in W : kind[s] = "free" /\ s # d
           /\ kind' = [s \in Slots |-> IF s \in W THEN "worker"
                                       ELSE IF s = d THEN "sender" ELSE kind[s]]
           /\ copy' = [s \in Slots |-> IF s \in W \cup {d} THEN pair' ELSE copy[s]]
           /\ copyCount' = [s \in Slots |-> IF s \in W \cup {d} THEN n ELSE copyCount[s]]
           /\ since' = [s \in Slots |-> IF s \in W \cup {d} THEN load' ELSE since[s]]
           /\ life' = [s \in Slots |-> IF kind[s] = "free" THEN "new" ELSE "leaving"]
<1>1. PICK d \in Free \ First(n) :
         /\ kind' = [s \in Slots |-> IF s \in First(n) THEN "worker"
                                     ELSE IF s = d THEN "sender" ELSE kind[s]]
         /\ copy' = [s \in Slots |-> IF s \in First(n) \cup {d} THEN pair' ELSE copy[s]]
         /\ copyCount' = [s \in Slots |-> IF s \in First(n) \cup {d} THEN n ELSE copyCount[s]]
         /\ since' = [s \in Slots |-> IF s \in First(n) \cup {d} THEN load' ELSE since[s]]
         /\ life' = [s \in Slots |-> IF s \in Free THEN "new" ELSE "leaving"]
  BY DEF Reload
<1>2. First(n) \in SUBSET Slots /\ d \in Slots /\ kind[d] = "free"
      /\ \A s \in First(n) : kind[s] = "free" /\ s # d
  BY DEF First, Free
<1>3. life' = [s \in Slots |-> IF kind[s] = "free" THEN "new" ELSE "leaving"]
  BY <1>1 DEF Free
<1> USE <1>2
<1> WITNESS d \in Slots, First(n) \in SUBSET Slots
<1> QED
  BY <1>1, <1>2, <1>3

\* What a load leaves: new pairs, and the old ones where socketpair failed.
LEMMA LoadMakes ==
  ASSUME NEW n \in Counts, Load(n)
  PROVE  \E F \in SUBSET Slots :
           /\ load' = load + 1 /\ count' = n
           /\ pair' = [s \in Slots |-> IF s < n /\ s \notin F THEN load + 1 ELSE pair[s]]
           /\ unmade' = unmade \cup (F \X {load + 1})
BY DEF Load, MakePairs, Failing

-----------------------------------------------------------------------------
(* Types.                                                                  *)

\* The histories that are Booleans.
Flags == reloaded \in BOOLEAN /\ failed \in BOOLEAN /\ ended \in BOOLEAN

LEMMA LoadType ==
  ASSUME TypeOK, NEW n \in Counts, Load(n)
  PROVE  /\ load' \in Loads /\ load' = load + 1 /\ pair' \in [Slots -> Loads] /\ count' \in Counts
         /\ unmade' \subseteq Slots \X Loads
<1>1. load + 1 \in Loads
  BY NumbersAssumption DEF TypeOK, Load, Loads
<1> QED
  BY <1>1, LoadMakes DEF TypeOK

LEMMA TypeInit == Init => TypeOK
<1> SUFFICES ASSUME NEW n \in Counts, NEW F \in Failing(n), Init!(n)!(F) PROVE TypeOK
  BY DEF Init
<1>1. Flags
  BY Zenon DEF Flags
<1>2. pair \in [Slots -> Loads] /\ load \in Loads /\ NoPairs \in [Slots -> Loads]
  BY SlotZero DEF NoPairs
<1>3. copy \in [Slots -> [Slots -> Loads]]
  BY <1>2
<1>4. deaths \in 0 .. MaxDeaths
  BY NumbersAssumption
<1>5. unmade \subseteq Slots \X Loads /\ since \in [Slots -> Loads]
  BY SlotZero DEF Failing
<1> QED
  BY <1>1, <1>2, <1>3, <1>4, <1>5 DEF TypeOK, Flags

LEMMA TypeStep == TypeOK /\ [Next]_vars => TypeOK'
<1> SUFFICES ASSUME TypeOK, [Next]_vars PROVE TypeOK'
  OBVIOUS
<1>1. ASSUME NEW n \in Counts, LoadFails(n) PROVE TypeOK'
  <2>1. Flags'
    BY <1>1, Zenon DEF LoadFails, TypeOK, Flags
  <2>2. Load(n) /\ UNCHANGED <<kind, life, copy, copyCount, since, listens, deaths>>
    BY <1>1 DEF LoadFails, processes, arrays
  <2> QED
    BY <2>1, <2>2, LoadType DEF TypeOK, Flags
<1>2. ASSUME NEW n \in Counts, Reload(n) PROVE TypeOK'
  <2>1. Flags'
    BY <1>2, Zenon DEF Reload, Flags
  <2>2. Load(n) /\ deaths' = deaths /\ listens' = listens
    BY <1>2 DEF Reload
  <2>3. /\ kind' \in [Slots -> {"free", "worker", "sender"}]
        /\ life' \in [Slots -> {"new", "running", "leaving"}]
        /\ copy' \in [Slots -> [Slots -> Loads]] /\ copyCount' \in [Slots -> Counts \cup {0}]
        /\ since' \in [Slots -> Loads]
    BY <1>2, <2>2, ReloadChooses, LoadType DEF TypeOK
  <2> QED
    BY <2>1, <2>2, <2>3, LoadType DEF TypeOK, Flags
<1>3. ASSUME NEW s \in Slots, Respawn(s), deaths' \in 0 .. MaxDeaths PROVE TypeOK'
  BY <1>3 DEF Respawn, TypeOK, master, history
<1>4. ASSUME NEW s \in Slots, Die(s) PROVE TypeOK'
  BY <1>3, <1>4, NumbersAssumption DEF Die, TypeOK
<1>5. ASSUME NEW s \in Slots, Leave(s), ended' \in BOOLEAN PROVE TypeOK'
  BY <1>5, SlotZero DEF Leave, TypeOK, master, NoPairs
<1>6. ASSUME NEW s \in Slots, Run(s), listens' \subseteq Slots PROVE TypeOK'
  BY <1>6 DEF Run, TypeOK, master, arrays, history
<1>7. ASSUME NEW s \in Slots, Exit(s) \/ InitWorker(s) \/ InitSender(s) \/ InitSenderFails(s)
      PROVE  TypeOK'
  <2>1. CASE Exit(s)
    BY <1>5, <2>1 DEF Exit, TypeOK
  <2>2. CASE InitWorker(s)
    BY <1>5, <1>6, <2>2 DEF InitWorker, TypeOK
  <2>3. CASE InitSender(s)
    BY <1>6, <2>3 DEF InitSender
  <2>4. CASE InitSenderFails(s)
    BY <1>3, <1>5, <2>4 DEF InitSenderFails, TypeOK
  <2> QED
    BY <1>7, <2>1, <2>2, <2>3, <2>4
<1>8. CASE UNCHANGED vars
  BY <1>8 DEF TypeOK, vars, master, processes, arrays, history
<1> QED
  BY <1>1, <1>2, <1>4, <1>7, <1>8 DEF Next

\* Every variable keeps its type.
THEOREM TypeCorrect == Spec => []TypeOK
BY TypeInit, TypeStep, PTL DEF Spec

-----------------------------------------------------------------------------
(* Who writes to whom.                                                     *)

\* The pairs of a configuration were made by one load, but for those that could not be
\* made: they are older.
OneLoad ==
  /\ \A i \in Slots : pair[i] <= load
  /\ \A i \in Slots : i < count /\ <<i, load>> \notin unmade => pair[i] = load
  /\ \A s \in Slots : kind[s] # "free" =>
       /\ since[s] \in 1 .. load
       /\ \A i \in Slots : copy[s][i] <= since[s]
       /\ \A i \in Slots : i < copyCount[s] /\ ~Kept(s, i) => copy[s][i] = since[s]

\* Processes that are leaving were forked after earlier loads than those that are not,
\* and no two senders after the same; one sender is not leaving.
Ages ==
  /\ \A s, e \in Slots :
       Current(s) /\ kind[e] # "free" /\ life[e] = "leaving" => since[e] < since[s]
  /\ \A d, e \in Slots : Sender(d) /\ Sender(e) /\ since[d] = since[e] => d = e
  /\ \A d, e \in Slots : Sender(d) /\ Current(d) /\ Sender(e) /\ Current(e) => d = e

\* Unless a load failed, the processes have what the master has, and until the first
\* reload the workers have the first slots.
InStep ==
  ~failed => \A s \in Slots : Current(s) =>
    /\ copy[s] = pair /\ copyCount[s] = count /\ since[s] = load
    /\ kind[s] = "worker" /\ ~reloaded => s < count

\* There is a sender, unless it could not start.
HasSender == ended \/ \E d \in Slots : Sender(d) /\ Current(d)

PairInv == OneLoad /\ Ages /\ InStep /\ HasSender

LEMMA PairInit == Init => PairInv
<1> SUFFICES ASSUME NEW n \in Counts, NEW F \in Failing(n), Init!(n)!(F) PROVE PairInv
  BY DEF Init
<1>0. n \in Slots /\ n \in Nat /\ \A s \in Slots : kind[s] # "free" => s <= n
  BY SlotZero DEF Slots
<1>1. OneLoad
  <2>1. \A i \in Slots : pair[i] \in {0, 1} /\ (i < n /\ <<i, 1>> \notin unmade => pair[i] = 1)
    OBVIOUS
  <2>2. ASSUME NEW s \in Slots, kind[s] # "free"
        PROVE  copy[s] = pair /\ copyCount[s] = n /\ since[s] = 1
    BY <1>0, <2>2
  <2> QED
    BY <2>1, <2>2 DEF OneLoad, Kept
<1>2. Ages
  <2>1. \A d \in Slots : Sender(d) => d = n
    BY SlotZero DEF Sender, Slots
  <2>2. \A s \in Slots : life[s] # "leaving"
    OBVIOUS
  <2> QED
    BY <2>1, <2>2 DEF Ages
<1>3. InStep
  BY <1>0 DEF InStep, Current, Slots
<1>4. HasSender
  <2>1. kind[n] = "sender" /\ life[n] = "new"
    BY <1>0
  <2> QED
    BY <1>0, <2>1 DEF HasSender, Sender, Current
<1> QED
  BY <1>1, <1>2, <1>3, <1>4 DEF PairInv

\* A process that ended is forked again.
LEMMA RespawnStep ==
  ASSUME TypeOK, PairInv, NEW s \in Slots, Respawn(s), kind[s] # "free", life[s] # "leaving"
  PROVE  PairInv'
<1> USE DEF PairInv, Current, Sender
<1>t. load \in Nat
  BY NumbersAssumption DEF TypeOK, Loads
<1>1. /\ life' = [life EXCEPT ![s] = "new"] /\ since' = [since EXCEPT ![s] = load]
      /\ copy' = [copy EXCEPT ![s] = pair] /\ copyCount' = [copyCount EXCEPT ![s] = count]
      /\ UNCHANGED <<load, pair, count, unmade, kind, reloaded, failed, ended>>
  BY DEF Respawn, master, history
<1>2. load >= since[s] /\ since[s] >= 1 /\ load \in 1 .. load
  BY <1>t DEF OneLoad, TypeOK
<1>3. copy'[s] = pair /\ copyCount'[s] = count /\ life'[s] = "new" /\ since'[s] = load
      /\ \A r \in Slots \ {s} : copy'[r] = copy[r] /\ copyCount'[r] = copyCount[r]
                                /\ life'[r] = life[r] /\ since'[r] = since[r]
  BY <1>1 DEF TypeOK
<1>4. OneLoad'
  BY <1>1, <1>2, <1>3 DEF OneLoad, Kept
<1>5. Ages'
  <2>1. \A e \in Slots : kind[e] # "free" => since[e] \in Nat
    BY <1>t DEF OneLoad
  <2>2. \A e \in Slots \ {s} : kind[e] # "free" /\ life[e] = "leaving" => since[e] < load
    BY <1>2, <2>1, <1>t DEF Ages
  <2>3. ASSUME Sender(s), NEW e \in Slots \ {s}, Sender(e)
        PROVE  life[e] = "leaving" /\ since[e] # load
    BY <2>1, <2>2, <2>3, <1>t DEF Ages
  <2> QED
    BY <1>1, <1>2, <1>3, <2>2, <2>3 DEF Ages
<1>6. InStep'
  BY <1>1, <1>3 DEF InStep
<1>7. HasSender'
  BY <1>1, <1>3 DEF HasSender
<1> QED
  BY <1>4, <1>5, <1>6, <1>7

\* A process ends.
LEMMA LeaveStep ==
  ASSUME TypeOK, PairInv, NEW s \in Slots, Leave(s),
         ended' \/ (ended' = ended /\ ~(Sender(s) /\ Current(s)))
  PROVE  PairInv'
<1>1. /\ kind' = [kind EXCEPT ![s] = "free"] /\ kind'[s] = "free"
      /\ \A r \in Slots \ {s} : copy'[r] = copy[r] /\ copyCount'[r] = copyCount[r]
                                /\ life'[r] = life[r] /\ since'[r] = since[r] /\ kind'[r] = kind[r]
      /\ UNCHANGED <<load, pair, count, unmade, reloaded, failed>>
  BY DEF Leave, master, TypeOK
<1>2. OneLoad'
  BY <1>1 DEF PairInv, OneLoad, Kept
<1>3. Ages'
  BY <1>1 DEF PairInv, Ages, Current, Sender
<1>4. InStep'
  BY <1>1 DEF PairInv, InStep, Current
<1>5. HasSender'
  BY <1>1 DEF PairInv, HasSender, Current, Sender
<1> QED
  BY <1>2, <1>3, <1>4, <1>5 DEF PairInv

LEMMA PairStep == TypeOK /\ PairInv /\ [Next]_vars => PairInv'
<1> SUFFICES ASSUME TypeOK, PairInv, [Next]_vars PROVE PairInv'
  OBVIOUS
<1> USE DEF PairInv, Current, Sender
<1>t. load \in Nat /\ load' \in Nat /\ TypeOK' /\ \A i \in Slots : pair[i] \in Nat
  BY TypeStep, NumbersAssumption DEF TypeOK, Loads
<1>m. ASSUME NEW n \in Counts, Load(n)
      PROVE  /\ load' = load + 1 /\ count' = n
             /\ \A i \in Slots : pair'[i] <= load'
             /\ \A i \in Slots : i < count' /\ <<i, load'>> \notin unmade' => pair'[i] = load'
             /\ unmade \subseteq unmade'
  <2>1. PICK F \in SUBSET Slots :
          /\ load' = load + 1 /\ count' = n
          /\ pair' = [s \in Slots |-> IF s < n /\ s \notin F THEN load + 1 ELSE pair[s]]
          /\ unmade' = unmade \cup (F \X {load + 1})
    BY <1>m, LoadMakes
  <2> QED
    BY <2>1, <1>t DEF OneLoad
<1>1. ASSUME NEW n \in Counts, LoadFails(n) PROVE PairInv'
  <2>1. Load(n) /\ UNCHANGED <<kind, life, copy, copyCount, since, ended>> /\ failed'
    BY <1>1 DEF LoadFails, processes, arrays
  <2>2. OneLoad'
    BY <2>1, <1>m, <1>t DEF OneLoad, Kept
  <2>3. Ages' /\ InStep' /\ HasSender'
    BY <2>1 DEF Ages, InStep, HasSender
  <2> QED
    BY <2>2, <2>3
<1>2. ASSUME NEW n \in Counts, Reload(n) PROVE PairInv'
  <2>1. Load(n) /\ reloaded'
    BY <1>2, Zenon DEF Reload
  <2>2. PICK d \in Slots, W \in SUBSET Slots :
           /\ kind[d] = "free" /\ \A s \in W : kind[s] = "free" /\ s # d
           /\ kind' = [s \in Slots |-> IF s \in W THEN "worker"
                                       ELSE IF s = d THEN "sender" ELSE kind[s]]
           /\ copy' = [s \in Slots |-> IF s \in W \cup {d} THEN pair' ELSE copy[s]]
           /\ copyCount' = [s \in Slots |-> IF s \in W \cup {d} THEN n ELSE copyCount[s]]
           /\ since' = [s \in Slots |-> IF s \in W \cup {d} THEN load' ELSE since[s]]
           /\ life' = [s \in Slots |-> IF kind[s] = "free" THEN "new" ELSE "leaving"]
    BY <1>2, ReloadChooses
  <2>4. \A s \in Slots : s \in W \cup {d} =>
           /\ copy'[s] = pair' /\ copyCount'[s] = n /\ life'[s] = "new"
           /\ since'[s] = load + 1
    BY <2>1, <2>2, <1>m
  <2>5. \A s \in Slots : s \notin W \cup {d} /\ kind'[s] # "free" =>
           /\ copy'[s] = copy[s] /\ copyCount'[s] = copyCount[s] /\ life'[s] = "leaving"
           /\ kind'[s] = kind[s] /\ since'[s] = since[s]
           /\ since[s] \in 1 .. load
    BY <2>2 DEF OneLoad
  <2>6. \A s \in Slots : s \in W \cup {d} => (kind'[s] = "sender" <=> s = d)
    BY <2>2
  <2>7. OneLoad'
    <3>2. ASSUME NEW s \in Slots, kind'[s] # "free"
          PROVE  /\ since'[s] \in 1 .. load'
                 /\ \A i \in Slots : copy'[s][i] <= since'[s]
                 /\ \A i \in Slots : i < copyCount'[s] /\ <<i, since'[s]>> \notin unmade'
                                     => copy'[s][i] = since'[s]
      <4>1. CASE s \in W \cup {d}
        BY <2>1, <2>4, <4>1, <1>t, <1>m
      <4>2. CASE s \notin W \cup {d}
        BY <2>1, <2>5, <3>2, <4>2, <1>t, <1>m DEF OneLoad, Kept
      <4> QED
        BY <4>1, <4>2
    <3> QED
      BY <2>1, <3>2, <1>m DEF OneLoad, Kept
  <2>8. Ages'
    <3>1. \A s \in Slots : Current(s)' => s \in W \cup {d}
      BY <2>5
    <3>2. \A e \in Slots : kind'[e] # "free" /\ life'[e] = "leaving"
             => e \notin W \cup {d} /\ since'[e] < load + 1
      BY <2>4, <2>5, <1>t
    <3>3. ASSUME NEW a \in Slots, NEW e \in Slots, Sender(a)', Sender(e)',
                 since'[a] = since'[e]
          PROVE  a = e
      <4>1. CASE a \in W \cup {d} /\ e \in W \cup {d}
        BY <2>6, <3>3, <4>1
      <4>2. CASE a \notin W \cup {d} /\ e \notin W \cup {d}
        BY <2>5, <3>3, <4>2 DEF Ages
      <4>3. CASE (a \in W \cup {d}) # (e \in W \cup {d})
        BY <2>4, <2>5, <3>3, <4>3, <1>t
      <4> QED
        BY <4>1, <4>2, <4>3
    <3> QED
      BY <2>4, <2>6, <3>1, <3>2, <3>3 DEF Ages
  <2>9. InStep'
    BY <2>1, <2>4, <2>5, <1>m DEF InStep
  <2>10. HasSender'
    BY <2>4, <2>6 DEF HasSender
  <2> QED
    BY <2>7, <2>8, <2>9, <2>10
<1>3. ASSUME NEW s \in Slots, Die(s) PROVE PairInv'
  BY <1>3, RespawnStep DEF Die
<1>4. ASSUME NEW s \in Slots, Run(s), life[s] = "new" PROVE PairInv'
  <2>1. /\ life' = [life EXCEPT ![s] = "running"]
        /\ UNCHANGED <<load, pair, count, unmade, kind, copy, copyCount, since>>
        /\ UNCHANGED <<reloaded, failed, ended>>
    BY <1>4 DEF Run, master, arrays, history
  <2> QED
    BY <1>4, <2>1 DEF OneLoad, Kept, Ages, InStep, HasSender, TypeOK
<1>5. ASSUME NEW s \in Slots, Exit(s) \/ InitWorker(s) \/ InitSender(s) \/ InitSenderFails(s)
      PROVE  PairInv'
  <2>1. CASE Exit(s)
    BY <2>1, LeaveStep DEF Exit
  <2>2. CASE InitWorker(s)
    BY <1>4, <2>2, LeaveStep DEF InitWorker
  <2>3. CASE InitSender(s)
    BY <1>4, <2>3 DEF InitSender
  <2>4. CASE InitSenderFails(s)
    <3>1. CASE Leave(s) /\ ended' = TRUE
      BY <3>1, LeaveStep
    <3>2. CASE Respawn(s)
      BY <2>4, <3>2, RespawnStep DEF InitSenderFails
    <3> QED
      BY <2>4, <3>1, <3>2 DEF InitSenderFails
  <2> QED
    BY <1>5, <2>1, <2>2, <2>3, <2>4
<1>6. CASE UNCHANGED vars
  BY <1>6 DEF vars, master, processes, arrays, history, OneLoad, Kept, Ages, InStep, HasSender
<1> QED
  BY <1>1, <1>2, <1>3, <1>5, <1>6 DEF Next

LEMMA PairsHold == Spec => [](TypeOK /\ PairInv)
BY TypeInit, TypeStep, PairInit, PairStep, PTL DEF Spec

\* No two senders ever write to one pair, unless socketpair failed for its slot in the
\* load of one of them.
THEOREM OnePairOneWriter == Spec => []OneWriter
<1>1. TypeOK /\ PairInv => OneWriter
  BY DEF TypeOK, PairInv, OneLoad, Ages, OneWriter, Writes, Sender
<1> QED
  BY <1>1, PairsHold, PTL

\* Unless a load failed since the last reload, the sender feeds every worker with a slot
\* below the number of workers, and before the first reload every worker: if the slot
\* has a pair, and the sender could start.
THEOREM WorkersAreFed == Spec => []WorkersFed
<1>1. TypeOK /\ PairInv => WorkersFed
  <2> SUFFICES ASSUME TypeOK, PairInv, ~failed, NEW w \in Slots,
                      kind[w] = "worker", Current(w), w < count \/ ~reloaded,
                      ~ended, ~(Kept(w, w) /\ pair[w] = 0)
               PROVE  \E d \in Slots : Current(d) /\ Fed(w, d)
    BY DEF WorkersFed
  <2>1. PICK d \in Slots : Sender(d) /\ Current(d)
    BY DEF PairInv, HasSender
  <2>2. w < count /\ copy[w] = pair /\ copy[d] = pair /\ copyCount[d] = count
        /\ since[w] = load
    BY <2>1 DEF PairInv, InStep
  <2>3. pair[w] # 0
    BY <2>2 DEF PairInv, OneLoad, Kept, Current, TypeOK, Loads
  <2>4. Fed(w, d)
    BY <2>1, <2>2, <2>3 DEF Fed, Writes
  <2> QED
    BY <2>1, <2>4
<1> QED
  BY <1>1, PairsHold, PTL

\* A worker with a slot below the number of workers hears no sender of another
\* configuration, unless socketpair failed for its slot.
THEOREM HearsItsOwn == Spec => []OwnSender
<1>1. TypeOK /\ PairInv => OwnSender
  <2> SUFFICES ASSUME TypeOK, PairInv, NEW w \in Slots, NEW d \in Slots,
                      kind[w] = "worker", Current(w), w < copyCount[w], Fed(w, d), ~Current(d),
                      ~Kept(w, w)
               PROVE  FALSE
    BY DEF OwnSender
  <2>1. copy[w][w] = since[w] /\ copy[d][w] <= since[d] /\ copy[d][w] = copy[w][w]
    BY DEF PairInv, OneLoad, Fed, Writes, Sender, Current
  <2>2. since[d] < since[w] /\ since[w] \in Nat /\ since[d] \in Nat
    BY NumbersAssumption DEF PairInv, Ages, OneLoad, Fed, Writes, Sender, Current, TypeOK, Loads
  <2> QED
    BY <2>1, <2>2
<1> QED
  BY <1>1, PairsHold, PTL
=============================================================================
