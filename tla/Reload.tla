-------------------------------- MODULE Reload --------------------------------
(***************************************************************************)
(* The socket pairs and the processes over reloads of the configuration.   *)
(*                                                                         *)
(* Each load makes the pairs of as many slots as there are workers, again  *)
(* (ngx_alpaca_client_init), in an array of the master that each process   *)
(* copies when it is forked.  A worker reads the pair of its process slot  *)
(* (ngx_alpaca_init_process), the sender writes to the pairs of the slots  *)
(* below alpaca_worker_processes (get_zk_value).  Nothing is ever closed.  *)
(*                                                                         *)
(* The master is nginx and external: it runs the load and, unless the rest *)
(* of the configuration fails, starts the new workers and then the sender  *)
(* in the first free slots, and tells the old processes to leave.  One     *)
(* that dies is started again in its slot.                                 *)
(***************************************************************************)
EXTENDS Integers, FiniteSets

CONSTANTS NSlots,     \* process slots of the master
          Counts,     \* numbers of workers that a configuration may ask for
          MaxLoads,   \* bound on the loads
          MaxUnmade,  \* bound on the pairs that socketpair does not make
          MaxDeaths   \* bound on the deaths

Slots == 0 .. NSlots - 1
Loads == 0 .. MaxLoads

ASSUME NumbersAssumption == NSlots \in Nat /\ MaxLoads \in Nat \ {0}
                             /\ MaxUnmade \in Nat /\ MaxDeaths \in Nat
ASSUME CountsAssumption == Counts # {} /\ Counts \subseteq 1 .. NSlots - 1

VARIABLES
  load,       \* how many loads there were
  pair,       \* [Slots -> Loads] alpaca_pipe of the master: the load that made the
              \* pair of a slot, 0 if none did and its descriptors are 0
  count,      \* alpaca_worker_processes of the master
  kind,       \* [Slots -> {"free", "worker", "sender"}] who is in a slot
  life,       \* [Slots -> {"new", "running", "leaving"}]
  copy,       \* [Slots -> [Slots -> Loads]] alpaca_pipe of a process
  copyCount,  \* [Slots -> Counts \cup {0}] alpaca_worker_processes of a process
  listens,    \* the slots of the senders that have the port
  deaths,     \* the deaths so far
  since,      \* history: [Slots -> Loads] the last load when a process was forked
  unmade,     \* history: the <<slot, load>> for which socketpair failed
  reloaded,   \* history: a reload succeeded
  failed,     \* history: a load failed since the last one that succeeded
  ended       \* history: since then a sender could not start, and was not started again

master == <<load, pair, count, unmade>>
arrays == <<copy, copyCount, since>>
processes == <<kind, life, listens, arrays>>
history == <<reloaded, failed, ended>>
vars == <<master, processes, deaths, history>>

TypeOK ==
  /\ load \in Loads /\ pair \in [Slots -> Loads] /\ count \in Counts
  /\ kind \in [Slots -> {"free", "worker", "sender"}]
  /\ life \in [Slots -> {"new", "running", "leaving"}]
  /\ copy \in [Slots -> [Slots -> Loads]] /\ copyCount \in [Slots -> Counts \cup {0}]
  /\ listens \subseteq Slots /\ deaths \in 0 .. MaxDeaths
  /\ since \in [Slots -> Loads] /\ unmade \subseteq Slots \X Loads
  /\ reloaded \in BOOLEAN /\ failed \in BOOLEAN /\ ended \in BOOLEAN

\* Slots for which socketpair may fail in a load that asks for n workers.
Failing(n) == {F \in SUBSET {s \in Slots : s < n} : Cardinality(F) <= MaxUnmade}

\* Where there is no process, there is no array.
NoPairs == [i \in Slots |-> 0]

\* The configuration was loaded once, with n workers in the first n slots and the
\* sender after them.
Init ==
  \E n \in Counts : \E F \in Failing(n) :
    /\ load = 1 /\ count = n
    /\ pair = [s \in Slots |-> IF s < n /\ s \notin F THEN 1 ELSE 0]
    /\ unmade = F \X {1}
    /\ kind = [s \in Slots |-> IF s < n THEN "worker" ELSE IF s = n THEN "sender" ELSE "free"]
    /\ life = [s \in Slots |-> "new"] /\ listens = {}
    /\ copy = [s \in Slots |-> IF s <= n THEN pair ELSE NoPairs]
    /\ copyCount = [s \in Slots |-> IF s <= n THEN n ELSE 0]
    /\ since = [s \in Slots |-> IF s <= n THEN 1 ELSE 0]
    /\ deaths = 0 /\ reloaded = FALSE /\ failed = FALSE /\ ended = FALSE

-----------------------------------------------------------------------------
(* The master.                                                             *)

\* Mutant of MakePairs: a slot that has a pair keeps it.
MakeMissingPairs(n) ==
  /\ pair' = [s \in Slots |-> IF s < n /\ pair[s] = 0 THEN load + 1 ELSE pair[s]]
  /\ UNCHANGED unmade

\* Mutant of MakePairs: the loop ends one too early.
MakeAllButLast(n) ==
  /\ pair' = [s \in Slots |-> IF s < n - 1 THEN load + 1 ELSE pair[s]]
  /\ UNCHANGED unmade

\* socketpair for each worker.  Its result is ignored: where it fails the slot keeps
\* the descriptors it had, and fcntl sets the flags of those, or of descriptor 0.
MakePairs(n) ==
  \E F \in Failing(n) :
    /\ Cardinality(unmade) + Cardinality(F) <= MaxUnmade
    /\ pair' = [s \in Slots |-> IF s < n /\ s \notin F THEN load + 1 ELSE pair[s]]
    /\ unmade' = unmade \cup (F \X {load + 1})

\* Mutant of Load: the sender is counted as a worker.
LoadCountingSender(n) ==
  /\ load < MaxLoads
  /\ load' = load + 1 /\ count' = n + 1
  /\ MakePairs(n)

\* ngx_alpaca_client_init
Load(n) ==
  /\ load < MaxLoads
  /\ load' = load + 1 /\ count' = n
  /\ MakePairs(n)

\* The rest of the configuration is rejected, and the master goes on with its old
\* configuration and processes, but with the new pairs.
LoadFails(n) ==
  /\ Load(n)
  /\ failed' = TRUE
  /\ UNCHANGED <<processes, deaths, reloaded, ended>>

Free == {s \in Slots : kind[s] = "free"}

\* The first n free slots.
First(n) == {s \in Free : Cardinality({r \in Free : r < s}) < n}

\* The new processes are forked, with the new arrays, and the others told to leave.
Reload(n) ==
  /\ Cardinality(Free) > n
  /\ Load(n)
  /\ \E d \in Free \ First(n) :
       /\ \A s \in Free \ First(n) : d <= s
       /\ kind' = [s \in Slots |-> IF s \in First(n) THEN "worker"
                                   ELSE IF s = d THEN "sender" ELSE kind[s]]
       /\ copy' = [s \in Slots |-> IF s \in First(n) \cup {d} THEN pair' ELSE copy[s]]
       /\ copyCount' = [s \in Slots |-> IF s \in First(n) \cup {d} THEN n ELSE copyCount[s]]
       /\ since' = [s \in Slots |-> IF s \in First(n) \cup {d} THEN load' ELSE since[s]]
       /\ life' = [s \in Slots |-> IF s \in Free THEN "new" ELSE "leaving"]
  /\ reloaded' = TRUE /\ failed' = FALSE /\ ended' = FALSE
  /\ UNCHANGED <<listens, deaths>>

\* A process that ended is forked again in its slot, from what the master has now.
Respawn(s) ==
  /\ life' = [life EXCEPT ![s] = "new"]
  /\ copy' = [copy EXCEPT ![s] = pair]
  /\ copyCount' = [copyCount EXCEPT ![s] = count]
  /\ since' = [since EXCEPT ![s] = load]
  /\ listens' = listens \ {s}
  /\ UNCHANGED <<master, kind, history>>

\* A process dies.
Die(s) ==
  /\ kind[s] # "free" /\ life[s] # "leaving" /\ deaths < MaxDeaths
  /\ deaths' = deaths + 1
  /\ Respawn(s)

-----------------------------------------------------------------------------
(* The processes.                                                          *)

\* A process ends and its slot is free.
Leave(s) ==
  /\ kind' = [kind EXCEPT ![s] = "free"] /\ life' = [life EXCEPT ![s] = "new"]
  /\ copy' = [copy EXCEPT ![s] = NoPairs] /\ copyCount' = [copyCount EXCEPT ![s] = 0]
  /\ since' = [since EXCEPT ![s] = 0]
  /\ listens' = listens \ {s}
  /\ UNCHANGED <<master, deaths, reloaded, failed>>

\* Told to leave, it does in its own time; so does a sender, which closes its port.
Exit(s) == kind[s] # "free" /\ life[s] = "leaving" /\ Leave(s) /\ UNCHANGED ended

Run(s) ==
  /\ life' = [life EXCEPT ![s] = "running"]
  /\ UNCHANGED <<master, kind, arrays, deaths, history>>

\* The worker adds its pair to its events.  Without a pair it adds descriptor 0,
\* which fails, and it is not started again, or succeeds and brings nothing.
InitWorker(s) ==
  /\ kind[s] = "worker" /\ life[s] = "new"
  /\ \/ Run(s) /\ UNCHANGED listens
     \/ copy[s][s] = 0 /\ Leave(s) /\ UNCHANGED ended

\* The sender binds its port, if no other has it.
InitSender(s) ==
  /\ kind[s] = "sender" /\ life[s] = "new"
  /\ listens = {} /\ listens' = {s}
  /\ Run(s)

\* It cannot bind, or another call fails (NGX_ERROR): it ends.  Whether it is started
\* again then, is in the hands of the master.
InitSenderFails(s) ==
  /\ kind[s] = "sender" /\ life[s] = "new"
  /\ \/ Leave(s) /\ ended' = TRUE
     \/ Respawn(s) /\ UNCHANGED deaths

-----------------------------------------------------------------------------
Next ==
  \/ \E n \in Counts : LoadFails(n) \/ Reload(n)
  \/ \E s \in Slots : Die(s) \/ Exit(s) \/ InitWorker(s)
                    \/ InitSender(s) \/ InitSenderFails(s)

Spec == Init /\ [][Next]_vars

-----------------------------------------------------------------------------
(* Properties.                                                             *)

Sender(d) == kind[d] = "sender"

\* The sender in slot d writes to the pair that load k made for slot i.
Writes(d, i, k) == Sender(d) /\ i < copyCount[d] /\ copy[d][i] = k /\ k # 0

\* The worker in slot w reads what the sender in slot d writes.
Fed(w, d) == Writes(d, w, copy[w][w])

Current(s) == kind[s] # "free" /\ life[s] # "leaving"

\* The pair of slot i could not be made in the load that process s was forked after.
Kept(s, i) == <<i, since[s]>> \in unmade

\* Two senders never write to one pair, although the old one goes on until it has
\* left: their messages, four writes each, would mix.  This is why the pairs must be
\* made again, and what ConfigDistribution takes for granted.  Unless socketpair
\* failed, and nobody noticed: then the new sender has the pair of the old one.
OneWriter ==
  \A d, e \in Slots, i \in Slots, k \in Loads :
    Writes(d, i, k) /\ Writes(e, i, k) => d = e \/ Kept(d, i) \/ Kept(e, i)

\* Each worker of a configuration that has a slot below the number of workers is fed by
\* the sender of that configuration, whoever died and was started again.  Unless a load
\* failed meanwhile: its pairs are in use by those who died after it only; or the slot
\* has no pair, as socketpair failed; or the sender could not start, perhaps because
\* the old one had the port.  Before the first reload every worker has such a slot.
\* After it, the new workers have the slots after those of the old ones, and are not
\* fed (line 553).
WorkersFed ==
  ~failed => \A w \in Slots :
    /\ kind[w] = "worker" /\ Current(w)
    /\ w < count \/ ~reloaded
    => \/ ended
       \/ Kept(w, w) /\ pair[w] = 0
       \/ \E d \in Slots : Current(d) /\ Fed(w, d)

\* A worker whose slot is below the number of workers never reads what a sender of
\* another configuration writes, who still sends the values it knew; unless its slot
\* kept the pair of that configuration because socketpair failed.
OwnSender ==
  \A w, d \in Slots :
    kind[w] = "worker" /\ Current(w) /\ w < copyCount[w] /\ Fed(w, d)
    => Current(d) \/ Kept(w, w)
=============================================================================
