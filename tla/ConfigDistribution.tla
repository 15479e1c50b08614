-------------------------- MODULE ConfigDistribution --------------------------
(***************************************************************************)
(* How the configuration gets from ZooKeeper to the workers.               *)
(*                                                                         *)
(* The sender process reads keys with zoo_get, which arms a one-shot       *)
(* watch, and writes each value to the pipe of every worker, four blocking *)
(* writes a message (get_zk_value); a write that fails is logged, and the  *)
(* next one follows.  Three of its threads do so, without a lock:          *)
(* "main" reads every key at the start and for every ping it accepts       *)
(* (register_zk_value), "completion" reads a key whose watch fired         *)
(* (watcher), "heartbeat" reads every key after it replaced a session that *)
(* expired (heartbeatcycle).  A worker drains its pipe until it is empty   *)
(* and parses what it got (ngx_pipe_handler), keeping nothing of a message *)
(* that was not complete.  A starting worker pings the sender before it    *)
(* reads its pipe, for at most five seconds (ngx_alpaca_init_process); a   *)
(* running one pings every few minutes (healthCheckThread).                *)
(*                                                                         *)
(* The ZooKeeper client and server are external.  The pipes belong to the  *)
(* master and outlive the sender and the workers.                          *)
(***************************************************************************)
EXTENDS PipeParser, FiniteSets

CONSTANTS Workers,      \* the slots of alpaca_pipe
          KeyOrder,     \* the order of ZOOKEEPERWATCHKEYS
          PipeCap,      \* tokens a pipe holds before its writer blocks
          Chunk,        \* tokens one read returns at most
          BufCap,       \* tokens pipe_buf holds
          MaxChanges,   \* bound on the changes in ZooKeeper, of all keys
          MaxFailures,  \* bound on crashes, session expiries and failed writes together
          Pings,        \* whether running workers ping
          CommandKeys   \* the switches a command of the server changes

Threads == {"main", "completion", "heartbeat"}
None == "none"
Orphan == "orphan"   \* a ping whose client is gone
Clients == Workers \cup {Orphan}

ASSUME KeyOrderAssumption ==
  KeyOrder \in Seq(Keys) /\ \A k \in Keys : \E i \in DOMAIN KeyOrder : KeyOrder[i] = k
ASSUME CapAssumption ==
  /\ PipeCap \in Nat \ {0} /\ Chunk \in Nat \ {0} /\ BufCap \in Nat \ {0} /\ MaxChanges \in Nat
  /\ MaxFailures \in Nat /\ Pings \in BOOLEAN
  /\ IsFiniteSet(Workers) /\ Workers \cap {None, Orphan} = {}
  /\ CommandKeys \subseteq Keys

VARIABLES
  zk,        \* ZooKeeper: the version of each key
  changes,   \* the changes so far
  watch,     \* ZooKeeper: the keys with a watch of the sender
  events,    \* watch events on their way to the completion thread
  session,   \* "ok", "expired", "closing": zh is closed and not yet NULL, or
             \* "closed": zh = NULL
  todo,      \* [Threads -> Seq(Keys)] the keys a thread has still to get
  out,       \* [Threads -> Seq] the writes of its current message, in order
  serving,   \* whose ping main answers, None if none
  pings,     \* whose pings wait to be accepted
  pipe,      \* [Workers -> Seq] tokens written and not read
  worker,    \* [Workers -> {"down", "starting", "running"}]
  buf,       \* [Workers -> Seq] pipe_buf
  conf,      \* [Workers -> [Keys -> Values]] what the worker has for a key
  failures,  \* the failures so far
  seen,      \* history: the version of each key last read by the sender
  stale,     \* history: the keys whose last zoo_get failed
  mixed,     \* history: the workers in whose pipe messages may have been mixed up
  clean      \* history: the workers for which nothing was lost, and that got no
             \* command, since the last registration that began at rest

zkVars == <<zk, changes, watch, events, session, seen, stale>>
senderVars == <<todo, out, serving, pings>>
workerVars == <<pipe, worker, buf, conf>>
vars == <<zkVars, senderVars, workerVars, failures, mixed, clean>>

Versions == 0 .. MaxChanges
Garbage == <<"garbage">>   \* any value that no single write made
Commanded == <<"command">> \* what the server told one worker
Values == {<<>>, Garbage, Commanded} \cup {ValueToken(k, v) : k \in Keys, v \in Versions}
Tokens == {Sep, End} \cup {KeyToken(k) : k \in Keys}
            \cup {ValueToken(k, v) : k \in Keys, v \in Versions}
            \cup {PartToken(k) : k \in Keys}
Sessions == {"ok", "expired", "closing", "closed"}

TypeOK ==
  /\ changes \in 0 .. MaxChanges
  /\ zk \in [Keys -> 0 .. changes] /\ seen \in [Keys -> 0 .. changes]
  /\ watch \subseteq Keys /\ stale \subseteq Keys
  /\ events \in Seq(Keys)
  /\ session \in Sessions
  /\ todo \in [Threads -> Seq(Keys)]
  /\ out \in [Threads -> Seq(Workers \X Tokens)]
  /\ serving \in Clients \cup {None} /\ pings \subseteq Clients
  /\ pipe \in [Workers -> Seq(Tokens)] /\ buf \in [Workers -> Seq(Tokens)]
  /\ \A w \in Workers : Len(pipe[w]) <= PipeCap /\ Len(buf[w]) <= BufCap
  /\ worker \in [Workers -> {"down", "starting", "running"}]
  /\ conf \in [Workers -> [Keys -> Values]]
  /\ failures \in 0 .. MaxFailures
  /\ mixed \subseteq Workers /\ clean \subseteq Workers

\* No value was received: the zeroed configuration of a new worker.
Unset == [k \in Keys |-> <<>>]

Idle(t) == todo[t] = <<>> /\ out[t] = <<>>

\* The master has started the workers and the sender; each worker pings, main
\* is in init_config_watch: every key is read, or zookeeper_init fails, zh stays
\* NULL and nothing is read.
Init ==
  /\ zk = [k \in Keys |-> 0] /\ seen = zk /\ changes = 0
  /\ watch = {} /\ stale = {}
  /\ events = <<>>
  /\ session \in {"ok", "closed"}
  /\ todo = [t \in Threads |-> IF t = "main" /\ session = "ok" THEN KeyOrder ELSE <<>>]
  /\ out = [t \in Threads |-> <<>>]
  /\ serving = None /\ pings = Workers
  /\ pipe = [w \in Workers |-> <<>>] /\ buf = pipe
  /\ worker = [w \in Workers |-> "starting"]
  /\ conf = [w \in Workers |-> Unset]
  /\ failures = 0
  /\ mixed = {} /\ clean = IF session = "ok" THEN Workers ELSE {}

-----------------------------------------------------------------------------
(* ZooKeeper (external).                                                   *)

\* A key changes; its watch fires once and is gone.
Change(k) ==
  /\ changes < MaxChanges
  /\ changes' = changes + 1
  /\ zk' = [zk EXCEPT ![k] = @ + 1]
  /\ IF k \in watch /\ session = "ok"
       THEN watch' = watch \ {k} /\ events' = Append(events, k)
       ELSE UNCHANGED <<watch, events>>
  /\ UNCHANGED <<session, seen, stale, senderVars, workerVars, failures, mixed, clean>>

\* The session expires, and its watches with it.
Expire ==
  /\ session = "ok" /\ failures < MaxFailures
  /\ failures' = failures + 1
  /\ session' = "expired"
  /\ watch' = {}
  /\ clean' = {}
  /\ UNCHANGED <<zk, changes, events, seen, stale, senderVars, workerVars, mixed>>

-----------------------------------------------------------------------------
(* The sender process.                                                     *)

\* Mutant of WritesFor: the loop over the pipes ends one too early.
WritesForButLast(order, k, v) ==
  [n \in 1 .. 4 * (Len(order) - 1) |->
    <<order[(n + 3) \div 4], Message(k, v)[((n + 3) % 4) + 1]>>]

\* Every write of one message of get_zk_value, to each worker in turn.
WritesFor(order, k, v) ==
  [n \in 1 .. 4 * Len(order) |->
    <<order[(n + 3) \div 4], Message(k, v)[((n + 3) % 4) + 1]>>]

Slots == SetToSeq(Workers)

\* Another thread is in the middle of a message.
Writing(t) == \E u \in Threads \ {t} : out[u] # <<>>

\* Mutant of GetOK: zoo_get is given no watcher.
GetOKUnwatched(t) ==
  /\ todo[t] # <<>> /\ out[t] = <<>> /\ session = "ok"
  /\ LET k == Head(todo[t])
     IN  /\ out' = [out EXCEPT ![t] = WritesFor(Slots, k, zk[k])]
         /\ seen' = [seen EXCEPT ![k] = zk[k]]
         /\ stale' = stale \ {k}
  /\ todo' = [todo EXCEPT ![t] = Tail(@)]
  /\ mixed' = IF Writing(t) THEN Workers ELSE mixed
  /\ clean' = IF Writing(t) THEN {} ELSE clean
  /\ UNCHANGED <<zk, changes, watch, events, session, serving, pings, workerVars, failures>>

\* zoo_get succeeds: it reads the value and arms the watch.
GetOK(t) ==
  /\ todo[t] # <<>> /\ out[t] = <<>> /\ session = "ok"
  /\ LET k == Head(todo[t])
     IN  /\ out' = [out EXCEPT ![t] = WritesFor(Slots, k, zk[k])]
         /\ watch' = watch \cup {k}
         /\ seen' = [seen EXCEPT ![k] = zk[k]]
         /\ stale' = stale \ {k}
  /\ todo' = [todo EXCEPT ![t] = Tail(@)]
  /\ mixed' = IF Writing(t) THEN Workers ELSE mixed
  /\ clean' = IF Writing(t) THEN {} ELSE clean
  /\ UNCHANGED <<zk, changes, events, session, serving, pings, workerVars, failures>>

\* zoo_get fails: it is logged, nothing is sent and no watch is armed.
GetFails(t) ==
  /\ todo[t] # <<>> /\ out[t] = <<>>
  /\ stale' = stale \cup {Head(todo[t])}
  /\ todo' = [todo EXCEPT ![t] = Tail(@)]
  /\ clean' = {}
  /\ UNCHANGED <<zk, changes, watch, events, session, seen, out, serving, pings,
                 workerVars, failures, mixed>>

\* Mutant of Write: a full pipe makes the write fail, as if it did not block.
WriteNonblocking(t) ==
  /\ out[t] # <<>>
  /\ LET w == Head(out[t])[1]
     IN  pipe' = IF Len(pipe[w]) < PipeCap
                   THEN [pipe EXCEPT ![w] = Append(@, Head(out[t])[2])]
                   ELSE pipe
  /\ out' = [out EXCEPT ![t] = Tail(@)]
  /\ UNCHANGED <<zkVars, todo, serving, pings, worker, buf, conf, failures, mixed, clean>>

\* One write to a pipe; it blocks while the pipe is full.
Write(t) ==
  /\ out[t] # <<>>
  /\ LET w == Head(out[t])[1]
     IN  /\ Len(pipe[w]) < PipeCap
         /\ pipe' = [pipe EXCEPT ![w] = Append(@, Head(out[t])[2])]
  /\ out' = [out EXCEPT ![t] = Tail(@)]
  /\ UNCHANGED <<zkVars, todo, serving, pings, worker, buf, conf, failures, mixed, clean>>

\* Mutant of WriteFails: a failed write ends the loop over the pipes.
WriteFailsAll(t) ==
  /\ out[t] # <<>> /\ failures < MaxFailures
  /\ failures' = failures + 1
  /\ LET w == Head(out[t])[1]
     IN  mixed' = mixed \cup {w} /\ clean' = clean \ {w}
  /\ out' = [out EXCEPT ![t] = <<>>]
  /\ UNCHANGED <<zkVars, todo, serving, pings, workerVars>>

\* A write fails, for a signal while it waits or for want of memory, and is
\* only logged; or the signal cuts short the write of a value, which alone may
\* be long.  The next write follows.
WriteFails(t) ==
  /\ out[t] # <<>> /\ failures < MaxFailures
  /\ failures' = failures + 1
  /\ LET w == Head(out[t])[1]
         x == Head(out[t])[2]
     IN  /\ \/ UNCHANGED pipe
            \/ /\ x[1] = "value" /\ Len(pipe[w]) < PipeCap
               /\ pipe' = [pipe EXCEPT ![w] = Append(@, PartToken(x[2]))]
         /\ mixed' = mixed \cup {w} /\ clean' = clean \ {w}
  /\ out' = [out EXCEPT ![t] = Tail(@)]
  /\ UNCHANGED <<zkVars, todo, serving, pings, worker, buf, conf>>

\* Nothing is under way for w but what main is about to do.
AtRest(w) ==
  /\ \A t \in Threads : Idle(t)
  /\ events = <<>> /\ pipe[w] = <<>> /\ buf[w] = <<>> /\ worker[w] # "down"

\* Mutant of Accept: the loop over the keys leaves the first out.
AcceptButFirst(c) ==
  /\ c \in pings /\ Idle("main") /\ serving = None
  /\ pings' = pings \ {c}
  /\ serving' = c
  /\ todo' = [todo EXCEPT !["main"] = Tail(KeyOrder)]
  /\ clean' = clean \cup {u \in Workers : AtRest(u)}
  /\ UNCHANGED <<zkVars, out, workerVars, failures, mixed>>

\* ngx_proc_send_accept of a ping: whatever its path, every key is read.
Accept(c) ==
  /\ c \in pings /\ Idle("main") /\ serving = None
  /\ pings' = pings \ {c}
  /\ serving' = c
  /\ todo' = [todo EXCEPT !["main"] = KeyOrder]
  /\ clean' = clean \cup {u \in Workers : AtRest(u)}
  /\ UNCHANGED <<zkVars, out, workerVars, failures, mixed>>

\* The request has not arrived when it is read: the handler returns and
\* leaves the socket open.  Nobody answers this ping.
AcceptEarly(c) ==
  /\ c \in pings /\ Idle("main") /\ serving = None
  /\ pings' = pings \ {c}
  /\ UNCHANGED <<zkVars, todo, out, serving, workerVars, failures, mixed, clean>>

\* The socket is closed, which ends the ping of the worker.
Answer ==
  /\ serving # None /\ Idle("main")
  /\ worker' = [w \in Workers |->
       IF w = serving /\ worker[w] = "starting" THEN "running" ELSE worker[w]]
  /\ serving' = None
  /\ UNCHANGED <<zkVars, todo, out, pings, pipe, buf, conf, failures, mixed, clean>>

\* The completion thread is given a watch event.
Watcher ==
  /\ events # <<>> /\ Idle("completion")
  /\ todo' = [todo EXCEPT !["completion"] = <<Head(events)>>]
  /\ events' = Tail(events)
  /\ UNCHANGED <<zk, changes, watch, session, seen, stale, out, serving, pings,
                 workerVars, failures, mixed, clean>>

\* heartbeatcycle finds the session unrecoverable.  zookeeper_close joins the
\* completion thread and frees what zh points to.
Close ==
  /\ session = "expired" /\ Idle("heartbeat") /\ Idle("completion")
  /\ session' = "closing"
  /\ events' = <<>>
  /\ UNCHANGED <<zk, changes, watch, seen, stale, senderVars, workerVars,
                 failures, mixed, clean>>

\* zh is NULL, then what zookeeper_init returns, which may be NULL again.
Reopen ==
  /\ session = "closing"
  /\ session' \in {"ok", "closed"}
  /\ todo' = [todo EXCEPT !["heartbeat"] = KeyOrder]
  /\ UNCHANGED <<zk, changes, watch, events, seen, stale, out, serving, pings,
                 workerVars, failures, mixed, clean>>

\* The sender process is gone, perhaps in the middle of a message, and is
\* started again: init_config_watch, as in Init.
Restarted ==
  /\ session' \in {"ok", "closed"}
  /\ watch' = {} /\ events' = <<>> /\ stale' = {}
  /\ todo' = [t \in Threads |->
       IF t = "main" /\ session' = "ok" THEN KeyOrder ELSE <<>>]
  /\ out' = [t \in Threads |-> <<>>]
  /\ serving' = None /\ pings' = {}   \* their sockets are closed
  /\ worker' = [w \in Workers |->
       IF worker[w] = "starting" THEN "running" ELSE worker[w]]
  /\ mixed' = IF \E t \in Threads : out[t] # <<>> THEN Workers ELSE mixed
  /\ clean' = {}
  /\ UNCHANGED <<zk, changes, seen, pipe, buf, conf>>

\* The sender process dies.
SenderRestart ==
  /\ failures < MaxFailures
  /\ failures' = failures + 1
  /\ Restarted

\* A thread calls zoo_get with the handle that was closed and is not yet NULL:
\* it reads freed memory, which ends the process or makes the call fail
\* (GetFails).
UseClosed(t) ==
  /\ session = "closing" /\ todo[t] # <<>> /\ out[t] = <<>>
  /\ Restarted
  /\ UNCHANGED failures

-----------------------------------------------------------------------------
(* A worker.                                                               *)

\* The client of a ping goes away.  The sender may still accept and serve it;
\* pings whose clients are gone are not told apart.
Abandon(w) ==
  /\ pings' = IF w \in pings THEN (pings \ {w}) \cup {Orphan} ELSE pings
  /\ serving' = IF serving = w THEN Orphan ELSE serving

\* Mutant of StartTimeout: curl is given no CURLOPT_TIMEOUT.
StartForever(w) == FALSE /\ UNCHANGED vars

\* Its ping takes five seconds: curl gives up and the worker goes on.
StartTimeout(w) ==
  /\ worker[w] = "starting"
  /\ worker' = [worker EXCEPT ![w] = "running"]
  /\ Abandon(w)
  /\ UNCHANGED <<zkVars, todo, out, pipe, buf, conf, failures, mixed, clean>>

\* The health check thread pings.
Ping(w) ==
  /\ Pings /\ worker[w] = "running" /\ w \notin pings /\ serving # w
  /\ pings' = pings \cup {w}
  /\ UNCHANGED <<zkVars, todo, out, serving, workerVars, failures, mixed, clean>>

\* Mutant of Read: the chunk is copied whether it fits or not.
ReadUnchecked(w) ==
  /\ worker[w] = "running" /\ pipe[w] # <<>>
  /\ LET n == IF Len(pipe[w]) < Chunk THEN Len(pipe[w]) ELSE Chunk
     IN
       /\ pipe' = [pipe EXCEPT ![w] = SubSeq(@, n + 1, Len(@))]
       /\ buf' = [buf EXCEPT ![w] = @ \o SubSeq(pipe[w], 1, n)]
  /\ UNCHANGED <<zkVars, senderVars, worker, conf, failures, mixed, clean>>

\* One read of ngx_pipe_handler.  A chunk that does not fit is dropped, and
\* a shorter one after it may fit again.
Read(w) ==
  /\ worker[w] = "running" /\ pipe[w] # <<>>
  /\ LET n == IF Len(pipe[w]) < Chunk THEN Len(pipe[w]) ELSE Chunk
     IN
       /\ pipe' = [pipe EXCEPT ![w] = SubSeq(@, n + 1, Len(@))]
       /\ IF Len(buf[w]) + n <= BufCap
            THEN /\ buf' = [buf EXCEPT ![w] = @ \o SubSeq(pipe[w], 1, n)]
                 /\ UNCHANGED <<mixed, clean>>
            ELSE mixed' = mixed \cup {w} /\ clean' = clean \ {w} /\ UNCHANGED buf
  /\ UNCHANGED <<zkVars, senderVars, worker, conf, failures>>

\* What update_zk_value is given: the bytes between the marks.
ValueOf(s) == IF Len(s) = 1 /\ s[1][1] = "value" THEN s[1]
              ELSE IF s = <<>> THEN <<>> ELSE Garbage

\* update_zk_value of each update in turn: the last one of a key stays.
Apply(c, us) ==
  [k \in Keys |-> LET mine == {i \in DOMAIN us : us[i][1] = k}
                  IN  IF mine = {} THEN c[k] ELSE ValueOf(us[Max(mine)][2])]

\* Mutant of Parse: the configuration is rebuilt from what was received.
ParseAfresh(w) ==
  /\ worker[w] = "running" /\ pipe[w] = <<>> /\ buf[w] # <<>>
  /\ \E us \in {Updates(buf[w])} : conf' = [conf EXCEPT ![w] = Apply(Unset, us)]
  /\ buf' = [buf EXCEPT ![w] = <<>>]
  /\ clean' = IF Whole(buf[w]) THEN clean ELSE clean \ {w}
  /\ UNCHANGED <<zkVars, senderVars, pipe, worker, failures, mixed>>

\* The pipe is empty: the buffer is parsed, and emptied whatever is left.
Parse(w) ==
  /\ worker[w] = "running" /\ pipe[w] = <<>> /\ buf[w] # <<>>
  /\ \E us \in {Updates(buf[w])} : conf' = [conf EXCEPT ![w] = Apply(@, us)]
  /\ buf' = [buf EXCEPT ![w] = <<>>]
  /\ clean' = IF Whole(buf[w]) THEN clean ELSE clean \ {w}
  /\ UNCHANGED <<zkVars, senderVars, pipe, worker, failures, mixed>>

\* handleInternalRequestIfNeeded: the server turns the filter of the worker that
\* happens to get its request on or off.
Command(w) ==
  /\ worker[w] = "running"
  /\ \E k \in CommandKeys : conf' = [conf EXCEPT ![w][k] = Commanded]
  /\ clean' = clean \ {w}
  /\ UNCHANGED <<zkVars, senderVars, pipe, worker, buf, failures, mixed>>

\* A worker dies; what it has not read stays in its pipe.
Crash(w) ==
  /\ worker[w] # "down" /\ failures < MaxFailures
  /\ failures' = failures + 1
  /\ worker' = [worker EXCEPT ![w] = "down"]
  /\ buf' = [buf EXCEPT ![w] = <<>>]
  /\ conf' = [conf EXCEPT ![w] = Unset]
  /\ clean' = clean \ {w}
  /\ Abandon(w)
  /\ UNCHANGED <<zkVars, todo, out, pipe, mixed>>

\* The master starts it again in the same slot.
Respawn(w) ==
  /\ worker[w] = "down"
  /\ worker' = [worker EXCEPT ![w] = "starting"]
  /\ pings' = pings \cup {w}
  /\ UNCHANGED <<zkVars, todo, out, serving, pipe, buf, conf, failures, mixed, clean>>

-----------------------------------------------------------------------------
Environment == (\E k \in Keys : Change(k)) \/ Expire
Thread(t) == GetOK(t) \/ GetFails(t) \/ Write(t) \/ WriteFails(t)
Sender ==
  \/ \E t \in Threads : Thread(t)
  \/ \E c \in Clients : Accept(c) \/ AcceptEarly(c)
  \/ Answer \/ Watcher \/ Close \/ Reopen
  \/ SenderRestart \/ \E t \in Threads : UseClosed(t)
Worker(w) == StartTimeout(w) \/ Ping(w) \/ Read(w) \/ Parse(w)
               \/ Command(w) \/ Crash(w) \/ Respawn(w)

Next == Environment \/ Sender \/ \E w \in Workers : Worker(w)

Spec == Init /\ [][Next]_vars

\* What each thread and each worker does by itself, one thing at a time.
MainSteps == Thread("main") \/ Answer \/ \E c \in Clients : Accept(c) \/ AcceptEarly(c)
CompletionSteps == Thread("completion") \/ Watcher
HeartbeatSteps == Thread("heartbeat") \/ Close \/ Reopen
WorkerSteps(w) == StartTimeout(w) \/ Read(w) \/ Parse(w) \/ Respawn(w)

\* Threads run, running workers read, the master respawns, curl times out.
\* Nothing makes ZooKeeper change or fail, a process die or a worker ping.
FairSpec ==
  /\ Spec
  /\ WF_vars(MainSteps) /\ WF_vars(CompletionSteps) /\ WF_vars(HeartbeatSteps)
  /\ \A w \in Workers : WF_vars(WorkerSteps(w))

-----------------------------------------------------------------------------
(* Properties.                                                             *)

\* A worker never applies to a key anything but a value that ZooKeeper held
\* for it: a message cut in two by a drain that came too early (the four
\* writes of lines 47-56 are not atomic) is lost, with the message after it,
\* but never read as another.  Unless two threads of the sender were in the
\* middle of a message at once or the sender died in the middle of one, or,
\* for this worker, a chunk did not fit in pipe_buf or a write failed: what is
\* lost on one pipe does no harm to the others.
Genuine ==
  \A w \in Workers \ mixed, k \in Keys :
    conf[w][k] \in {<<>>, Commanded} \/ \E v \in 0 .. zk[k] : conf[w][k] = ValueToken(k, v)

\* A worker never goes back to an older value of a key, under the same
\* conditions: two threads reading one key at once may deliver the older
\* value last.
NeverBackwards ==
  [][\A w \in Workers, k \in Keys :
       /\ w \notin mixed' /\ worker'[w] # "down"
       /\ conf[w][k] \notin {<<>>, Commanded} /\ conf'[w][k] # Commanded
       => conf'[w][k] # <<>> /\ conf'[w][k][3] >= conf[w][k][3]]_vars

\* The ping repairs: once a registration that began at rest is over and
\* nothing was torn, mixed, failed or restarted meanwhile, the worker has the
\* current value of every key, whatever was lost before, failed writes
\* included: the workers agree, and a command that the server gave to one of
\* them is undone (alpacaClient.c:522).
Healed ==
  \A w \in clean : AtRest(w) /\ serving = None /\ worker[w] = "running" =>
    conf[w] = [k \in Keys |-> ValueToken(k, zk[k])]

\* The sender never misses a change while it has a session: when the value it
\* read last is not the current one, an event or a read of the key is on its
\* way, or its last read failed (line 38 then leaves the key unwatched).
NoMissedChange ==
  session = "ok" => \A k \in Keys : seen[k] # zk[k] =>
    \/ k \in stale
    \/ \E i \in DOMAIN events : events[i] = k
    \/ \E t \in Threads : \E i \in DOMAIN todo[t] : todo[t][i] = k

\* No thread of the sender stays in a registration for ever, although it
\* writes to workers that do not read: a dead one is respawned in its slot,
\* and one that waits for the sender gives up after five seconds.
ThreadsFinish == \A t \in Threads : ~Idle(t) ~> Idle(t)

\* A change does not stay unnoticed: the sender reads the new value of a key
\* at last, even when its session expired and took the watch with it, or its
\* last read of the key in a good session failed and left it unwatched, or no
\* session could be opened again, after which nothing is read any more.
ChangeSeen ==
  \A k \in Keys : seen[k] # zk[k] ~>
    seen[k] = zk[k] \/ (k \in stale /\ session = "ok") \/ session = "closed"
=============================================================================
