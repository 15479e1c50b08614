# A verification of the alpaca firewall module

The repository is an nginx module that blocks unwanted requests.  The lists of
what to block come from ZooKeeper, the decision is made in Lua by every worker,
and each blocked request is reported to a server.  These TLA+ modules model
the queue of block events, the distribution of the configuration, the filter
with its Lua state, the texts that threads share, the processes over a reload,
and the pages that answer a request.  TLC checks them on small instances.  TLAPS
proves every safety property that TLC checks for all sizes, and that the queue
implements its specification; the liveness properties are only model-checked.

## 1. The system

Processes and threads, and what they share:

| process | thread | runs |
|---|---|---|
| sender (one) | main | `ngx_proc_send_process_init`, `ngx_proc_send_accept` |
| | ZooKeeper completion | `watcher` |
| | heartbeat | `heartbeatcycle` |
| worker (several) | event loop | `ngx_alpaca_init_process`, `ngx_pipe_handler`, `doFilter` |
| | push | `pushRequestThread`, `sendFirewallHttpRequest` |
| | health check | `healthCheckThread` |

| component | state | operations | interacts with | hard part | correct when |
|---|---|---|---|---|---|
| Block event queue and push thread (`blockrequestqueue.c`, `alpacaClient.c`) | ring `head`, `tail`, `CircularQueue`; stack `freelist`; `expiretime` | offer, poll, drain | event loop produces, push thread consumes; no lock | CAS races, NULL from every allocation, freeing | events leave in order, once, the oldest is dropped when full; each pool is freed once and not while used |
| Configuration distribution (`alpaca_zookeeper.c`, `ngx_alpaca_client_module.c`) | watches, pipes, `pipe_buf`, each worker's configuration | read a key, write a message, drain and parse, ping | three sender threads write to all pipes without a lock | torn and interleaved messages, blocking and failing writes, failed reads, crashes | no change is missed, no value is invented, what was lost is repaired, nobody waits for ever |
| ZooKeeper session, heartbeat (`alpaca_heartbeat.c`) | `zh` | replace an expired session; report | reads every key again | watches lost with the session; `zh` closed under another thread, or NULL for good | every key is read again |
| Health check (`alpacaClient.c`) | expiry times of three lists | ping | asks the sender to send all again | | its pings repair the configuration |
| Request filter (`alpacaClient.c`) | switches, C copy of the policy, Lua state `L` and its stack | filter a request, server commands, update | fed by the pipe, feeds the queue | an error in Lua spoils the next judgement and costs `L`, and block.lua may not load again | what was delivered is enforced |
| Policy algorithm (`block.lua`) | the lists | `block` | called by the filter | overlaps, expiry, ill-formed values | banned iff on a list |
| Shared texts (`set_string`, `commonconfig`) | pointers and the blocks behind them | set, read | written by three threads of the sender or by a worker's event loop, read by the reports | no lock between load, store and free, and freed addresses are allocated again | no pointer leads to a freed text, nothing else is freed, a copy fits what was reserved |
| Memory pool (`alpaca_memory_pool.c`) | bytes used | create, malloc, destroy | one pool per event or report | exhaustion, early returns | never hands out more than it has, is destroyed once |
| Deny and status pages | templates, texts of the switches | substitute, dump | fed by the pipe, serve the filter | numbering of placeholders, texts and numbers set apart, NULL templates, pages longer than their buffers | a page tells the truth |
| Request parsing | - | visitor id, client address | gives the filter its inputs | character work | the client is the nearest address that is not private |
| Pipes and worker slots | socket pairs, copied by each process | made at every configuration load | master, sender, workers | reload while old processes run, ignored and failing system calls | a worker reads what its sender writes, and no other |
| Helpers, stub server, deployment | - | - | - | - | - |

PROJECT.json lists the hazards at their lines.

## 2. Modules

| module | models |
|---|---|
| `BlockQueue` | one worker's ring, free list, producer and consumer; one action per shared access |
| `DropOldest` | what the queue promises: a bounded FIFO that sacrifices its oldest event |
| `BlockQueueProofs` | types and memory safety of `BlockQueue`, and that it implements `DropOldest`, proved |
| `BlockQueueConservation` | order and conservation of the events, and that none is touched once freed, proved on top of it |
| `PipeParser` | the messages on a pipe and how `ngx_pipe_handler` cuts them, as pure functions |
| `PipeParserProofs` | what the parser makes of any bytes, and of whole messages, proved |
| `ConfigDistribution` | ZooKeeper, the three sender threads, pipes and workers |
| `ConfigDistributionProofs` | all its invariants, and that no worker goes back to an older value, proved |
| `RequestFilter` | `doFilter`, `update_zk_value`, `block()` and the Lua state of one worker |
| `RequestFilterProofs` | all its invariants, proved |
| `SharedTexts` | `set_string` in several threads, and a report that reads the texts into its pool |
| `SharedTextsProofs` | all invariants of `SharedTexts`, proved |
| `Reload` | the socket pairs, the slots and the processes over reloads |
| `ReloadProofs` | all invariants of `Reload`, proved |
| `Pages` | the client's address, the server's commands, the status, deny and rate pages of one worker |
| `PagesProofs` | both its invariants, proved |
| `MCConfigDistribution`, `MCRequestFilter`, `MCSharedTexts`, `MCPages` | constants for TLC |

Definitions whose comment begins with "Mutant of" are broken variants of the one
that follows.  No specification uses them: each is a plausible bug that makes
one property fail, and so shows that the property depends on the code.

### BlockQueue

`pcP` and `pcC` name the line the producer and the consumer have reached; a
local variable that outlives a step is a variable (`freelistP`, `headC`,
`result`, `freelistC`).  An event is the number of its creation, so order is
`<`, and stands for its pool.  An allocation has two outcomes; the list nodes
live in the pool of the event they hold, so they are abstracted to the event.
The stack is a sequence, and its CAS compares whole sequences where the code
compares the top pointer.  That is the same as long as a freed node cannot come
back at its old address while a thread holds a copy of the top: the producer
alone creates events, and not inside an offer, and the push thread, which alone
pops, does not pop between its own read and CAS.  (After a lap an event is on
the list twice; that is what `lapped` is about.)  Stores are visible in program order, as on x86.  The clock is
the Boolean `expired`.

`died` ends a worker, and its queue.  The pool of a new event is used without a
test (alpacaClient.c:285-286), and so is a URL that was never delivered (82).  A
thread that touches the pool of a freed event dies, or goes on as if nothing had
been written there since: what else may have been allocated at that address is
not resolved.

The code has one race that the model shows and the properties name.  Between the
consumer's CAS of `head` (blockrequestqueue.c:45) and its read of the slot (46)
the producer may fill the ring and write that slot again: the history variable
`lapped`.  `PostedInOrder` and `Conservation` hold as long as that did not
happen.  So does `NoUseAfterFree`: the newer event is polled, posted and freed, and
then polled again from the ring, where it still is; its pool is freed memory then.
`ImplementsDropOldest`, `NoUnderflow` and `PolledIsEvent` hold in any case.  The
other way to lose memory is a NULL (`lost`, lines 21 and 48).

`DrainEnds` supposes that the producer pushes on the free list finitely often.  If
requests are blocked without end, nothing in the code obliges a drain to end: the
producer may push between each read of the top and its CAS, or refill the list.

### PipeParser and ConfigDistribution

A message is the four writes of `get_zk_value` (lines 47-57), a pipe and
`pipe_buf` are sequences of such tokens.  The parser's behaviour on a torn
message depends on lengths (it looks for `\r\n` first, which also occurs inside
the end mark, and steps by two bytes over what is shorter than the route), so a
token has a length in bytes, and `Updates` computes on bytes where the code
does.  A value longer or shorter than the route behaves differently: the runs
use 4 and 24 bytes.  A read returns whole tokens; a write is atomic up to the
token.

The sender's threads have each a list of keys to read (`todo`) and the writes of
their current message (`out`).  `GetOK` is a successful `zoo_get` with its
watch, `GetFails` a failed one, `Write` one blocking write, and `WriteFails` one
that returns -1, for a signal while it waits or for want of memory, or writes a part
of the value (`PartToken`): it is only logged, and the next write follows.  `Accept` and
`Answer` are the two ends of `ngx_proc_send_accept`; the test of the path at
line 826 holds for every path, so each ping registers all keys.  `AcceptEarly`
is its early return.  A worker is `starting` while it pings before it reads its
pipe.  The ZooKeeper server, process death, and curl closing a socket are
external.  A sender restart closes its sockets, which ends the pings.  `Close` and
`Reopen` are the two ends of the replacement of a session: in between `zh` is closed
and not NULL, and a thread that reads a key then fails, or takes the process with it
(`UseClosed`).  When `zookeeper_init` fails the session is `closed`, for good.

History variables: `seen` and `stale` for the last read of a key; `mixed`, the
workers in whose pipes messages may have been mixed up: all, when two messages were
under way at once or the sender died inside one; the one worker, when a chunk did
not fit or a write to it failed; `clean`, the workers for which nothing was lost
since a registration that began at rest.  They state exactly when the code
guarantees delivery: it has no lock around the four writes, no sequence numbers,
and does not repeat a write, so nothing is claimed about a stream once its worker is
in `mixed`.  It is claimed of the others: a failure on one pipe does no harm to them.

`Command` is the server's enable or disable: it changes a switch of the one
worker that got the request.  Until a later registration brings the value of
ZooKeeper back, the workers differ, and so `Healed` speaks of workers that were
registered since.  `Healed` also says what a registration repairs: the holes that
failed writes left are behind it, once it began with nothing under way.

### RequestFilter

`lua` is the policy in `L`, `delivered` a history variable: what was delivered last.  `junk` is an error message
left at the bottom of `L`'s stack: `set_table` does not pop it, and
`lua_tonumber(L, 1)` then reads it instead of the judgement, as 0; on 0 the
request goes on and `L` is replaced by a fresh one with empty lists
(`Reload`).  The results of `luaL_loadfile` and `lua_pcall` are not looked at: if the
file cannot be read then (`loaded`), there is no `block()`, and the error message is
the next judgement.  `block` is the chain of lookups of block.lua, each of which
answers yes, no, or raises an error (`Illtyped` values, entries that have no array
of domains, `Undated` bans, keys without a comma); where the order of `pairs()` decides, all outcomes are
possible.  `acceptHttpMethod` and `denyUserAgentContainAnd` (`Unused`) are decoded, and
leave the same error message when they do not decode, but no lookup consults them:
block.lua asks `tmp_acceptHttpMethod` for the methods.  The C side passes a blank for an absent user agent,
visitor or domain.  Case and prefix comparisons go through the constants
`Lower` and `PrefixOf`.  `hurt` is a history variable: the keys whose delivered
value `L` lacks.  The texts that the C structures keep for the status page do not
judge, and nothing is claimed of them here.

`Enforced` is the guarantee that is left by this design: a banned request is
denied once no error is pending and the values concerned were delivered since
the last one.  Before that the policy fails open, and one value that never
becomes well-formed keeps all lists from being enforced for longer than until
the next request.

### SharedTexts

One action per access to a pointer of `commonconfig`: `SetString` copies to a
new block, `TestKey`, `LoadBefore`, `Publish` and `FreeBefore` are the lines 128
to 131 of alpaca_zookeeper.c.  `Load` and the six `Use` steps are the places where a
report asks for a length or copies a text, in the order in which
`sendFirewallHeartbeatRequest` and `sendFirewallHttpRequest` have in common; the
value of a freed block is any length, or the end of the process (`Fault`).  A
pool is the number of bytes taken.  The early returns of a report, each with a
destroy of its own, are separate definitions (`NoParameters` to `NotEncoded`).

A block is an address, and `malloc` returns any at which nothing is allocated, those
that were freed before among them; when all are taken it fails, and `set_string`
changes nothing.  A pointer to freed memory may therefore come to lead to another
text, and a late `free` to hit it.

The code has no lock, and the properties say what is left.  In general a pointer
leads to memory that is allocated (`PublishedAlive`), because the new text is stored
before the old one is freed, and what is freed is that old text and no other
(`FreedOnce`).  Both fail once two threads of the sender had loaded the same old
pointer (`doubled`): both free it, and what was allocated there between the two,
perhaps the current text, is freed under those who read it.  `Accounted` fails as
soon as two threads are setting one text (`overlapped`): the text that one of them
stored may never be freed.  In a worker only the event loop writes, so nothing is
doubled or overlapped there.  But a reader may hold an old pointer in any process.
A report takes the lengths at one line and copies at another: `Fits` holds while no
text grows or is freed in between (`grew`).

### Reload

A pair is the number of the load that made it; the master keeps the array, each
process the copy it was forked with.  `Reload` is what nginx does when the new
configuration is accepted: fork the workers, then the sender, into the first
free slots, and tell all others to leave.  `LoadFails` is a configuration that
is rejected after `ngx_alpaca_client_init` ran, which has made new pairs for
processes that will never be forked.  `Die` is a death and the respawn in the
same slot.  `socketpair` may fail for any slot, up to a bound: its result is ignored,
and the slot keeps the pair it had, or none.  A sender whose `bind` fails because the
old one still listens, or that fails in another call, gives up
(`InitSenderFails`); whether the master starts it again is left open.

The array is indexed by process slot, and pairs are made for the slots below the
number of workers only.  At the first start these are the workers' slots.  At a
reload the old processes still hold them, the new workers get the slots after
them, and neither have a pair of this load nor does the sender write to their
slot: they live on `set_default`.  Only a second reload, which finds the low
slots free, feeds some again.  `WorkersFed` therefore speaks of slots below
`count` once something was `reloaded`.  After a `LoadFails`, a worker that dies is
started again with a pair that the running sender does not know (`failed`).

What the ignored failures do is stated by what the properties except.  `unmade` names
the slots and loads for which `socketpair` failed: there, and only there, a new sender
writes to the pair that the old one has (`OneWriter`), or a new worker reads the old
one's values (`OwnSender`), or nothing (`WorkersFed`).  `ended` says that a sender
could not start: then nobody feeds its workers.

### Pages

One worker between two requests (`Update...`) or answering one (`Internal` for a
command of the server, `Filter` for a request that is denied).  The judgement of
the policy is any, and every allocation may fail.  A template is a sequence of
characters in which "t" stands for ordinary text; `Substitute` is the loop of
`getResponseDenyMessage` (and of its copy for the rate page), with `Number` the
sum that calls `atoi` at every character: a placeholder `12` counts as 122.

Its author sees a template as pieces: characters (`Plain`), placeholders (`Hole`)
and a last one that may lack its brace (`Unclosed`).  `Spelling` writes them down,
and the history variable `pieces` keeps those of the rate page, against which
`PagesTell` compares the page.  `Readable` rules out pieces that would be read
differently once written down, as a `$` before a `{`; every sequence of characters
is the spelling of readable pieces.  A placeholder has at most
five characters in the model: the sum of a longer one may not fit in an `int`.

A text has a length that is kept beside it: an address in a header any
(`AddressLength`), that of a connection a short one, a delivered list or message one
of `Lengths`.  Nothing in the code compares a page with its 8192 bytes, or the status
with its megabyte.  A page that does not fit is written behind its buffer, and its
worker counts as dead: what it does from then on is not defined.

What the model shows of the code.  The built-in deny page has placeholders 0, 1,
2 and 0, of which 1 is filled with the status and 2 with the client; 0 is
dropped.  A message given by the directives `alpaca_denymessage` or
`alpaca_denyratemessage` is stored where nothing reads it, and keeps the template
NULL, so that the first denied request of that kind ends the worker.  An address in
the `X-Forwarded-For` header that is longer than the rest of the page writes behind
it, with the built-in pages too, and nine lists of up to 204800 bytes do not fit in
the status.  `DeathsExplained` names these, a command before all URLs were delivered,
and short memory, and says that there is no other reason.  The status page ends with a comma, and is no object, until
the last key, `denyNoVisitorIdURL.new`, was delivered.

## 3. Runs

| run | checks | instance |
|---|---|---|
| `queue_safety` | types, order, conservation, no use after free, refinement | 3 slots, 6 events |
| `queue_progress` | offers end, events leave, drains end unless fed for ever | 3 slots, 4 events |
| `config_delivery` | genuine values, never backwards, repair | 2 keys, 1 worker, 1 change, pings at any time |
| `config_failures` | no missed change, repair, types | 1 key, 1 change, 1 crash, expiry or failed write |
| `config_isolation` | a failure on one pipe does no harm to the other; repair of what it did | 2 workers, 1 crash, expiry or failed write |
| `config_waits` | threads of the sender get free; repair after a command | 2 workers, pipes of 2 tokens, commands on one key |
| `config_changes` | threads of the sender get free after a death or an expiry; a change is read in the end | 1 worker, 1 key, 2 changes, 1 failure |
| `filter_faulty` | enforcement and justification around errors | bad values of each kind |
| `filter_sound` | lists kept, monotone | overlapping well-formed lists |
| `shared_texts` | pointers, frees, copies, pools | 2 threads that set (one of them reports), 4 addresses |
| `reload` | who writes to whom | 6 slots, 1 or 2 workers, 3 loads, 1 failed socketpair, 1 death |
| `pages` | the pages tell the truth; why a worker dies | templates of at most 2 of 8 pieces, 3 addresses of 2 lengths, 2 forwarded, 3 updates |

Bounds.  Three slots are the smallest ring in which the consumer can hold a slot
while the producer fills the rest; six events go round it twice, so it wraps,
fills, drops and laps.  With fewer than three slots the queue is not correct,
hence `SizeAssumption`; the code has 2001.  `PipeCap`, `Chunk` and `BufCap` are
of the size of a message, so that messages are torn by a drain, block a writer
and overflow the buffer; the real ones (a socket buffer, 4096 and 1024001
bytes) give the same cases at larger sizes.  `config_delivery` has the
constraint `Unmixed`: it stops where its properties claim nothing any more.
`config_failures` goes on there, because `NoMissedChange` does not depend on it.
Its crashes are followed by a registration, for a worker that starts pings; a worker that
pings while it runs is in `config_delivery`, without failures.
`MaxChanges` and `MaxFailures` count over all keys and processes; a second change
matters to the watch (`config_changes`), a failed write to one pipe of two
(`config_isolation`).  `MaxTime = 1`
gives a ban one tick to expire.  In `shared_texts` four addresses are both
texts and what each of the two threads is about to store: with fewer `malloc` would
always fail, and with four every freed one is soon used again.  Two threads are enough
for every race of `set_string`, whose steps concern one pointer.  Addresses are
only compared, so they are a symmetry set.  In `reload` six slots
hold two generations of two workers and a sender; three loads are a start and two
reloads, of which either may fail.  In `pages` three
updates reach each answer (mount, enable and a message; mount, the URLs and a
list); of the two lengths of a list, a message and an address one fits its buffer
alone and one does not; a template of two pieces has all neighbours, and `Substitute` keeps
nothing from one piece to the next.  Runs without pings of running workers may come
to rest, so they do not check for deadlock.

Fairness.  `BlockQueue`: the push thread runs for ever, and a producer inside
`blockQueueOffer` waits for nothing.  `ConfigDistribution`: each thread of the
sender and each worker keeps running; a running worker reads, a starting one
gives up after `CURLOPT_TIMEOUT` (five seconds), the master respawns a dead
one.  No fairness is given to changes, failures, requests or pings.
`ThreadsFinish` needs the timeout: without it the sender, blocked on the pipe of
a starting worker whose ping it does not answer, never gets free.

## 4. Proofs

What is proved holds for every value of the constants that the named assumptions
of the modules allow; TLC evaluates these in every run.  They say that sizes are
numbers (`SizesAssumption` of `SharedTexts` and of `Pages`, where it also says that what
each key may take of the status fits), and besides: the ring has three slots at least (`SizeAssumption`); there
are finitely many workers and every key is registered (`CapAssumption`,
`KeyOrderAssumption`); a switch is delivered as a Boolean and a ban with a number in
the place of its expiry (`DeliveriesAssumption`); no address is both private and
public, or a character of a template (`AddressAssumption`); `NULL` differs from what a pointer leads to
(`NullAssumption`, `AddressesAssumption`); and placeholders are short (`PiecesAssumption`).

### The queue

For any `Size >= 3` and any `MaxEvents` (`BlockQueueProofs`,
`BlockQueueConservation`):

| theorem | says | invariant it needs |
|---|---|---|
| `TypeCorrect` | `Spec => []TypeOK` | |
| `NeverUnderflows` | `Spec => []NoUnderflow` | inductive with the types |
| `PollsEvents` | `Spec => []PolledIsEvent` | every slot from `head` to `tail` holds an event, and so does the one claimed |
| `RefinesDropOldest` | `Spec => ImplementsDropOldest` | the types |
| `PostsInOrder` | `Spec => []PostedInOrder` | `OrderInv` |
| `ConservesMemory` | `Spec => []Conservation` | `MemoryInv` |
| `NeverUsesFreed` | `Spec => []NoUseAfterFree` | `MemoryInv` |

The argument.  For `NoUnderflow`, the producer moves `head` only when the ring is
full, and then leaves `Size - 2 >= 1` events, which is where the assumption on
`Size` comes from.  The refinement rests on four lemmas about `Backlog`: what a step of `head` takes
from it, what a step of `tail` appends to it, and that a store outside the
occupied slots leaves it alone.  `taken` is the history variable `claimed`, what
the CAS took, because the value read after it may be another (the lap).

`OrderInv` says that the ring holds increasing numbers, all above the last one
claimed and below the one on offer (`RingOrdered`, lapped or not), and, unless
lapped, that the consumer holds the one it claimed, above all that were posted
(`HoldsClaimed`).  `MemoryInv` adds to it that nine places - ring, list, offer, out of
the ring, claimed, polled, victim, freed, lost - exclude each other for every event
(`Apart`), that a created event is in one of them and no other is, and that the
list has no event twice (`ListedOnce`).  What a thread touches is in one of the other
places, so it is not freed (`NoUseAfterFree`).  Without `OrderInv` it is not inductive: that what
the producer stores is not on the ring already follows from the order.

### The parser

For any bytes (`PipeParserProofs`): each update is a key whose separator follows at
once, with all the tokens up to the next end mark (`UpdatesAreFound`); of whole
messages the parser makes exactly their updates, in order (`WholeUpdates`).
`Length` and `Parsing` are recursive functions, each defined as a solution of its own
equation.  That there is one is shown by taking a least index where a partial
solution ends, and what it computes by a least or greatest index that does not
conform: induction, stated for sets, which the provers can instantiate.

### The distribution

For any keys, finitely many workers, and any capacities and bounds
(`ConfigDistributionProofs`):

| theorem | says | part of the invariant |
|---|---|---|
| `TypeCorrect` | `Spec => []TypeOK` | `TypeInv`: also, that a thread is some way through one message |
| `MissesNoChange` | `Spec => []NoMissedChange` | `Noticed`: a key that is not read again has its watch and its current value |
| `TakesOnlyGenuine` | `Spec => []Genuine` | `Delivery` |
| `NeverGoesBack` | `Spec => NeverBackwards` | `Delivery` |
| `RegistrationRepairs` | `Spec => []Healed` | `Healing` |

All but the first two follow from one inductive invariant, `Inv`.  It speaks of the
`Stream` of a worker: its buffer, its pipe, and the writes to it that the current
message still has.  For a worker that is not in `mixed`, and for every clean one in any
case, a stream is a sequence of messages of which only the first may lack its
beginning (`Aligned`), its versions of a key do not decrease (`Ordered`), and the worker
holds none that is newer (`Behind`).  That at most one thread is inside a message
(`OneWriter`) makes the stream well-defined.  A write and a read move a token within the
stream and leave it as it is; `GetOK` appends a message to all streams; a failed write takes its worker out of both
sets and leaves the streams of the others alone; a parse
takes the front off one, and `WholeUpdates` says what the worker then has.
`Healing` says of the clean workers that each key is still to be read, or that its
current value is in the configuration or on its way there.

### The filter

For any requests, deliveries and bounds, and any way texts compare
(`RequestFilterProofs`):

| theorem | says | invariant it needs |
|---|---|---|
| `TypeCorrect` | `Spec => []TypeOK` | |
| `KeepsPolicy` | `Spec => []Kept` | while all deliveries are well-formed nothing is ever hurt |
| `EnforcesBans` | `Spec => []Enforced` | `Agreement` |
| `JustifiesDenials` | `Spec => []Justified` | `Agreement` |
| `BansAreMonotone` | `Spec => []Monotone` | the types |

`Agreement`: a key that was not hurt has one value on both sides, and one that was
has its default in `L`, or an older value if the last delivery did not decode.  The last
three follow from it by an analysis of `block`: if a ban matches, no lookup before
it lets the request through but the accepted addresses, and what is denied is denied
at the first lookup that answers yes.

### The shared texts

For any sets of threads and addresses, any lengths and size of the pool
(`SharedTextsProofs`):

| theorem | says | invariant it needs |
|---|---|---|
| `TypeCorrect` | `Spec => []TypeOK` | `TypeInv`: both together |
| `PublishedIsAlive` | `Spec => []PublishedAlive` | `PointerInv` |
| `NeverFreedTwice` | `Spec => []FreedOnce` | `PointerInv` |
| `NothingLost` | `Spec => []Accounted` | `LostInv`: unless overlapped, the old text that a thread holds is the current one until it stores its own, and a thread that found none still finds none (`Alone`) |
| `MissingAtFirst` | `Spec => []MissingOnlyAtFirst` | `MissingInv`: what a report has found once is not missing later (`Delivered`) |
| `CopiesFit` | `Spec => []Fits` | `FitsInv`: while nothing grew or is doubled, what was measured is no less than what is there now (`Bounds`) |
| `PoolsAreDestroyed` | `Spec => []PoolDestroyed` | `TypeInv` |

Freed addresses are allocated again, so it is not enough that a pointer leads to
allocated memory: it must be nobody else's.  `PointerInv` says that, unless doubled,
four kinds of addresses are allocated and exclude each other: the texts of
`commonconfig` (`Published`), the new text of each thread (`Private`), and the old one
that it holds (`Outgoing`), which is at most the current text of its own argument.
What `malloc` returns is then none of them, and what `free` is given only its own.

### The reload

For any number of slots, loads and deaths and any set of worker counts
(`ReloadProofs`), whichever pairs cannot be made: `TypeCorrect`, `OnePairOneWriter`,
`WorkersAreFed` and `HearsItsOwn`.  The last three follow from one
inductive invariant, `PairInv`: the pairs of a configuration were made by the load
after which its processes were forked, but for those that could not be made, which
are older (`OneLoad`); a leaving process was forked after an earlier load than one
that is not, and two senders after different ones (`Ages`); unless a load failed, a
process that is not leaving has what the master has, and before the first reload the
workers have the first slots (`InStep`); there is a sender, unless it could not start
(`HasSender`).

### The pages

For any addresses, any `X-Forwarded-For` list, any templates, any lengths and sizes of
buffers and any number of updates (`PagesProofs`):

| theorem | says | invariant it needs |
|---|---|---|
| `TellsTheTruth` | `Spec => []PagesTell` | `TellInv`: the templates are spellings (`Templates`), and a switch agrees with its text unless that could not be replaced (`Agreeing`) |
| `ExplainsDeaths` | `Spec => []DeathsExplained` | `DeathInv`: the templates are spellings (`Templates`), lengths are numbers (`Sized`), and a template is missing only for lack of memory or because of the configuration file (`Missing`) |

The work is in the recursive functions, treated as those of the parser are.
`TemplateFilled`: if a template is the spelling of readable pieces, the scan of
`Substitute` reaches the start of every piece (`PlainScan`, `HolesScan`), and what it
puts together from there is the piece's part of the page and the rest.
`NumberZero`: a placeholder has the number 0 if it has no digit but 0, whatever
`atoi` reads on the way.  `ClientIs`: the address found backwards through the list is
the first public one from the server's side.  `RowInside`: each key but the last
brings a comma, so the status page is an object just when the last key is there or
none is.  `MarkedParts` counts: a page has at most one address for each placeholder of
its template, so one that is too long for its buffer has a message and addresses that
do not fit in it together (`PageIsShort`).  `StatusFits`: if each key takes no more than
its share, all do.

### Only model-checked

Liveness under fairness is beyond TLAPS: `ThreadsFinish`, `ChangeSeen`, `OfferReturns`,
`RingServed` and `DrainEnds` are checked by the runs and not proved.

## 5. Plan

1. Modelled now: sections 2 to 4.
2. Next compositions: the filter with the queue it feeds; the delivery of values
   with the Lua state that decodes them; the reload with the distribution.
3. Next theorems: of the compositions, and the refinement of the abstract
   specifications below.
4. Abstract specifications worth stating: a configuration store that each worker
   reads a genuine, non-decreasing version of; a policy that is either in force
   or open.

## 6. Not modelled

The text of requests and reports; the visitor id (`getHttpParam`), which is cut
out of a cookie or a header character by character; the token of a command, MD5,
URL encoding, logging, the local address; the stub server and the build.  What a
process does after it has written behind a buffer or to freed memory: it counts as
dead, or goes on as if nothing had been written.  The texts that the C structures of
a worker keep for the status page when `set_string` found no memory for one, beside
the lists that `L` has.  The memory that events hold on the free list until a post
succeeds is listed as a hazard without a property.
