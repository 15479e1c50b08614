----------------------------- MODULE SharedTexts -----------------------------
(***************************************************************************)
(* The URLs of commonconfig, which the threads of a process share without  *)
(* a lock: set_string replaces a text and frees the old one, while another *)
(* thread may load the same pointer, and use it.                           *)
(*                                                                         *)
(* In the sender three threads write (parsebuf): main, completion and the  *)
(* heartbeat thread, which also reads, to send its report                  *)
(* (sendFirewallHeartbeatRequest).  In a worker the event loop writes      *)
(* (update_zk_value) and the push thread reads, to post an event           *)
(* (sendFirewallHttpRequest).  Both reports use the texts in the same      *)
(* order, and take their buffers from a pool.  The pool of the heartbeat   *)
(* is its own; that of an event is in the hands of the free list, and what *)
(* becomes of it is BlockQueue's matter.                                   *)
(*                                                                         *)
(* One action per access to a shared pointer.  malloc returns any address  *)
(* at which nothing is allocated, those that were freed before among them: *)
(* a thread that still has such an address then has that of another text.  *)
(* What reads or frees memory that is free does anything, or dies.         *)
(***************************************************************************)
EXTENDS Integers, Sequences

CONSTANTS Writers,     \* the threads that call set_string
          Reader,      \* the thread that reports
          Lengths,     \* lengths of a text
          Addresses,   \* where malloc can put a text; when all are taken it fails
          NULL,        \* no address
          None,        \* held when nothing was loaded
          PoolSize,    \* bytes of a pool
          Overheads,   \* bytes that the parameters of a report take
          OutSize,     \* bytes of the encoded parameters
          IpLen        \* bytes of local_ip, with the bar and the final zero

ASSUME LengthsAssumption == Lengths # {} /\ Lengths \subseteq Nat
ASSUME AddressesAssumption == NULL \notin Addresses /\ None \notin Addresses \cup {NULL}
ASSUME SizesAssumption ==
  /\ PoolSize \in Nat /\ OutSize \in Nat /\ IpLen \in Nat
  /\ Overheads \subseteq Nat

VARIABLES
  key,        \* [Texts -> Addresses \cup {NULL}] the pointers of commonconfig
  text,       \* [Addresses -> Lengths \cup {Free}] what is allocated there
  pc,         \* [Writers -> ...] where a thread is in set_string
  arg, tmp, before,   \* [Writers -> ...] its argument key, and its locals
  step,       \* what the report does next, 0 when there is none
  held,       \* the pointer that the report loaded and has not used
  reserved,   \* bytes of reqUrl
  urlbuf,     \* bytes of urlbuf for the URL
  written,    \* bytes copied to reqUrl
  used,       \* bytes taken from the pool of the report
  pools,      \* how many pools of reports exist
  dead,       \* the process died
  overlapped, \* history: two threads were setting one text at once
  doubled,    \* history: two threads had loaded one pointer, each to free it
  misfreed,   \* history: free got an address that was free, or that was another's
  grew,       \* history: a text got longer, or was freed under the report
  overrun     \* history: the report wrote more than it had reserved

heapVars == <<key, text>>
callVars == <<pc, arg, tmp, before>>
reportVars == <<step, held, reserved, urlbuf, written, used, pools, overrun>>
histVars == <<overlapped, doubled, misfreed>>
vars == <<heapVars, callVars, reportVars, dead, histVars, grew>>

Texts == {"root", "url"}   \* serverRoot; serverBlockEventUrl or serverHeartbeatUrl
Free == -1                 \* nothing is allocated at an address
AParameters == 7           \* step while the parameters are allocated

\* The texts in the order in which a report uses them: the two lengths for
\* reqUrl, the length for urlbuf, the copy to urlbuf, the two to reqUrl.
Uses == <<"root", "url", "url", "url", "root", "url">>

live == {b \in Addresses : text[b] # Free}

\* The thread has a text of its own, that nobody else knows.
Owns(t) == pc[t] \in {"test", "load", "store", "publish"}

\* The thread has loaded the old text and will free it.
Holds(t) == pc[t] \in {"publish", "free"}

TypeOK ==
  /\ key \in [Texts -> Addresses \cup {NULL}]
  /\ text \in [Addresses -> Lengths \cup {Free}]
  /\ pc \in [Writers -> {"idle", "test", "load", "store", "publish", "free"}]
  /\ arg \in [Writers -> Texts]
  /\ tmp \in [Writers -> Addresses \cup {NULL}] /\ before \in [Writers -> Addresses \cup {NULL}]
  /\ step \in 0 .. AParameters /\ held \in Addresses \cup {NULL, None}
  /\ reserved \in Nat /\ urlbuf \in Nat /\ written \in Nat
  /\ used \in 0 .. PoolSize /\ pools \in Nat
  /\ dead \in BOOLEAN /\ grew \in BOOLEAN /\ overrun \in BOOLEAN
  /\ overlapped \in BOOLEAN /\ doubled \in BOOLEAN /\ misfreed \in BOOLEAN

\* commonconfig is zeroed.
Init ==
  /\ key = [x \in Texts |-> NULL]
  /\ text = [b \in Addresses |-> Free]
  /\ pc = [t \in Writers |-> "idle"]
  /\ arg = [t \in Writers |-> "root"]
  /\ tmp = [t \in Writers |-> NULL] /\ before = [t \in Writers |-> NULL]
  /\ step = 0 /\ held = None /\ reserved = 0 /\ urlbuf = 0 /\ written = 0
  /\ used = 0 /\ pools = 0
  /\ dead = FALSE /\ overlapped = FALSE /\ doubled = FALSE /\ misfreed = FALSE
  /\ grew = FALSE /\ overrun = FALSE

-----------------------------------------------------------------------------
(* set_string.  Without memory it returns at once and changes nothing.     *)

Goto(t, l) == pc' = [pc EXCEPT ![t] = l]

\* The call is over and its locals are gone.
Return(t) ==
  /\ Goto(t, "idle")
  /\ tmp' = [tmp EXCEPT ![t] = NULL] /\ before' = [before EXCEPT ![t] = NULL]

\* Another thread is in set_string with the same text.
Meets(t, x) == \E u \in Writers \ {t} : pc[u] # "idle" /\ arg[u] = x

\* The new text is copied to memory of its own.
SetString(t) ==
  /\ ~dead /\ pc[t] = "idle"
  /\ t = Reader => step = 0
  /\ \E x \in Texts, n \in Lengths, b \in Addresses \ live :
       /\ arg' = [arg EXCEPT ![t] = x]
       /\ text' = [text EXCEPT ![b] = n]
       /\ tmp' = [tmp EXCEPT ![t] = b]
       /\ overlapped' = (overlapped \/ Meets(t, x))
  /\ Goto(t, "test")
  /\ UNCHANGED <<key, before, reportVars, dead, doubled, misfreed, grew>>

\* if(*key)
TestKey(t) ==
  /\ ~dead /\ pc[t] = "test"
  /\ Goto(t, IF key[arg[t]] = NULL THEN "store" ELSE "load")
  /\ UNCHANGED <<heapVars, arg, tmp, before, reportVars, dead, histVars, grew>>

\* Mutant of LoadBefore: the old text is freed before the new one is stored.
LoadBeforeFree(t) ==
  /\ ~dead /\ pc[t] = "load"
  /\ text' = [text EXCEPT ![key[arg[t]]] = Free]
  /\ Goto(t, "store")
  /\ UNCHANGED <<key, arg, tmp, before, reportVars, dead, histVars, grew>>

\* Mutant of LoadBefore: the old text is taken out of commonconfig.
LoadBeforeTake(t) ==
  /\ ~dead /\ pc[t] = "load"
  /\ before' = [before EXCEPT ![t] = key[arg[t]]]
  /\ key' = [key EXCEPT ![arg[t]] = NULL]
  /\ Goto(t, "publish")
  /\ UNCHANGED <<text, arg, tmp, reportVars, dead, histVars, grew>>

\* before = *key
LoadBefore(t) ==
  /\ ~dead /\ pc[t] = "load"
  /\ before' = [before EXCEPT ![t] = key[arg[t]]]
  /\ doubled' = (doubled \/ \E u \in Writers \ {t} : Holds(u) /\ before[u] = key[arg[t]])
  /\ Goto(t, "publish")
  /\ UNCHANGED <<heapVars, arg, tmp, reportVars, dead, overlapped, misfreed, grew>>

\* *key = tmp
Publish(t) ==
  /\ ~dead /\ pc[t] \in {"store", "publish"}
  /\ key' = [key EXCEPT ![arg[t]] = tmp[t]]
  /\ grew' = (grew \/ (key[arg[t]] # NULL /\ text[tmp[t]] > text[key[arg[t]]]))
  /\ IF pc[t] = "store" THEN Return(t) ELSE Goto(t, "free") /\ UNCHANGED <<tmp, before>>
  /\ UNCHANGED <<text, arg, reportVars, dead, histVars>>

\* Somebody has this address for a text that is not to be freed now.
InUse(b) ==
  (\E x \in Texts : key[x] = b) \/ (\E t \in Writers : Owns(t) /\ tmp[t] = b)

\* free(b): whatever is allocated at that address now.
FreeAt(b) ==
  /\ text' = [text EXCEPT ![b] = Free]
  /\ misfreed' = (misfreed \/ b \notin live \/ InUse(b))
  /\ grew' = (grew \/ b = held)
  /\ dead' \in IF b \in live THEN {FALSE} ELSE BOOLEAN

\* Mutant of FreeBefore: it does not free.
FreeNothing(t) ==
  /\ ~dead /\ pc[t] = "free"
  /\ Return(t)
  /\ UNCHANGED <<heapVars, arg, reportVars, dead, histVars, grew>>

\* Mutant of FreeBefore: it frees what key points to by now.
FreeCurrent(t) ==
  /\ ~dead /\ pc[t] = "free" /\ key[arg[t]] # NULL
  /\ FreeAt(key[arg[t]])
  /\ Return(t)
  /\ UNCHANGED <<key, arg, reportVars, overlapped, doubled>>

\* free(before)
FreeBefore(t) ==
  /\ ~dead /\ pc[t] = "free"
  /\ FreeAt(before[t])
  /\ Return(t)
  /\ UNCHANGED <<key, arg, reportVars, overlapped, doubled>>

-----------------------------------------------------------------------------
(* A report.                                                               *)

\* Mutant of Room: the bytes that were handed out are not counted.
RoomOfEmpty(n) == n <= PoolSize

\* alpaca_memory_pool_malloc finds n bytes left.
Room(n) == n <= PoolSize - used

\* The report is over and its pool destroyed.
Release ==
  /\ step' = 0 /\ pools' = pools - 1
  /\ used' = 0 /\ reserved' = 0 /\ urlbuf' = 0 /\ written' = 0

\* Mutant of NoOut: the early return forgets the pool.
NoOutForgets ==
  /\ step' = 0 /\ UNCHANGED pools
  /\ used' = 0 /\ reserved' = 0 /\ urlbuf' = 0 /\ written' = 0

\* The early returns: no room for the parameters, for reqUrl, for out, for urlbuf;
\* the parameters cannot be encoded.  Each has a destroy of its own.
NoParameters == Release
NoReqUrl == Release
NoOut == Release
NoUrlbuf == Release
NotEncoded == Release

\* A report begins: it has a pool, or does nothing.
Begin ==
  /\ ~dead /\ step = 0
  /\ Reader \in Writers => pc[Reader] = "idle"
  /\ pools' = pools + 1 /\ step' = AParameters /\ grew' = FALSE /\ overrun' = FALSE
  /\ UNCHANGED <<heapVars, callVars, held, reserved, urlbuf, written, used,
                 dead, histVars>>

\* The parameters are allocated; the first that finds no room ends the report.
Parameters ==
  /\ ~dead /\ step = AParameters
  /\ \E n \in Overheads :
       IF Room(n) THEN /\ used' = n /\ step' = 1
                       /\ UNCHANGED <<reserved, urlbuf, written, pools>>
                  ELSE NoParameters
  /\ UNCHANGED <<heapVars, callVars, held, overrun, dead, histVars, grew>>

\* The pointer to the text of this step is loaded.
Load ==
  /\ ~dead /\ step \in DOMAIN Uses /\ held = None
  /\ held' = key[Uses[step]]
  /\ UNCHANGED <<heapVars, callVars, step, reserved, urlbuf, written, used, pools,
                 overrun, dead, histVars, grew>>

\* The text loaded for step s is used and is n bytes long.
Use(s, n) ==
  /\ ~dead /\ step = s /\ held \in Addresses
  /\ IF held \in live THEN n = text[held] ELSE n \in Lengths
  /\ grew' = (grew \/ held \notin live)
  /\ held' = None
  /\ UNCHANGED <<heapVars, callVars, dead, histVars>>

SizeRoot(n) ==
  /\ Use(1, n)
  /\ reserved' = n /\ step' = 2
  /\ UNCHANGED <<urlbuf, written, used, pools, overrun>>

\* Mutant of SizeURL: strlen of the root is taken for the sum.
SizeURLForgotten(n) ==
  /\ Use(2, n)
  /\ LET size == reserved + 1
     IN  \/ ~Room(size + OutSize) /\ NoReqUrl
         \/ /\ Room(size + OutSize)
            /\ used' = used + size + OutSize /\ step' = 3
            /\ UNCHANGED <<reserved, urlbuf, written, pools>>
  /\ UNCHANGED overrun

\* reqUrl gets the sum of both lengths, and out is allocated.
SizeURL(n) ==
  /\ Use(2, n)
  /\ LET size == reserved + n + 1
     IN  \/ ~Room(size) /\ NoReqUrl
         \/ Room(size) /\ ~Room(size + OutSize) /\ NoOut
         \/ /\ Room(size + OutSize)
            /\ used' = used + size + OutSize /\ reserved' = reserved + n /\ step' = 3
            /\ UNCHANGED <<urlbuf, written, pools>>
  /\ UNCHANGED overrun

\* urlbuf, for the token.
SizeToken(n) ==
  /\ Use(3, n)
  /\ \/ ~Room(n + IpLen) /\ NoUrlbuf
     \/ /\ Room(n + IpLen)
        /\ used' = used + n + IpLen /\ urlbuf' = n /\ step' = 4
        /\ UNCHANGED <<reserved, written, pools>>
  /\ UNCHANGED overrun

\* The token is made and the parameters are encoded, which may fail.
CopyToken(n) ==
  /\ Use(4, n)
  /\ overrun' = (overrun \/ n > urlbuf)
  /\ \/ step' = 5 /\ UNCHANGED <<reserved, urlbuf, written, used, pools>>
     \/ NotEncoded

CopyRoot(n) ==
  /\ Use(5, n)
  /\ written' = n /\ step' = 6
  /\ overrun' = (overrun \/ n > reserved)
  /\ UNCHANGED <<reserved, urlbuf, used, pools>>

\* The URL is complete, and the report is posted.
CopyURL(n) ==
  /\ Use(6, n)
  /\ overrun' = (overrun \/ written + n > reserved)
  /\ Release

\* The text was never delivered, or its memory is free.
Fault ==
  /\ ~dead /\ held \in Addresses \cup {NULL} /\ held \notin live
  /\ dead' = TRUE
  /\ UNCHANGED <<heapVars, callVars, reportVars, histVars, grew>>

\* The master starts the process again.
Restart ==
  /\ dead
  /\ key' = [x \in Texts |-> NULL]
  /\ text' = [b \in Addresses |-> Free]
  /\ pc' = [t \in Writers |-> "idle"] /\ arg' = [t \in Writers |-> "root"]
  /\ tmp' = [t \in Writers |-> NULL] /\ before' = [t \in Writers |-> NULL]
  /\ step' = 0 /\ held' = None /\ reserved' = 0 /\ urlbuf' = 0 /\ written' = 0
  /\ used' = 0 /\ pools' = 0
  /\ dead' = FALSE /\ overlapped' = FALSE /\ doubled' = FALSE /\ misfreed' = FALSE
  /\ grew' = FALSE /\ overrun' = FALSE

-----------------------------------------------------------------------------
set_string(t) == SetString(t) \/ TestKey(t) \/ LoadBefore(t) \/ Publish(t) \/ FreeBefore(t)

Report ==
  \/ Begin \/ Parameters \/ Load \/ Fault
  \/ \E n \in Lengths : SizeRoot(n) \/ SizeURL(n) \/ SizeToken(n)
                      \/ CopyToken(n) \/ CopyRoot(n) \/ CopyURL(n)

Next == (\E t \in Writers : set_string(t)) \/ Report \/ Restart

Spec == Init /\ [][Next]_vars

-----------------------------------------------------------------------------
(* Properties.                                                             *)

\* commonconfig never points to freed memory, however its addresses are used again
\* and however many threads set texts: unless two threads had loaded the same
\* pointer, each to free it (line 129), as those of the sender may.
PublishedAlive == ~doubled => \A x \in Texts : key[x] # NULL => key[x] \in live

\* What set_string frees is the old text: it was not freed before, and its memory is
\* not that of a text that is current or on its way.  Unless two threads had loaded
\* the same pointer: then the second free hits what has been allocated there since.
FreedOnce == misfreed => doubled

\* No text is lost: what is allocated is the current text, or about to be, or about
\* to be freed.  Unless two threads were setting one text at once.
Accounted ==
  ~overlapped => \A b \in live :
    \/ \E x \in Texts : key[x] = b
    \/ \E t \in Writers : (Owns(t) /\ tmp[t] = b) \/ (pc[t] = "free" /\ before[t] = b)

\* A report may find that a text was never delivered only where it first asks for
\* its length: a text that was there is replaced, never taken away.
MissingOnlyAtFirst == held = NULL => step \in {1, 2}

\* The lengths are taken at one line and the texts copied at another (alpacaClient.c
\* 82 and 91, 95 and 103): what is copied fits, unless meanwhile a longer text was
\* published, or the one that was to be copied was freed, or two threads had loaded
\* the same pointer.
Fits == overrun => grew \/ doubled

\* Each way out of a report destroys its pool, once.
PoolDestroyed == ~dead => pools = (IF step = 0 THEN 0 ELSE 1)
=============================================================================
