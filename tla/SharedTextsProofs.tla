-------------------------- MODULE SharedTextsProofs --------------------------
(***************************************************************************)
(* Theorems about SharedTexts, for any set of writers, whether the reader  *)
(* is one of them or not, and any sizes.                                   *)
(***************************************************************************)
EXTENDS SharedTexts, TLAPS

\* What the steps of a report leave alone.
pointerVars == <<heapVars, callVars, histVars>>

\* A report reads the texts, and never sets or frees one.
LEMMA ReportReads == Report => UNCHANGED pointerVars
BY DEF Report, pointerVars, Begin, Parameters, Load, Fault, SizeRoot, SizeURL, SizeToken,
       CopyToken, CopyRoot, CopyURL, Use

-----------------------------------------------------------------------------
(* Types.                                                                  *)

\* The pools are counted with the types: one that is destroyed exists.
TypeInv == TypeOK /\ PoolDestroyed

\* The part of it that the steps of a report can disturb, without the Booleans.
ReportTypes ==
  /\ step \in 0 .. AParameters /\ held \in Addresses \cup {NULL, None}
  /\ reserved \in Nat /\ urlbuf \in Nat /\ written \in Nat
  /\ used \in 0 .. PoolSize /\ pools \in Nat
  /\ PoolDestroyed

\* The Booleans.
Flags ==
  /\ dead \in BOOLEAN /\ grew \in BOOLEAN /\ overrun \in BOOLEAN
  /\ overlapped \in BOOLEAN /\ doubled \in BOOLEAN /\ misfreed \in BOOLEAN

\* The part of it that set_string can disturb.
PointerTypes ==
  /\ key \in [Texts -> Addresses \cup {NULL}]
  /\ text \in [Addresses -> Lengths \cup {Free}]
  /\ pc \in [Writers -> {"idle", "test", "load", "store", "publish", "free"}]
  /\ arg \in [Writers -> Texts]
  /\ tmp \in [Writers -> Addresses \cup {NULL}] /\ before \in [Writers -> Addresses \cup {NULL}]

LEMMA TypeParts == TypeInv <=> Flags /\ ReportTypes /\ PointerTypes
BY DEF TypeInv, TypeOK, Flags, ReportTypes, PointerTypes

LEMMA TypePartsNext == TypeInv' <=> Flags' /\ ReportTypes' /\ PointerTypes'
BY TypeParts, PTL

LEMMA TypeInit == Init => TypeInv
<1> SUFFICES ASSUME Init PROVE TypeInv
  OBVIOUS
<1>1. Flags
  BY Zenon DEF Init, Flags
<1>2. ReportTypes
  BY SizesAssumption DEF Init, ReportTypes, PoolDestroyed, AParameters
<1>3. PointerTypes
  BY Zenon DEF Init, PointerTypes, Texts
<1> QED
  BY <1>1, <1>2, <1>3, TypeParts

LEMMA TypeInitNext == Init' => TypeInv'
BY TypeInit, PTL

LEMMA TypeStep == TypeInv /\ [Next]_vars => TypeInv'
<1> SUFFICES ASSUME TypeInv, [Next]_vars PROVE TypeInv'
  OBVIOUS
<1>t. Flags /\ ReportTypes /\ PointerTypes
  BY TypeParts
<1> USE SizesAssumption, LengthsAssumption
<1>1. ASSUME NEW t \in Writers, set_string(t) PROVE TypeInv'
  <2>1. PointerTypes'
    <3> USE <1>t DEF PointerTypes, Goto, Return, heapVars, Texts
    <3>1. CASE SetString(t)
      BY <3>1 DEF SetString
    <3>2. CASE TestKey(t)
      BY <3>2 DEF TestKey
    <3>3. CASE LoadBefore(t)
      BY <3>3 DEF LoadBefore
    <3>4. CASE Publish(t)
      BY <3>4 DEF Publish
    <3>5. CASE FreeBefore(t)
      BY <3>5 DEF FreeBefore, FreeAt
    <3> QED
      BY <1>1, <3>1, <3>2, <3>3, <3>4, <3>5 DEF set_string
  <2>2. Flags'
    BY <1>1, <1>t, Zenon DEF Flags, set_string, SetString, TestKey, LoadBefore, Publish,
       FreeBefore, FreeAt, reportVars, histVars
  <2>3. ReportTypes'
    <3>1. UNCHANGED reportVars /\ (dead' # dead => dead')
      BY <1>1, <1>t DEF Flags, set_string, SetString, TestKey, LoadBefore, Publish,
         FreeBefore, FreeAt
    <3> QED
      BY <1>t, <3>1, <2>2 DEF ReportTypes, reportVars, PoolDestroyed, Flags
  <2> QED
    BY <2>1, <2>2, <2>3, TypePartsNext
<1>2. CASE Report
  <2>1. PointerTypes'
    BY <1>2, <1>t, ReportReads DEF pointerVars, PointerTypes, heapVars, callVars
  <2>2. Flags'
    BY <1>2, <1>t, Zenon DEF Flags, Report, Begin, Parameters, Load, Fault, SizeRoot, SizeURL,
       SizeToken, CopyToken, CopyRoot, CopyURL, Use, reportVars, histVars
  <2>3. ReportTypes'
    <3> USE <1>t DEF ReportTypes, PointerTypes, PoolDestroyed, AParameters
    <3> USE DEF reportVars, Uses, Room, Release, NoParameters, NoReqUrl, NoOut, NoUrlbuf,
            NotEncoded, Texts
    <3>1. CASE Begin
      BY <3>1 DEF Begin
    <3>2. CASE Parameters
      BY <3>2 DEF Parameters
    <3>3. CASE Load
      BY <3>3 DEF Load
    <3>4. CASE Fault
      BY <3>4 DEF Fault
    <3>5. ASSUME NEW n \in Lengths, SizeRoot(n) PROVE ReportTypes'
      BY <3>5 DEF SizeRoot, Use
    <3>6. ASSUME NEW n \in Lengths, SizeURL(n) PROVE ReportTypes'
      BY <3>6 DEF SizeURL, Use
    <3>7. ASSUME NEW n \in Lengths, SizeToken(n) PROVE ReportTypes'
      BY <3>7 DEF SizeToken, Use
    <3>8. ASSUME NEW n \in Lengths, CopyToken(n) PROVE ReportTypes'
      BY <3>8 DEF CopyToken, Use
    <3>9. ASSUME NEW n \in Lengths, CopyRoot(n) PROVE ReportTypes'
      BY <3>9 DEF CopyRoot, Use
    <3>10. ASSUME NEW n \in Lengths, CopyURL(n) PROVE ReportTypes'
      BY <3>10 DEF CopyURL, Use
    <3> QED
      BY <1>2, <3>1, <3>2, <3>3, <3>4, <3>5, <3>6, <3>7, <3>8, <3>9, <3>10 DEF Report
  <2> QED
    BY <2>1, <2>2, <2>3, TypePartsNext
<1>3. CASE Restart
  <2>1. Init'
    BY <1>3, Zenon DEF Restart, Init
  <2> QED
    BY <2>1, TypeInitNext
<1>4. CASE UNCHANGED vars
  <2>1. Flags' /\ ReportTypes' /\ PointerTypes'
    BY <1>4, <1>t DEF vars, heapVars, callVars, reportVars, histVars, Flags, ReportTypes,
       PointerTypes, PoolDestroyed
  <2> QED
    BY <2>1, TypePartsNext
<1> QED
  BY <1>1, <1>2, <1>3, <1>4 DEF Next

LEMMA TypesHold == Spec => []TypeInv
BY TypeInit, TypeStep, PTL DEF Spec

\* Every variable keeps its type; in particular no pool hands out more than it has.
THEOREM TypeCorrect == Spec => []TypeOK
<1>1. TypeInv => TypeOK
  BY DEF TypeInv
<1> QED
  BY <1>1, TypesHold, PTL

\* Each way out of a report destroys its pool, once.
THEOREM PoolsAreDestroyed == Spec => []PoolDestroyed
<1>1. TypeInv => PoolDestroyed
  BY DEF TypeInv
<1> QED
  BY <1>1, TypesHold, PTL

-----------------------------------------------------------------------------
(* Pointers.                                                               *)

\* Something is allocated at an address, or nothing is; malloc and free change that.
LEMMA LengthOfLive ==
  ASSUME PointerTypes
  PROVE  /\ live \subseteq Addresses
         /\ \A b \in live : text[b] \in Nat
BY LengthsAssumption DEF PointerTypes, live, Free

LEMMA MallocMakesLive ==
  ASSUME PointerTypes, NEW b \in Addresses, NEW n \in Lengths,
         text' = [text EXCEPT ![b] = n]
  PROVE  live' = live \cup {b}
BY LengthsAssumption DEF PointerTypes, live, Free

LEMMA FreeMakesFree ==
  ASSUME PointerTypes, NEW b, text' = [text EXCEPT ![b] = Free]
  PROVE  live' = live \ {b}
BY DEF PointerTypes, live

\* A thread that found a text there finds one again, and has one of its own.
Found ==
  \A t \in Writers :
    /\ pc[t] = "load" => key[arg[t]] # NULL
    /\ Owns(t) => tmp[t] # NULL

\* The texts of commonconfig are allocated, and are different.
Published ==
  /\ \A x \in Texts : key[x] # NULL => key[x] \in live
  /\ \A x, y \in Texts : key[x] = key[y] /\ key[x] # NULL => x = y

\* The new text of a thread is allocated, and is no other text.
Private ==
  \A t \in Writers : Owns(t) =>
    /\ tmp[t] \in live
    /\ \A x \in Texts : tmp[t] # key[x]
    /\ \A u \in Writers : Holds(u) => tmp[t] # before[u]
    /\ \A u \in Writers \ {t} : Owns(u) => tmp[t] # tmp[u]

\* The old text of a thread is allocated and nobody else's; it is at most the current
\* one of its argument, until the thread stores its own; then it is none.
Outgoing ==
  \A t \in Writers :
    /\ Holds(t) => before[t] \in live
    /\ Holds(t) => \A u \in Writers \ {t} : Holds(u) => before[t] # before[u]
    /\ pc[t] = "publish" => \A x \in Texts : x # arg[t] => before[t] # key[x]
    /\ pc[t] = "free" => \A x \in Texts : before[t] # key[x]

Sound == Published /\ Private /\ Outgoing /\ ~misfreed

PointerInv == Found /\ (doubled \/ Sound)

LEMMA PointerInit == Init => PointerInv
<1> SUFFICES ASSUME Init PROVE PointerInv
  OBVIOUS
<1>1. Found /\ Published /\ Private /\ Outgoing
  BY DEF Init, Found, Published, Private, Outgoing, Owns, Holds
<1>2. ~misfreed
  BY DEF Init
<1> QED
  BY <1>1, <1>2 DEF PointerInv, Sound

\* No step but that of the master takes a text away.
LEMMA NeverTaken ==
  ASSUME PointerTypes, Found, NEW t \in Writers, set_string(t), NEW x \in Texts, key[x] # NULL
  PROVE  key'[x] # NULL
<1>1. CASE Publish(t)
  <2>1. key' = [key EXCEPT ![arg[t]] = tmp[t]] /\ tmp[t] # NULL
    BY <1>1 DEF Publish, Found, Owns
  <2> QED
    BY <2>1 DEF PointerTypes
<1>2. CASE ~Publish(t)
  BY <1>2 DEF set_string, SetString, TestKey, LoadBefore, FreeBefore, heapVars
<1> QED
  BY <1>1, <1>2

LEMMA FoundStep ==
  ASSUME PointerTypes, Found, NEW t \in Writers, set_string(t)
  PROVE  Found'
<1> USE AddressesAssumption DEF PointerTypes, Found, Owns, Goto, Return
<1>1. CASE SetString(t)
  <2>1. /\ pc' = [pc EXCEPT ![t] = "test"] /\ tmp' = [tmp EXCEPT ![t] = tmp'[t]]
        /\ tmp'[t] \in Addresses /\ \A u \in Writers \ {t} : arg'[u] = arg[u]
        /\ key' = key
    BY <1>1 DEF SetString
  <2> QED
    BY <2>1
<1>2. CASE TestKey(t)
  BY <1>2 DEF TestKey, heapVars
<1>3. CASE LoadBefore(t)
  BY <1>3 DEF LoadBefore, heapVars
<1>4. CASE Publish(t)
  <2>1. \A x \in Texts : key[x] # NULL => key'[x] # NULL
    BY NeverTaken
  <2> QED
    BY <1>4, <2>1 DEF Publish
<1>5. CASE FreeBefore(t)
  BY <1>5 DEF FreeBefore
<1> QED
  BY <1>1, <1>2, <1>3, <1>4, <1>5 DEF set_string

LEMMA SoundStep ==
  ASSUME PointerTypes, Found, Sound, NEW t \in Writers, set_string(t), ~doubled'
  PROVE  Sound'
<1> USE AddressesAssumption DEF PointerTypes, Goto, Owns, Holds
<1>l. live \subseteq Addresses
  BY DEF live
<1>1. CASE SetString(t)
  <2>1. PICK x \in Texts, n \in Lengths, b \in Addresses \ live :
          /\ arg' = [arg EXCEPT ![t] = x]
          /\ text' = [text EXCEPT ![b] = n]
          /\ tmp' = [tmp EXCEPT ![t] = b]
    BY <1>1 DEF SetString
  <2>2. /\ live' = live \cup {b} /\ pc' = [pc EXCEPT ![t] = "test"]
        /\ UNCHANGED <<key, before, misfreed>>
    BY <1>1, <2>1, MallocMakesLive DEF SetString
  <2>3. Published' /\ Outgoing'
    BY <2>1, <2>2 DEF Sound, Published, Outgoing
  <2>4. Private'
    BY <1>l, <2>1, <2>2 DEF Sound, Published, Private, Outgoing
  <2> QED
    BY <2>2, <2>3, <2>4 DEF Sound
<1>2. CASE TestKey(t)
  <2>1. /\ pc' = [pc EXCEPT ![t] = IF key[arg[t]] = NULL THEN "store" ELSE "load"]
        /\ pc[t] = "test" /\ UNCHANGED <<key, text, arg, tmp, before, misfreed>>
    BY <1>2 DEF TestKey, heapVars, histVars
  <2>2. live' = live
    BY <2>1 DEF live
  <2> QED
    BY <2>1, <2>2 DEF Sound, Published, Private, Outgoing
<1>3. CASE LoadBefore(t)
  <2>1. /\ pc[t] = "load" /\ pc' = [pc EXCEPT ![t] = "publish"]
        /\ before' = [before EXCEPT ![t] = key[arg[t]]]
        /\ UNCHANGED <<key, text, arg, tmp, misfreed>> /\ arg[t] \in Texts
        /\ \A u \in Writers \ {t} : Holds(u) => before[u] # key[arg[t]]
        /\ key[arg[t]] # NULL
    BY <1>3 DEF LoadBefore, heapVars, Found
  <2>2. live' = live
    BY <2>1 DEF live
  <2>3. Published' /\ Private'
    BY <2>1, <2>2 DEF Sound, Published, Private
  <2>4. Outgoing'
    BY <2>1, <2>2 DEF Sound, Published, Outgoing
  <2> QED
    BY <2>1, <2>3, <2>4 DEF Sound
<1>4. CASE Publish(t)
  <2>1. /\ pc[t] \in {"store", "publish"}
        /\ pc' = [pc EXCEPT ![t] = IF pc[t] = "store" THEN "idle" ELSE "free"]
        /\ key' = [key EXCEPT ![arg[t]] = tmp[t]]
        /\ \A u \in Writers \ {t} : tmp'[u] = tmp[u] /\ before'[u] = before[u]
        /\ pc[t] = "publish" => before' = before
        /\ UNCHANGED <<text, arg, misfreed>> /\ arg[t] \in Texts
    BY <1>4 DEF Publish, histVars, Return
  <2>2. live' = live
    BY <2>1 DEF live
  <2>3. Published'
    BY <2>1, <2>2 DEF Sound, Published, Private
  <2>4. Private'
    BY <2>1, <2>2 DEF Sound, Private
  <2>5. Outgoing'
    BY <2>1, <2>2 DEF Sound, Outgoing, Private
  <2> QED
    BY <2>1, <2>3, <2>4, <2>5 DEF Sound
<1>5. CASE FreeBefore(t)
  <2>1. /\ pc[t] = "free" /\ pc' = [pc EXCEPT ![t] = "idle"]
        /\ text' = [text EXCEPT ![before[t]] = Free]
        /\ \A u \in Writers \ {t} : tmp'[u] = tmp[u] /\ before'[u] = before[u]
        /\ UNCHANGED <<key, arg>>
        /\ misfreed' = (misfreed \/ before[t] \notin live \/ InUse(before[t]))
    BY <1>5 DEF FreeBefore, FreeAt, Return
  <2>2. live' = live \ {before[t]}
    BY <2>1, FreeMakesFree
  <2>3. Published' /\ Private'
    BY <2>1, <2>2 DEF Sound, Published, Private, Outgoing
  <2>4. Outgoing'
    BY <2>1, <2>2 DEF Sound, Outgoing
  <2>5. before[t] \in live /\ ~InUse(before[t])
    BY <2>1 DEF Sound, InUse, Private, Outgoing
  <2>6. ~misfreed'
    BY <2>1, <2>5 DEF Sound
  <2> QED
    BY <2>3, <2>4, <2>6 DEF Sound
<1> QED
  BY <1>1, <1>2, <1>3, <1>4, <1>5 DEF set_string

LEMMA PointerInitNext == Init' => PointerInv'
BY PointerInit, PTL

LEMMA PointerStep == TypeInv /\ PointerInv /\ [Next]_vars => PointerInv'
<1> SUFFICES ASSUME TypeInv, PointerInv, [Next]_vars PROVE PointerInv'
  OBVIOUS
<1>t. PointerTypes /\ Flags
  BY TypeParts
<1>1. ASSUME NEW t \in Writers, set_string(t) PROVE PointerInv'
  <2>1. Found'
    BY <1>1, <1>t, FoundStep DEF PointerInv
  <2>2. doubled => doubled'
    BY <1>1, <1>t DEF set_string, SetString, TestKey, LoadBefore, Publish, FreeBefore, histVars,
       Flags
  <2>3. ~doubled' => Sound'
    BY <1>1, <1>t, <2>2, SoundStep DEF PointerInv
  <2> QED
    BY <2>1, <2>3 DEF PointerInv
<1>2. CASE UNCHANGED pointerVars
  <2>1. live' = live
    BY <1>2 DEF pointerVars, heapVars, live
  <2> QED
    BY <1>2, <2>1 DEF pointerVars, heapVars, callVars, histVars, PointerInv, Sound, Found,
       Published, Private, Outgoing, Owns, Holds
<1>3. CASE Restart
  <2>1. Init'
    BY <1>3, Zenon DEF Restart, Init
  <2> QED
    BY <2>1, PointerInitNext
<1> QED
  BY <1>1, <1>2, <1>3, ReportReads DEF Next, vars, pointerVars

LEMMA PointersHold == Spec => [](TypeInv /\ PointerInv)
<1>1. TypeInv /\ PointerInv /\ [Next]_vars => TypeInv' /\ PointerInv'
  BY TypeStep, PointerStep
<1> QED
  BY <1>1, TypeInit, PointerInit, PTL DEF Spec

\* commonconfig never points to a freed text, though malloc uses addresses again, and
\* however many threads set texts, unless two of them had loaded the same pointer.
THEOREM PublishedIsAlive == Spec => []PublishedAlive
<1>1. PointerInv => PublishedAlive
  BY DEF PointerInv, Sound, Published, PublishedAlive
<1> QED
  BY <1>1, PointersHold, PTL

\* set_string frees the old text only, and once, unless two threads had loaded the same
\* pointer: in a worker, whose event loop alone sets texts, always.
THEOREM NeverFreedTwice == Spec => []FreedOnce
<1>1. PointerInv => FreedOnce
  BY DEF PointerInv, Sound, FreedOnce
<1> QED
  BY <1>1, PointersHold, PTL

-----------------------------------------------------------------------------
(* Missing texts.                                                          *)

\* What a report has found once is not missing later.
Delivered ==
  /\ held # None => step \in DOMAIN Uses
  /\ held \in Addresses => key[Uses[step]] # NULL
  /\ step \in {2, 3, 4, 5, 6} => key["root"] # NULL
  /\ step \in {3, 4, 5, 6} => key["url"] # NULL

MissingInv == Delivered /\ MissingOnlyAtFirst

LEMMA MissingInit == Init => MissingInv
BY AddressesAssumption DEF Init, MissingInv, Delivered, MissingOnlyAtFirst

LEMMA MissingStep == TypeInv /\ PointerInv /\ MissingInv /\ [Next]_vars => MissingInv'
<1> SUFFICES ASSUME TypeInv, PointerInv, MissingInv, [Next]_vars PROVE MissingInv'
  OBVIOUS
<1> USE AddressesAssumption DEF MissingInv, Delivered, MissingOnlyAtFirst
<1>u. /\ DOMAIN Uses = 1 .. 6 /\ \A s \in 1 .. 6 : Uses[s] \in Texts
      /\ Uses[1] = "root" /\ Uses[2] = "url" /\ Uses[3] = "url"
      /\ Uses[4] = "url" /\ Uses[5] = "root" /\ Uses[6] = "url"
      /\ "root" \in Texts /\ "url" \in Texts
  BY DEF Uses, Texts
<1>1. ASSUME NEW t \in Writers, set_string(t) PROVE MissingInv'
  <2>1. UNCHANGED <<step, held>>
    BY <1>1 DEF set_string, SetString, TestKey, LoadBefore, Publish, FreeBefore, reportVars
  <2>2. \A x \in Texts : key[x] # NULL => key'[x] # NULL
    BY <1>1, TypeParts, NeverTaken DEF PointerInv
  <2> QED
    BY <2>1, <2>2, <1>u
<1>2. CASE Report
  <2>1. key' = key
    BY <1>2, ReportReads DEF pointerVars, heapVars
  <2>2. CASE Begin
    BY <2>1, <2>2, <1>u DEF Begin, AParameters
  <2>3. CASE Parameters
    BY <2>1, <2>3, <1>u DEF Parameters, NoParameters, Release, AParameters
  <2>4. CASE Load
    BY <2>1, <2>4, <1>u, TypeParts DEF Load, PointerTypes
  <2>5. CASE Fault
    BY <2>1, <2>5 DEF Fault, reportVars
  <2>6. ASSUME NEW n \in Lengths, NEW s \in 1 .. 6, Use(s, n), step' \in {0, s + 1}, s # 6 \/ step' = 0
        PROVE  MissingInv'
    BY <2>1, <2>6, <1>u DEF Use
  <2>7. ASSUME NEW n \in Lengths, SizeRoot(n) \/ SizeURL(n) \/ SizeToken(n) PROVE MissingInv'
    BY <2>6, <2>7 DEF SizeRoot, SizeURL, SizeToken, NoReqUrl, NoOut, NoUrlbuf, Release
  <2>8. ASSUME NEW n \in Lengths, CopyToken(n) \/ CopyRoot(n) \/ CopyURL(n) PROVE MissingInv'
    BY <2>6, <2>8 DEF CopyToken, CopyRoot, CopyURL, NotEncoded, Release
  <2> QED
    BY <1>2, <2>2, <2>3, <2>4, <2>5, <2>7, <2>8 DEF Report
<1>3. CASE Restart
  BY <1>3 DEF Restart
<1>4. CASE UNCHANGED vars
  BY <1>4 DEF vars, heapVars, reportVars
<1> QED
  BY <1>1, <1>2, <1>3, <1>4 DEF Next

\* Only the first two strlen of a report can meet a text that was never delivered.
THEOREM MissingAtFirst == Spec => []MissingOnlyAtFirst
<1>1. Spec => []MissingInv
  <2>1. Init => TypeInv /\ PointerInv /\ MissingInv
    BY TypeInit, PointerInit, MissingInit
  <2>2. TypeInv /\ PointerInv /\ MissingInv /\ [Next]_vars
          => TypeInv' /\ PointerInv' /\ MissingInv'
    BY TypeStep, PointerStep, MissingStep
  <2> QED
    BY <2>1, <2>2, PTL DEF Spec
<1>2. MissingInv => MissingOnlyAtFirst
  BY DEF MissingInv
<1> QED
  BY <1>1, <1>2, PTL

-----------------------------------------------------------------------------
(* Nothing is lost.                                                        *)

\* Two threads in set_string with one text are known to overlap, and only then do two
\* of them have the same old text.
Seen ==
  /\ \A t \in Writers : \A u \in Writers \ {t} :
       pc[t] # "idle" /\ pc[u] # "idle" /\ arg[t] = arg[u] => overlapped
  /\ doubled => overlapped

\* A thread that is alone with its text holds the current text until it stores its
\* own; and if it found none there, there still is none.
Alone ==
  \A t \in Writers :
    /\ pc[t] = "publish" => before[t] = key[arg[t]]
    /\ pc[t] = "store" => key[arg[t]] = NULL

LostInv == Seen /\ (~overlapped => Alone) /\ Accounted

LEMMA LostInit == Init => LostInv
<1> SUFFICES ASSUME Init PROVE LostInv
  OBVIOUS
<1>1. Alone /\ Accounted /\ Seen
  BY DEF Init, Alone, Accounted, live, Seen
<1> QED
  BY <1>1 DEF LostInv

LEMMA LostInitNext == Init' => LostInv'
BY LostInit, PTL

LEMMA SeenStep ==
  ASSUME PointerTypes, PointerInv, Seen, NEW t \in Writers, set_string(t)
  PROVE  Seen'
<1> USE DEF PointerTypes, Seen, Goto, Return
<1>1. CASE SetString(t)
  <2>1. PICK x \in Texts :
          arg' = [arg EXCEPT ![t] = x] /\ overlapped' = (overlapped \/ Meets(t, x))
    BY <1>1 DEF SetString
  <2>2. pc' = [pc EXCEPT ![t] = "test"] /\ doubled' = doubled
    BY <1>1 DEF SetString
  <2>3. ASSUME NEW u \in Writers, NEW v \in Writers \ {u},
               pc'[u] # "idle", pc'[v] # "idle", arg'[u] = arg'[v]
        PROVE  overlapped'
    <3>1. CASE u = t
      BY <2>1, <2>2, <2>3, <3>1 DEF Meets
    <3>2. CASE v = t
      BY <2>1, <2>2, <2>3, <3>2 DEF Meets
    <3>3. CASE u # t /\ v # t
      BY <2>1, <2>2, <2>3, <3>3
    <3> QED
      BY <3>1, <3>2, <3>3
  <2> QED
    BY <2>1, <2>2, <2>3
<1>2. CASE TestKey(t)
  BY <1>2 DEF TestKey, histVars
<1>3. CASE LoadBefore(t)
  <2>1. /\ pc[t] = "load" /\ pc' = [pc EXCEPT ![t] = "publish"]
        /\ UNCHANGED <<arg, overlapped>>
        /\ doubled' = (doubled \/ \E u \in Writers \ {t} : Holds(u) /\ before[u] = key[arg[t]])
    BY <1>3 DEF LoadBefore
  <2>2. ASSUME ~doubled, NEW u \in Writers \ {t}, Holds(u), before[u] = key[arg[t]]
        PROVE  overlapped
    <3>1. arg[u] = arg[t]
      BY <2>2 DEF PointerInv, Sound, Outgoing, Holds
    <3> QED
      BY <2>1, <2>2, <3>1 DEF Holds
  <2> QED
    BY <2>1, <2>2
<1>4. CASE Publish(t)
  BY <1>4 DEF Publish, histVars
<1>5. CASE FreeBefore(t)
  BY <1>5 DEF FreeBefore
<1> QED
  BY <1>1, <1>2, <1>3, <1>4, <1>5 DEF set_string

LEMMA AccountedStep ==
  ASSUME PointerTypes, PointerInv, LostInv, NEW t \in Writers, set_string(t), ~overlapped'
  PROVE  Alone' /\ Accounted'
<1>o. ~overlapped /\ Alone
  <2>1. ~overlapped
    BY Zenon DEF set_string, SetString, TestKey, LoadBefore, Publish, FreeBefore, histVars
  <2> QED
    BY <2>1 DEF LostInv
<1>s. \A u \in Writers \ {t} : pc[t] # "idle" /\ pc[u] # "idle" => arg[u] # arg[t]
  BY <1>o DEF LostInv, Seen
<1>a. \A b \in live :
        \/ \E x \in Texts : key[x] = b
        \/ \E u \in Writers : (Owns(u) /\ tmp[u] = b) \/ (pc[u] = "free" /\ before[u] = b)
  BY <1>o DEF LostInv, Accounted
<1>l. live \subseteq Addresses
  BY DEF live
<1> USE DEF PointerTypes, Goto, Return, Owns
<1>1. CASE SetString(t)
  <2>1. PICK x \in Texts, n \in Lengths, b \in Addresses \ live :
          /\ arg' = [arg EXCEPT ![t] = x]
          /\ text' = [text EXCEPT ![b] = n]
          /\ tmp' = [tmp EXCEPT ![t] = b]
    BY <1>1 DEF SetString
  <2>2. /\ live' = live \cup {b} /\ pc' = [pc EXCEPT ![t] = "test"] /\ pc[t] = "idle"
        /\ UNCHANGED <<key, before>>
    BY <1>1, <2>1, MallocMakesLive DEF SetString
  <2> QED
    BY <1>o, <1>a, <2>1, <2>2 DEF Alone, Accounted
<1>2. CASE TestKey(t)
  <2>1. /\ pc[t] = "test"
        /\ pc' = [pc EXCEPT ![t] = IF key[arg[t]] = NULL THEN "store" ELSE "load"]
        /\ UNCHANGED <<key, text, arg, tmp, before>>
    BY <1>2 DEF TestKey, heapVars
  <2>2. live' = live
    BY <2>1 DEF live
  <2> QED
    BY <1>o, <1>a, <2>1, <2>2 DEF Alone, Accounted
<1>3. CASE LoadBefore(t)
  <2>1. /\ pc[t] = "load" /\ pc' = [pc EXCEPT ![t] = "publish"]
        /\ before' = [before EXCEPT ![t] = key[arg[t]]]
        /\ UNCHANGED <<key, text, arg, tmp>>
    BY <1>3 DEF LoadBefore, heapVars
  <2>2. live' = live
    BY <2>1 DEF live
  <2> QED
    BY <1>o, <1>a, <2>1, <2>2 DEF Alone, Accounted
<1>4. CASE Publish(t)
  <2>1. /\ pc[t] \in {"store", "publish"}
        /\ pc' = [pc EXCEPT ![t] = IF pc[t] = "store" THEN "idle" ELSE "free"]
        /\ key' = [key EXCEPT ![arg[t]] = tmp[t]]
        /\ \A u \in Writers \ {t} : tmp'[u] = tmp[u] /\ before'[u] = before[u]
        /\ pc[t] = "publish" => before' = before
        /\ UNCHANGED <<text, arg>> /\ arg[t] \in Texts
    BY <1>4 DEF Publish
  <2>2. live' = live
    BY <2>1 DEF live
  <2>3. Alone'
    BY <1>o, <1>s, <2>1 DEF Alone
  <2>4. ASSUME NEW b \in live
        PROVE  \/ \E x \in Texts : key'[x] = b
               \/ \E u \in Writers :
                    (Owns(u)' /\ tmp'[u] = b) \/ (pc'[u] = "free" /\ before'[u] = b)
    <3>1. b # NULL
      BY <1>l, AddressesAssumption
    <3>2. CASE \E x \in Texts : key[x] = b
      <4>1. PICK x \in Texts : key[x] = b
        BY <3>2
      <4>2. CASE x = arg[t]
        BY <1>o, <2>1, <3>1, <4>1, <4>2 DEF Alone
      <4>3. CASE x # arg[t]
        BY <2>1, <4>1, <4>3
      <4> QED
        BY <4>2, <4>3
    <3>3. CASE \E u \in Writers : (Owns(u) /\ tmp[u] = b) \/ (pc[u] = "free" /\ before[u] = b)
      <4>1. PICK u \in Writers : (Owns(u) /\ tmp[u] = b) \/ (pc[u] = "free" /\ before[u] = b)
        BY <3>3
      <4>2. CASE u = t
        BY <2>1, <4>1, <4>2
      <4>3. CASE u # t
        BY <2>1, <4>1, <4>3
      <4> QED
        BY <4>2, <4>3
    <3> QED
      BY <1>a, <3>2, <3>3
  <2> QED
    BY <2>2, <2>3, <2>4 DEF Accounted
<1>5. CASE FreeBefore(t)
  <2>1. /\ pc[t] = "free" /\ pc' = [pc EXCEPT ![t] = "idle"]
        /\ text' = [text EXCEPT ![before[t]] = Free]
        /\ \A u \in Writers \ {t} : tmp'[u] = tmp[u] /\ before'[u] = before[u]
        /\ UNCHANGED <<key, arg>>
    BY <1>5 DEF FreeBefore, FreeAt
  <2>2. live' = live \ {before[t]}
    BY <2>1, FreeMakesFree
  <2> QED
    BY <1>o, <1>a, <2>1, <2>2 DEF Alone, Accounted
<1> QED
  BY <1>1, <1>2, <1>3, <1>4, <1>5 DEF set_string

LEMMA LostStep == TypeInv /\ PointerInv /\ LostInv /\ [Next]_vars => LostInv'
<1> SUFFICES ASSUME TypeInv, PointerInv, LostInv, [Next]_vars PROVE LostInv'
  OBVIOUS
<1>1. ASSUME NEW t \in Writers, set_string(t) PROVE LostInv'
  <2>1. Seen'
    BY <1>1, TypeParts, SeenStep DEF LostInv
  <2>2. ~overlapped' => Alone' /\ Accounted'
    BY <1>1, TypeParts, AccountedStep
  <2>3. overlapped' => Accounted'
    BY DEF Accounted
  <2> QED
    BY <2>1, <2>2, <2>3 DEF LostInv
<1>2. CASE UNCHANGED pointerVars
  <2>1. live' = live
    BY <1>2 DEF pointerVars, heapVars, live
  <2> QED
    BY <1>2, <2>1 DEF pointerVars, heapVars, callVars, histVars, LostInv, Seen, Alone, Accounted,
       Owns
<1>3. CASE Restart
  <2>1. Init'
    BY <1>3, Zenon DEF Restart, Init
  <2> QED
    BY <2>1, LostInitNext
<1> QED
  BY <1>1, <1>2, <1>3, ReportReads DEF Next, vars, pointerVars

\* No text leaks, unless two threads were setting one text at once.
THEOREM NothingLost == Spec => []Accounted
<1>1. Spec => []LostInv
  <2>1. TypeInv /\ PointerInv /\ LostInv /\ [Next]_vars => TypeInv' /\ PointerInv' /\ LostInv'
    BY TypeStep, PointerStep, LostStep
  <2> QED
    BY <2>1, TypeInit, PointerInit, LostInit, PTL DEF Spec
<1>2. LostInv => Accounted
  BY DEF LostInv
<1> QED
  BY <1>1, <1>2, PTL

-----------------------------------------------------------------------------
(* What a report copies.                                                   *)

Length(x) == text[key[x]]

\* What was measured is no less than what is there now, and what is there now, or was
\* when it was loaded, fits in what is left.
Bounds ==
  /\ held \in Addresses => held \in live
  /\ held \in Addresses /\ step \in {1, 2, 3} => text[held] >= Length(Uses[step])
  /\ step = 2 => reserved >= Length("root")
  /\ step \in {3, 4, 5} => reserved >= Length("root") + Length("url")
  /\ step = 4 => urlbuf >= Length("url")
  /\ step = 4 /\ held \in Addresses => urlbuf >= text[held]
  /\ step = 5 /\ held \in Addresses => reserved >= text[held] + Length("url")
  /\ step = 6 => reserved >= written + Length("url")
  /\ step = 6 /\ held \in Addresses => reserved >= written + text[held]

FitsInv == doubled \/ grew \/ (Bounds /\ ~overrun)

LEMMA FitsInit == Init => FitsInv
<1> SUFFICES ASSUME Init PROVE FitsInv
  OBVIOUS
<1>1. Bounds
  BY AddressesAssumption DEF Init, Bounds
<1>2. ~overrun
  BY DEF Init
<1> QED
  BY <1>1, <1>2 DEF FitsInv

LEMMA FitsInitNext == Init' => FitsInv'
BY FitsInit, PTL

\* Unless a longer text is published, or what the report has loaded is freed, no length
\* grows.
LEMMA NeverLonger ==
  ASSUME PointerTypes, Found, Sound, NEW t \in Writers, set_string(t), ~grew'
  PROVE  /\ ~grew
         /\ \A x \in Texts : key[x] # NULL => /\ key'[x] # NULL /\ Length(x)' <= Length(x)
                                             /\ Length(x) \in Nat /\ Length(x)' \in Nat
         /\ held \in live => held \in live' /\ text'[held] = text[held]
<1>n. live \subseteq Addresses /\ \A b \in live : text[b] \in Nat
  BY LengthOfLive
<1>k. \A x \in Texts : key[x] # NULL => key[x] \in live /\ Length(x) \in Nat
  BY <1>n DEF Sound, Published, Length
<1> USE DEF PointerTypes, Length
<1>1. CASE Publish(t)
  <2>1. /\ key' = [key EXCEPT ![arg[t]] = tmp[t]] /\ text' = text /\ live' = live
        /\ key[arg[t]] # NULL => ~(text[tmp[t]] > text[key[arg[t]]])
    BY <1>1 DEF Publish, live
  <2>2. ~grew
    BY <1>1, Zenon DEF Publish
  <2>3. tmp[t] \in live /\ tmp[t] # NULL
    BY <1>1 DEF Publish, Sound, Private, Owns, Found
  <2>4. ASSUME NEW x \in Texts, key[x] # NULL
        PROVE  key'[x] # NULL /\ text'[key'[x]] <= text[key[x]] /\ text'[key'[x]] \in Nat
    BY <1>n, <1>k, <2>1, <2>3, <2>4
  <2> QED
    BY <1>k, <2>1, <2>2, <2>4
<1>2. CASE SetString(t)
  <2>1. PICK n \in Lengths, b \in Addresses \ live : text' = [text EXCEPT ![b] = n]
    BY <1>2 DEF SetString
  <2>2. UNCHANGED <<key, grew>> /\ live' = live \cup {b}
    BY <1>2, <2>1, MallocMakesLive DEF SetString
  <2> QED
    BY <1>k, <1>n, <2>1, <2>2
<1>3. CASE TestKey(t) \/ LoadBefore(t)
  <2>1. UNCHANGED <<key, text, grew>>
    BY <1>3 DEF TestKey, LoadBefore, heapVars
  <2> QED
    BY <1>k, <2>1 DEF live
<1>4. CASE FreeBefore(t)
  <2>1. text' = [text EXCEPT ![before[t]] = Free] /\ key' = key /\ pc[t] = "free"
    BY <1>4 DEF FreeBefore, FreeAt
  <2>2. ~grew /\ before[t] # held
    BY <1>4, Zenon DEF FreeBefore, FreeAt
  <2>3. live' = live \ {before[t]}
    BY <2>1, FreeMakesFree
  <2>4. \A x \in Texts : key[x] # before[t]
    BY <2>1 DEF Sound, Outgoing
  <2> QED
    BY <1>k, <1>n, <2>1, <2>2, <2>3, <2>4
<1> QED
  BY <1>1, <1>2, <1>3, <1>4 DEF set_string

LEMMA FitsStep ==
  TypeInv /\ PointerInv /\ MissingInv /\ FitsInv /\ [Next]_vars => FitsInv'
<1> SUFFICES ASSUME TypeInv, PointerInv, MissingInv, FitsInv, [Next]_vars
             PROVE  FitsInv'
  OBVIOUS
<1>t. PointerTypes /\ ReportTypes /\ Flags
  BY TypeParts
<1>u. /\ DOMAIN Uses = 1 .. 6
      /\ Uses[1] = "root" /\ Uses[2] = "url" /\ Uses[3] = "url"
      /\ Uses[4] = "url" /\ Uses[5] = "root" /\ Uses[6] = "url"
      /\ "root" \in Texts /\ "url" \in Texts
  BY DEF Uses, Texts
<1>b. live \subseteq Addresses /\ \A b \in live : text[b] \in Nat
  BY <1>t, LengthOfLive
<1>1. ASSUME NEW t \in Writers, set_string(t) PROVE FitsInv'
  <2>1. UNCHANGED reportVars
    BY <1>1 DEF set_string, SetString, TestKey, LoadBefore, Publish, FreeBefore
  <2>2. doubled => doubled'
    BY <1>1, Zenon DEF set_string, SetString, TestKey, LoadBefore, Publish, FreeBefore, histVars
  <2>3. CASE doubled' \/ grew'
    BY <2>3 DEF FitsInv
  <2>4. CASE ~doubled' /\ ~grew'
    <3>1. Found /\ Sound
      BY <2>2, <2>4 DEF PointerInv
    <3>2. /\ ~grew
          /\ \A x \in Texts : key[x] # NULL => /\ key'[x] # NULL /\ Length(x)' <= Length(x)
                                              /\ Length(x) \in Nat /\ Length(x)' \in Nat
          /\ held \in live => held \in live' /\ text'[held] = text[held]
      BY <1>1, <1>t, <2>4, <3>1, NeverLonger
    <3>3. Bounds /\ ~overrun
      BY <2>2, <2>4, <3>2 DEF FitsInv
    <3>4. Bounds'
      <4>1. UNCHANGED <<step, held, reserved, urlbuf, written>>
        BY <2>1 DEF reportVars
      <4>2. /\ step # 1 /\ step \in DOMAIN Uses => key["root"] # NULL
            /\ step \in {3, 4, 5, 6} => key["url"] # NULL
            /\ held \in Addresses => step \in 1 .. 6 /\ key[Uses[step]] # NULL
            /\ held \in Addresses => held \in live /\ text[held] \in Nat
        BY <1>u, <1>b, <3>3, AddressesAssumption DEF MissingInv, Delivered, Bounds
      <4>3. reserved \in Nat /\ urlbuf \in Nat /\ written \in Nat
        BY <1>t DEF ReportTypes
      <4>4. CASE held \in Addresses
        BY <3>2, <3>3, <4>1, <4>2, <4>3, <4>4, <1>u DEF Bounds
      <4>5. CASE held \notin Addresses
        BY <3>2, <3>3, <4>1, <4>2, <4>3, <4>5, <1>u DEF Bounds
      <4> QED
        BY <4>4, <4>5
    <3> QED
      BY <2>1, <3>3, <3>4 DEF FitsInv, reportVars
  <2> QED
    BY <2>3, <2>4
<1>2. CASE Report
  <2>1. UNCHANGED <<key, text, doubled>> /\ live' = live
    BY <1>2, ReportReads DEF pointerVars, heapVars, histVars, live
  <2>3. CASE doubled \/ grew'
    BY <2>1, <2>3 DEF FitsInv
  <2>4. CASE ~doubled /\ ~grew'
    <3> USE AddressesAssumption DEF Bounds, Length, AParameters
    <3>0. \A x \in Texts : key[x] # NULL => key[x] \in live /\ text[key[x]] \in Nat
      BY <1>b, <2>4 DEF PointerInv, Sound, Published
    <3>1. ASSUME Begin PROVE Bounds' /\ ~overrun'
      <4>1. held' \notin Addresses /\ step' = 7 /\ overrun' = FALSE
        BY <3>1, <1>u DEF Begin, MissingInv, Delivered
      <4> QED
        BY <4>1
    <3>2. ASSUME Parameters PROVE Bounds' /\ ~overrun'
      BY <2>1, <2>4, <3>2, <1>u DEF Parameters, NoParameters, Release, FitsInv, MissingInv, Delivered
    <3>3. ASSUME Load PROVE Bounds' /\ ~overrun'
      <4>1. /\ step \in 1 .. 6 /\ held' = key[Uses[step]] /\ step' = step
            /\ UNCHANGED <<reserved, urlbuf, written, overrun>> /\ Bounds /\ ~overrun
        BY <2>4, <3>3, <1>u DEF Load, reportVars, FitsInv
      <4>2. held' \in Addresses => /\ text[held'] = Length(Uses[step]) /\ text[held'] \in Nat
                                 /\ held' \in live
        BY <4>1, <3>0, <1>u
      <4>3. /\ step # 1 => key["root"] # NULL
            /\ step \notin {1, 2} => key["url"] # NULL
        BY <4>1 DEF MissingInv, Delivered
      <4>4. /\ key["root"] # NULL => Length("root") \in Nat
            /\ key["url"] # NULL => Length("url") \in Nat
        BY <3>0, <1>u
      <4>5. CASE step \in {1, 2, 3}
        BY <2>1, <4>1, <4>2, <4>3, <4>4, <4>5, <1>u
      <4>6. CASE step \in {4, 5, 6}
        BY <2>1, <4>1, <4>2, <4>3, <4>4, <4>6, <1>t, <1>u DEF ReportTypes
      <4> QED
        BY <4>1, <4>5, <4>6
    <3>4. ASSUME Fault PROVE Bounds' /\ ~overrun'
      BY <2>1, <2>4, <3>4 DEF Fault, FitsInv, reportVars
    <3>5. ASSUME NEW n \in Lengths, NEW s \in 1 .. 6, Use(s, n)
          PROVE  /\ step = s /\ held \in Addresses /\ n = text[held] /\ n \in Nat /\ held' = None
                 /\ Bounds /\ ~overrun
                 /\ Length("root") \in Nat
                 /\ s # 1 => Length("url") \in Nat
      <4>1. step = s /\ held \in Addresses /\ held \in live /\ n = text[held] /\ held' = None
            /\ Bounds /\ ~overrun
        BY <2>4, <3>5 DEF Use, FitsInv
      <4>2. key["root"] # NULL /\ (s # 1 => key["url"] # NULL)
        BY <4>1, <1>u DEF MissingInv, Delivered
      <4> QED
        BY <4>1, <4>2, <3>0, <1>u, <1>b
    <3>6. ASSUME NEW n \in Lengths, SizeRoot(n) PROVE Bounds' /\ ~overrun'
      BY <2>1, <3>5, <3>6, <1>u DEF SizeRoot
    <3>7. ASSUME NEW n \in Lengths, SizeURL(n) PROVE Bounds' /\ ~overrun'
      <4>1. /\ step = 2 /\ n = text[held] /\ n \in Nat /\ held' = None /\ Bounds
            /\ Length("root") \in Nat /\ Length("url") \in Nat /\ held \in Addresses
        <5>1. Use(2, n) /\ 2 \in 1 .. 6 /\ 2 # 1
          BY <3>7 DEF SizeURL
        <5> QED
          BY <3>5, <5>1
      <4>2. n >= Length("url") /\ reserved >= Length("root") /\ reserved \in Nat
        BY <4>1, <1>u, <1>t DEF ReportTypes
      <4>3. step' = 0 \/ (step' = 3 /\ reserved' = reserved + n)
        BY <3>7 DEF SizeURL, NoReqUrl, NoOut, NoUrlbuf, NotEncoded, Release
      <4>4. ~overrun'
        BY <3>5, <3>7 DEF SizeURL
      <4> QED
        BY <2>1, <4>1, <4>2, <4>3, <4>4
    <3>8. ASSUME NEW n \in Lengths, SizeToken(n) PROVE Bounds' /\ ~overrun'
      BY <2>1, <3>5, <3>8, <1>u DEF SizeToken, NoReqUrl, NoOut, NoUrlbuf, NotEncoded, Release, ReportTypes
    <3>9. ASSUME NEW n \in Lengths, CopyToken(n) PROVE Bounds' /\ ~overrun'
      <4>1. /\ step = 4 /\ n = text[held] /\ n \in Nat /\ held' = None /\ Bounds /\ ~overrun
            /\ held \in Addresses
        <5>1. Use(4, n) /\ 4 \in 1 .. 6
          BY <3>9 DEF CopyToken
        <5> QED
          BY <3>5, <5>1
      <4>2. overrun' = (overrun \/ n > urlbuf) /\ n <= urlbuf /\ urlbuf \in Nat
        BY <3>9, <4>1, <1>t DEF CopyToken, ReportTypes
      <4>3. ~overrun'
        <5>1. ~(n > urlbuf)
          BY <4>1, <4>2
        <5> QED
          BY <4>1, <4>2, <5>1, Zenon
      <4>4. step' = 0 \/ (step' = 5 /\ reserved' = reserved)
        BY <3>9 DEF CopyToken, NoReqUrl, NoOut, NoUrlbuf, NotEncoded, Release
      <4> QED
        BY <2>1, <4>1, <4>3, <4>4
    <3>10. ASSUME NEW n \in Lengths, CopyRoot(n) PROVE Bounds' /\ ~overrun'
      <4>1. /\ step = 5 /\ n = text[held] /\ n \in Nat /\ held' = None /\ Bounds /\ ~overrun
            /\ held \in Addresses /\ Length("url") \in Nat
        <5>1. Use(5, n) /\ 5 \in 1 .. 6 /\ 5 # 1
          BY <3>10 DEF CopyRoot
        <5> QED
          BY <3>5, <5>1
      <4>2. /\ overrun' = (overrun \/ n > reserved)
            /\ n + Length("url") <= reserved /\ n <= reserved /\ reserved \in Nat
        BY <3>10, <4>1, <1>t DEF CopyRoot, ReportTypes
      <4>3. ~overrun'
        <5>1. ~(n > reserved)
          BY <4>1, <4>2
        <5> QED
          BY <4>1, <4>2, <5>1, Zenon
      <4>4. step' = 6 /\ written' = n /\ reserved' = reserved
        BY <3>10 DEF CopyRoot
      <4> QED
        BY <2>1, <4>1, <4>2, <4>3, <4>4
    <3>11. ASSUME NEW n \in Lengths, CopyURL(n) PROVE Bounds' /\ ~overrun'
      <4>1. /\ step = 6 /\ n = text[held] /\ n \in Nat /\ held' = None /\ Bounds /\ ~overrun
            /\ held \in Addresses
        <5>1. Use(6, n) /\ 6 \in 1 .. 6
          BY <3>11 DEF CopyURL
        <5> QED
          BY <3>5, <5>1
      <4>2. overrun' = (overrun \/ written + n > reserved) /\ written + n <= reserved
            /\ written \in Nat /\ reserved \in Nat
        BY <3>11, <4>1, <1>t DEF CopyURL, ReportTypes
      <4>3. ~overrun'
        <5>1. ~(written + n > reserved)
          BY <4>1, <4>2
        <5> QED
          BY <4>1, <4>2, <5>1, Zenon
      <4>4. step' = 0
        BY <3>11 DEF CopyURL, Release
      <4> QED
        BY <2>1, <4>1, <4>3, <4>4
    <3>12. Bounds' /\ ~overrun'
      BY <1>2, <2>4, <3>1, <3>2, <3>3, <3>4, <3>6, <3>7, <3>8, <3>9, <3>10, <3>11
         DEF Report
    <3> QED
      BY <3>12 DEF FitsInv
  <2> QED
    BY <2>3, <2>4
<1>3. CASE Restart
  <2>1. Init'
    BY <1>3, Zenon DEF Restart, Init
  <2> QED
    BY <2>1, FitsInitNext
<1>4. CASE UNCHANGED vars
  BY <1>4 DEF vars, heapVars, reportVars, histVars, FitsInv, Bounds, Length, live
<1> QED
  BY <1>1, <1>2, <1>3, <1>4 DEF Next

\* What a report copies fits in what it reserved, unless a longer text was published
\* between the measuring and the copying, or the one that was loaded was freed, or two
\* threads had loaded the same pointer.
THEOREM CopiesFit == Spec => []Fits
<1>1. Spec => []FitsInv
  <2>1. Init => TypeInv /\ PointerInv /\ MissingInv /\ FitsInv
    BY TypeInit, PointerInit, MissingInit, FitsInit
  <2>2. TypeInv /\ PointerInv /\ MissingInv /\ FitsInv /\ [Next]_vars
          => TypeInv' /\ PointerInv' /\ MissingInv' /\ FitsInv'
    BY TypeStep, PointerStep, MissingStep, FitsStep
  <2> QED
    BY <2>1, <2>2, PTL DEF Spec
<1>2. FitsInv => Fits
  BY DEF FitsInv, Fits
<1> QED
  BY <1>1, <1>2, PTL
=============================================================================
