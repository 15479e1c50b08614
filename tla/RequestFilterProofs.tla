-------------------------- MODULE RequestFilterProofs --------------------------
(***************************************************************************)
(* Theorems about RequestFilter for all requests, all deliveries and every *)
(* way texts may compare.                                                  *)
(***************************************************************************)
EXTENDS RequestFilter, SequenceTheorems, TLAPS

-----------------------------------------------------------------------------
(* Types.                                                                  *)

LEMMA KeysApart ==
  Lists \cap Flags = {} /\ Policy \cap Switches = {} /\ Policy \cap Unused = {}
BY DEF Lists, Flags, Policy, Switches, Unused

LEMMA FreshType ==
  /\ DOMAIN Fresh = Policy
  /\ \A k \in Policy : Fresh[k] = Default(k) /\ Default(k) \in ValuesOf(k)
  /\ \A l \in Lists : Fresh[l] = List({}) /\ List({}) # Unparsable /\ List({}) # Illtyped
BY DEF Fresh, Default, ValuesOf, Policy, List, Unparsable, Illtyped

LEMMA TypeInit == Init => TypeOK
<1> SUFFICES ASSUME Init PROVE TypeOK
  OBVIOUS
<1>1. 0 \in 0 .. MaxTime
  BY MaxTimeAssumption
<1>2. [s \in Switches |-> FALSE] \in [Switches -> BOOLEAN]
  OBVIOUS
<1>3. lua = Fresh /\ delivered = Fresh
  BY DEF Init
<1>4. Lists \subseteq Policy
  BY DEF Policy
<1> QED
  BY <1>1, <1>2, <1>3, <1>4, FreshType DEF Init, TypeOK

\* What an update delivers is a value of its key.
LEMMA DeliveredType ==
  ASSUME NEW k, NEW v, <<k, v>> \in Deliveries
  PROVE  /\ k \in Switches => v \in BOOLEAN
         /\ k \in Policy => v \in ValuesOf(k)
<1>1. k \in Switches => v \in BOOLEAN
  BY DeliveriesAssumption
<1>2. v \in ValuesOf(k)
  BY DEF ValuesOf
<1> QED
  BY <1>1, <1>2

LEMMA TypeStep == TypeOK /\ [Next]_vars => TypeOK'
<1> SUFFICES ASSUME TypeOK, [Next]_vars PROVE TypeOK'
  OBVIOUS
<1> USE DEF TypeOK
<1>1. ASSUME NEW k, NEW v, Update(k, v) PROVE TypeOK'
  <2>0. <<k, v>> \in Deliveries /\ UNCHANGED <<loaded, now, answer, offered>>
    BY <1>1 DEF Update
  <2>1. CASE k \in Switches /\ switch' = [switch EXCEPT ![k] = v]
              /\ UNCHANGED <<lua, junk, delivered, hurt>>
    <3>1. v \in BOOLEAN
      BY <2>0, <2>1, DeliveredType
    <3> QED
      BY <2>0, <2>1, <3>1
  <2>2. CASE junk' = (junk \/ Fails(k, v)) /\ UNCHANGED <<lua, delivered, switch, hurt>>
    <3>1. Fails(k, v) \in BOOLEAN
      BY DEF Fails
    <3> QED
      BY <2>0, <2>2, <3>1
  <2>3. CASE k \in Policy /\ delivered' = [delivered EXCEPT ![k] = v] /\ UNCHANGED switch
    <3>1. v \in ValuesOf(k)
      BY <2>0, <2>3, DeliveredType
    <3>2. CASE Fails(k, v) /\ junk' = TRUE /\ hurt' = hurt \cup {k} /\ UNCHANGED lua
      BY <2>0, <2>3, <3>1, <3>2
    <3>3. CASE ~Fails(k, v) /\ lua' = decode(k, v) /\ hurt' = hurt \ {k} /\ UNCHANGED junk
      <4>1. lua' = [lua EXCEPT ![k] = v] /\ (k \in Lists => v # Unparsable)
        BY <3>3, KeysApart DEF decode, Fails
      <4> QED
        BY <2>0, <2>3, <3>1, <3>3, <4>1
    <3> QED
      BY <1>1, <2>3, <3>2, <3>3, KeysApart DEF Update
  <2> QED
    BY <1>1, <2>1, <2>2, <2>3 DEF Update
<1>2. ASSUME NEW r \in Requests, Request(r) PROVE TypeOK'
  <2>1. UNCHANGED <<delivered, switch, now>>
    BY <1>2 DEF Request
  <2>2. answer' \in {"skip", "pass", "deny", "status"} /\ offered' \in BOOLEAN
    BY <1>2 DEF Request, Report
  <2>3. Reload \/ UNCHANGED luaVars
    BY <1>2 DEF Request
  <2>4. CASE Reload
    BY <2>1, <2>2, <2>4, FreshType DEF Reload
  <2>5. CASE UNCHANGED luaVars
    BY <2>1, <2>2, <2>5 DEF luaVars
  <2> QED
    BY <2>3, <2>4, <2>5
<1>3. ASSUME NEW c \in {"status", "enable", "disable"}, Command(c) PROVE TypeOK'
  <2>1. switch' \in [Switches -> BOOLEAN]
    BY <1>3 DEF Command
  <2> QED
    BY <1>3, <2>1 DEF Command, Report, luaVars
<1>4. CASE Tick
  BY <1>4, MaxTimeAssumption DEF Tick, luaVars
<1>5. CASE UNCHANGED vars
  BY <1>5 DEF vars, luaVars
<1> QED
  BY <1>1, <1>2, <1>3, <1>4, <1>5 DEF Next

\* L always holds values of its keys that were delivered, and no list that failed
\* to decode gets into it.
THEOREM TypeCorrect == Spec => []TypeOK
BY TypeInit, TypeStep, PTL DEF Spec
-----------------------------------------------------------------------------
(* What a chain of checks returns.                                         *)

Answers == SUBSET {"yes", "no", "raise"}
Step == Int \X Answers

Steps(g, r) == CommonSteps(g, r) \o VisitorSteps(g, r)

\* Every check answers with a set of answers, so that each of them is a step.
LEMMA AnswersType ==
  /\ \A b : Answer(b) \in Answers
  /\ \A list, hits, r : Lookup(list, hits, r) \in Answers
  /\ \A list, key, r : RateLookup(list, key, r) \in Answers
  /\ \A list, r : isIpRateBlackList(list, r) \in Answers
  /\ \A list, r : isVidBlackList(list, r) \in Answers
  /\ \A list, r : lookupdenyNOVisitorIDURL(list, r) \in Answers
<1>1. \A b : Answer(b) \in Answers
  BY DEF Answer, Answers
<1>2. {"raise"} \in Answers /\ {"no"} \in Answers
  BY DEF Answers
<1>0. \A names, raises : Walk(names, raises) \in Answers
  BY DEF Walk, Answers
<1>3. \A list, hits, r : Lookup(list, hits, r) \in Answers
  BY <1>0, <1>2 DEF Lookup
<1>4. \A list, key, r : RateLookup(list, key, r) \in Answers
  BY <1>0, <1>2 DEF RateLookup
<1>5. \A list, r : lookupdenyNOVisitorIDURL(list, r) \in Answers
  BY <1>0, <1>2 DEF lookupdenyNOVisitorIDURL
<1>6. \A list, r : isVidBlackList(list, r) \in Answers
  BY <1>2, <1>3 DEF isVidBlackList
<1> QED
  BY <1>1, <1>3, <1>4, <1>5, <1>6 DEF isIpRateBlackList

\* A sequence of nine and one of two.
LEMMA NineAndTwo ==
  ASSUME NEW S, NEW c \in Seq(S), NEW v \in Seq(S), Len(c) = 9, Len(v) = 2
  PROVE  /\ c \o v \in Seq(S) /\ Len(c \o v) = 11
         /\ \A i \in 1 .. 9 : (c \o v)[i] = c[i]
         /\ (c \o v)[10] = v[1] /\ (c \o v)[11] = v[2]
<1>1. /\ c \o v \in Seq(S) /\ Len(c \o v) = Len(c) + Len(v)
      /\ \A i \in 1 .. Len(c) + Len(v) :
           (c \o v)[i] = IF i <= Len(c) THEN c[i] ELSE v[i - Len(c)]
  BY ConcatProperties
<1> QED
  BY <1>1

LEMMA StepType == \A code \in Int, a \in Answers : <<code, a>> \in Step
BY DEF Step

LEMMA CommonShape ==
  ASSUME NEW g, NEW r
  PROVE  /\ CommonSteps(g, r) \in Seq(Step) /\ Len(CommonSteps(g, r)) = 9
         /\ CommonSteps(g, r)[1][1] = 201
         /\ \A i \in 2 .. 9 : CommonSteps(g, r)[i][1] \in DenyCodes
<1> DEFINE c == CommonSteps(g, r)
<1>1. c[1] \in Step /\ c[2] \in Step /\ c[3] \in Step
  BY StepType, AnswersType DEF CommonSteps
<1>2. c[4] \in Step /\ c[5] \in Step /\ c[6] \in Step
  BY StepType, AnswersType DEF CommonSteps
<1>3. c[7] \in Step /\ c[8] \in Step /\ c[9] \in Step
  BY StepType, AnswersType DEF CommonSteps
<1>4. c = <<c[1], c[2], c[3], c[4], c[5], c[6], c[7], c[8], c[9]>>
  BY DEF CommonSteps
<1>5. /\ c[1][1] = 201 /\ c[2][1] = 406 /\ c[3][1] = 401 /\ c[4][1] = 401 /\ c[5][1] = 401
      /\ c[6][1] = 403 /\ c[7][1] = 403 /\ c[8][1] = 403 /\ c[9][1] = 407
  BY DEF CommonSteps
<1>6. \A a1, a2, a3, a4, a5, a6, a7, a8, a9 \in Step :
        /\ <<a1, a2, a3, a4, a5, a6, a7, a8, a9>> \in Seq(Step)
        /\ Len(<<a1, a2, a3, a4, a5, a6, a7, a8, a9>>) = 9
  OBVIOUS
<1> HIDE DEF c
<1>7. c \in Seq(Step) /\ Len(c) = 9
  <2>1. /\ <<c[1], c[2], c[3], c[4], c[5], c[6], c[7], c[8], c[9]>> \in Seq(Step)
        /\ Len(<<c[1], c[2], c[3], c[4], c[5], c[6], c[7], c[8], c[9]>>) = 9
    BY <1>1, <1>2, <1>3, <1>6
  <2> QED
    BY <2>1, <1>4, Zenon
<1>8. ASSUME NEW i \in 2 .. 9 PROVE c[i][1] \in DenyCodes
  <2>1. i = 2 \/ i = 3 \/ i = 4 \/ i = 5 \/ i = 6 \/ i = 7 \/ i = 8 \/ i = 9
    OBVIOUS
  <2> QED
    BY <2>1, <1>5 DEF DenyCodes
<1> QED
  BY <1>5, <1>7, <1>8 DEF c

LEMMA VisitorShape ==
  ASSUME NEW g, NEW r
  PROVE  /\ VisitorSteps(g, r) \in Seq(Step) /\ Len(VisitorSteps(g, r)) = 2
         /\ VisitorSteps(g, r)[1][1] \in DenyCodes
         /\ VisitorSteps(g, r)[2][1] \in DenyCodes
<1>1. \A a1, a2 \in Step : <<a1, a2>> \in Seq(Step) /\ Len(<<a1, a2>>) = 2
  OBVIOUS
<1>2. CASE isBlank(r.vid)
  BY <1>1, <1>2, StepType, AnswersType DEF VisitorSteps, DenyCodes
<1>3. CASE ~isBlank(r.vid)
  <2> DEFINE a == IF g["blockByVid"] THEN <<404, RateLookup(g["denyIPVidRate"], IpVid(r), r)>>
                  ELSE <<402, isIpRateBlackList(g["denyIPAddressRate"], r)>>
             b == <<408, IF g["blockByVidOnly"] THEN RateLookup(g["denyVisterIDRate"], r.vid, r)
                         ELSE {"no"}>>
  <2>1. a \in Step /\ a[1] \in {402, 404}
    BY StepType, AnswersType
  <2>2. b \in Step /\ b[1] = 408
    BY StepType, AnswersType DEF Answers
  <2>3. VisitorSteps(g, r) = <<a, b>>
    BY <1>3 DEF VisitorSteps
  <2> HIDE DEF a, b
  <2> QED
    BY <1>1, <2>1, <2>2, <2>3 DEF DenyCodes
<1> QED
  BY <1>2, <1>3

\* The nine common checks and the two that depend on the visitor, by number.
\* Only the first, that of the accepted addresses, has a code that does not deny.
LEMMA StepsShape ==
  ASSUME NEW g, NEW r
  PROVE  /\ Steps(g, r) \in Seq(Step) /\ Len(Steps(g, r)) = 11
         /\ \A i \in 1 .. 9 : Steps(g, r)[i] = CommonSteps(g, r)[i]
         /\ Steps(g, r)[10] = VisitorSteps(g, r)[1]
         /\ Steps(g, r)[11] = VisitorSteps(g, r)[2]
         /\ Steps(g, r)[1][1] = 201
         /\ \A i \in 2 .. 11 : Steps(g, r)[i][1] \in DenyCodes
<1>1. /\ Steps(g, r) \in Seq(Step) /\ Len(Steps(g, r)) = 11
      /\ \A i \in 1 .. 9 : Steps(g, r)[i] = CommonSteps(g, r)[i]
      /\ Steps(g, r)[10] = VisitorSteps(g, r)[1]
      /\ Steps(g, r)[11] = VisitorSteps(g, r)[2]
  <2>1. CommonSteps(g, r) \in Seq(Step) /\ Len(CommonSteps(g, r)) = 9
    BY CommonShape
  <2>2. VisitorSteps(g, r) \in Seq(Step) /\ Len(VisitorSteps(g, r)) = 2
    BY VisitorShape
  <2> QED
    BY <2>1, <2>2, NineAndTwo DEF Steps
<1>2. Steps(g, r)[1][1] = 201
  BY <1>1, CommonShape
<1>3. ASSUME NEW i \in 2 .. 11 PROVE Steps(g, r)[i][1] \in DenyCodes
  <2>1. CASE i \in 2 .. 9
    <3>1. CommonSteps(g, r)[i][1] \in DenyCodes
      BY <2>1, CommonShape
    <3>2. Steps(g, r)[i] = CommonSteps(g, r)[i]
      BY <2>1, <1>1
    <3> QED
      BY <3>1, <3>2
  <2>2. VisitorSteps(g, r)[1][1] \in DenyCodes /\ VisitorSteps(g, r)[2][1] \in DenyCodes
    BY VisitorShape
  <2>3. CASE i = 10 \/ i = 11
    BY <2>2, <2>3, <1>1
  <2> QED
    BY <2>1, <2>3
<1> QED
  BY <1>1, <1>2, <1>3
-----------------------------------------------------------------------------
(* Chains.                                                                 *)

\* No check raises an error: the judgement is not 0.
LEMMA ChainWithoutRaise ==
  ASSUME NEW s, \A i \in DOMAIN s : "raise" \notin s[i][2] /\ s[i][1] # 0
  PROVE  0 \notin Chain(s)
BY DEF Chain

\* One check with a code that denies says yes, the one that accepts says no, and
\* none of them raises an error: the request is denied.
LEMMA ChainDenies ==
  ASSUME NEW s \in Seq(Step), NEW j \in DOMAIN s, s[j][2] = {"yes"},
         \A i \in DOMAIN s : "raise" \notin s[i][2],
         \A i \in DOMAIN s : "yes" \in s[i][2] => s[i][1] \in DenyCodes
  PROVE  Chain(s) \subseteq DenyCodes
<1>1. j \in 1 .. Len(s) + 1 - 1 /\ "no" \notin s[j][2]
  OBVIOUS
<1>2. ~Reached(s, Len(s) + 1)
  BY <1>1 DEF Reached
<1> QED
  BY <1>2 DEF Chain

\* A denial has a check that says yes.
LEMMA ChainDenied ==
  ASSUME NEW s, NEW code \in Chain(s), code \in DenyCodes
  PROVE  \E i \in DOMAIN s : "yes" \in s[i][2] /\ s[i][1] = code
BY DEF Chain, DenyCodes

\* More checks say yes: what was denied is denied.
LEMMA ChainMonotone ==
  ASSUME NEW s \in Seq(Step), NEW t \in Seq(Step), Len(s) = Len(t),
         \A i \in 1 .. Len(s) :
           /\ s[i][1] = t[i][1]
           /\ "no" \in t[i][2] => "no" \in s[i][2]
           /\ "raise" \in t[i][2] => "raise" \in s[i][2]
           /\ s[i][1] \in DenyCodes \/ s[i][2] = t[i][2],
         Chain(s) \subseteq DenyCodes
  PROVE  Chain(t) \subseteq DenyCodes
<1>1. DOMAIN s = 1 .. Len(s) /\ DOMAIN t = 1 .. Len(s) /\ Len(s) \in Nat
  OBVIOUS
<1>2. ASSUME NEW i \in 1 .. Len(s) + 1, Reached(t, i) PROVE Reached(s, i)
  <2>1. \A n \in 1 .. i - 1 : n \in 1 .. Len(s)
    BY <1>1
  <2> QED
    BY <1>2, <2>1 DEF Reached
<1>3. ASSUME NEW i \in 1 .. Len(s), Reached(t, i), "yes" \in t[i][2]
      PROVE  t[i][1] \in DenyCodes
  <2>1. CASE s[i][1] \in DenyCodes
    BY <2>1
  <2>2. CASE s[i][2] = t[i][2]
    <3>1. Reached(s, i) /\ "yes" \in s[i][2]
      BY <1>1, <1>2, <1>3, <2>2
    <3>2. s[i][1] \in Chain(s)
      BY <1>1, <3>1 DEF Chain
    <3> QED
      BY <3>2
  <2> QED
    BY <2>1, <2>2
<1>4. 0 \notin Chain(s) /\ -1 \notin Chain(s)
  BY DEF DenyCodes
<1>5. ASSUME NEW i \in 1 .. Len(s), Reached(t, i) PROVE "raise" \notin t[i][2]
  <2>1. Reached(s, i)
    BY <1>1, <1>2, <1>5
  <2>2. "raise" \notin s[i][2]
    BY <1>1, <1>4, <2>1 DEF Chain
  <2> QED
    BY <2>2
<1>6. ~Reached(s, Len(s) + 1)
  BY <1>4 DEF Chain
<1>7. ~Reached(t, Len(t) + 1)
  BY <1>1, <1>2, <1>6
<1> QED
  BY <1>1, <1>3, <1>5, <1>7 DEF Chain
-----------------------------------------------------------------------------
(* What each check of block() answers.                                     *)

RateLists == {"denyIPAddressRate", "denyIPVidRate", "denyVisterIDRate"}

\* What a rate list is searched for.
KeyOf(l, r) == IF l = "denyIPVidRate" THEN IpVid(r)
               ELSE IF l = "denyVisterIDRate" THEN r.vid ELSE r.ip

\* The key of entry e of list l is that of the request.
Matches(l, e, r) ==
  CASE l = "denyUserAgent" -> Same(e.key, r.ua)
    [] l = "denyUserAgentPrefix" -> PrefixOf(Lower(e.key), Lower(r.ua))
    [] l = "denyIPAddress" -> Same(e.key, r.ip)
    [] l = "denyIPAddressPrefix" -> PrefixOf(Lower(e.key), Lower(r.ip))
    [] l = "denyVisterID" -> Same(e.key, r.vid)
    [] l = "denyNOVisitorIDURL" -> /\ e.method # NoMethod
                                   /\ Lower(e.method) = "all" \/ Same(e.method, r.method)
                                   /\ PrefixOf(Lower(e.key), Lower(r.url))
    [] OTHER -> e.key = KeyOf(l, r)

Catches(l, e, r) ==
  Names(e, r) /\ Matches(l, e, r) /\ (l \in RateLists => ~isExpire(e))

\* The answer of the check that looks a request up in list l.
Judged(l, list, r) ==
  IF l \in RateLists THEN RateLookup(list, KeyOf(l, r), r)
  ELSE IF l = "denyNOVisitorIDURL" THEN lookupdenyNOVisitorIDURL(list, r)
  ELSE Lookup(list, {e \in list.entries : Matches(l, e, r)}, r)

\* The list that the j-th check looks the request up in, "none" if it needs none.
ListAt(g, j, r) ==
  CASE j = 1 -> "acceptIPPrefix"
    [] j = 4 -> "denyUserAgent"
    [] j = 5 -> "denyUserAgentPrefix"
    [] j = 7 -> "denyIPAddress"
    [] j = 8 -> "denyIPAddressPrefix"
    [] j = 9 -> IF isBlank(r.vid) THEN "none" ELSE "denyVisterID"
    [] j = 10 -> IF isBlank(r.vid) THEN "denyNOVisitorIDURL"
                 ELSE IF g["blockByVid"] THEN "denyIPVidRate" ELSE "denyIPAddressRate"
    [] j = 11 -> IF isBlank(r.vid) THEN "denyIPAddressRate"
                 ELSE IF g["blockByVidOnly"] THEN "denyVisterIDRate" ELSE "none"
    [] OTHER -> "none"

\* Does the j-th check say yes, when it needs no list?
PlainlyDenied(j, r) ==
  CASE j = 2 -> ~lookupacceptHttpMethod(r)
    [] j = 3 -> isBlank(r.ua)
    [] j = 6 -> isBlank(r.ip)
    [] OTHER -> FALSE

\* The j-th check of g answers what its list does.
StepIs(g, r, j) ==
  /\ ListAt(g, j, r) \in Lists \cup {"none"}
  /\ ListAt(g, j, r) = "none" => Steps(g, r)[j][2] = Answer(PlainlyDenied(j, r))
  /\ ListAt(g, j, r) # "none" =>
       Steps(g, r)[j][2] = Judged(ListAt(g, j, r), g[ListAt(g, j, r)], r)

\* A check that walks a list is that of its list when it picks the matching entries.
LEMMA WalkIs ==
  ASSUME NEW g, NEW r, NEW j, NEW l \in Lists \ RateLists, l # "denyNOVisitorIDURL",
         ListAt(g, j, r) = l,
         Steps(g, r)[j][2] = Lookup(g[l], {e \in g[l].entries : Matches(l, e, r)}, r)
  PROVE  StepIs(g, r, j)
<1>1. l # "none" /\ l \notin RateLists
  BY DEF Lists
<1>2. Judged(l, g[l], r) = Lookup(g[l], {e \in g[l].entries : Matches(l, e, r)}, r)
  BY <1>1 DEF Judged
<1> QED
  BY <1>1, <1>2 DEF StepIs

LEMMA CommonIs ==
  ASSUME NEW g, NEW r
  PROVE  /\ StepIs(g, r, 1) /\ StepIs(g, r, 2) /\ StepIs(g, r, 3)
         /\ StepIs(g, r, 4) /\ StepIs(g, r, 5) /\ StepIs(g, r, 6)
         /\ StepIs(g, r, 7) /\ StepIs(g, r, 8) /\ StepIs(g, r, 9)
<1>1. \A i \in 1 .. 9 : Steps(g, r)[i] = CommonSteps(g, r)[i]
  BY StepsShape
<1>2. StepIs(g, r, 1)
  <2>1. Steps(g, r)[1] = CommonSteps(g, r)[1]
    BY <1>1
  <2>2. CommonSteps(g, r)[1][2] = Lookup(g["acceptIPPrefix"], {e \in g["acceptIPPrefix"].entries : e.key = r.ip}, r)
    BY DEF CommonSteps
  <2>3. \A e : Matches("acceptIPPrefix", e, r) <=> e.key = r.ip
    BY DEF Matches, KeyOf
  <2>4. {e \in g["acceptIPPrefix"].entries : Matches("acceptIPPrefix", e, r)}
          = {e \in g["acceptIPPrefix"].entries : e.key = r.ip}
    BY <2>3
  <2>5. ListAt(g, 1, r) = "acceptIPPrefix" /\ "acceptIPPrefix" \in Lists \ RateLists
    BY DEF ListAt, Lists, RateLists
  <2> QED
    BY <2>1, <2>2, <2>4, <2>5, WalkIs
<1>3. StepIs(g, r, 2)
  <2>1. Steps(g, r)[2] = CommonSteps(g, r)[2]
    BY <1>1
  <2>2. CommonSteps(g, r)[2][2] = Answer(PlainlyDenied(2, r))
    BY DEF CommonSteps, PlainlyDenied
  <2>3. ListAt(g, 2, r) = "none"
    BY DEF ListAt
  <2> QED
    BY <2>1, <2>2, <2>3 DEF StepIs
<1>4. StepIs(g, r, 3)
  <2>1. Steps(g, r)[3] = CommonSteps(g, r)[3]
    BY <1>1
  <2>2. CommonSteps(g, r)[3][2] = Answer(PlainlyDenied(3, r))
    BY DEF CommonSteps, PlainlyDenied
  <2>3. ListAt(g, 3, r) = "none"
    BY DEF ListAt
  <2> QED
    BY <2>1, <2>2, <2>3 DEF StepIs
<1>5. StepIs(g, r, 4)
  <2>1. Steps(g, r)[4] = CommonSteps(g, r)[4]
    BY <1>1
  <2>2. CommonSteps(g, r)[4][2] = Lookup(g["denyUserAgent"], {e \in g["denyUserAgent"].entries : Same(e.key, r.ua)}, r)
    BY DEF CommonSteps
  <2>3. \A e : Matches("denyUserAgent", e, r) <=> Same(e.key, r.ua)
    BY DEF Matches
  <2>4. {e \in g["denyUserAgent"].entries : Matches("denyUserAgent", e, r)}
          = {e \in g["denyUserAgent"].entries : Same(e.key, r.ua)}
    BY <2>3
  <2>5. ListAt(g, 4, r) = "denyUserAgent" /\ "denyUserAgent" \in Lists \ RateLists
    BY DEF ListAt, Lists, RateLists
  <2> QED
    BY <2>1, <2>2, <2>4, <2>5, WalkIs
<1>6. StepIs(g, r, 5)
  <2>1. Steps(g, r)[5] = CommonSteps(g, r)[5]
    BY <1>1
  <2>2. CommonSteps(g, r)[5][2] = Lookup(g["denyUserAgentPrefix"], {e \in g["denyUserAgentPrefix"].entries : PrefixOf(Lower(e.key), Lower(r.ua))}, r)
    BY DEF CommonSteps
  <2>3. \A e : Matches("denyUserAgentPrefix", e, r) <=> PrefixOf(Lower(e.key), Lower(r.ua))
    BY DEF Matches
  <2>4. {e \in g["denyUserAgentPrefix"].entries : Matches("denyUserAgentPrefix", e, r)}
          = {e \in g["denyUserAgentPrefix"].entries : PrefixOf(Lower(e.key), Lower(r.ua))}
    BY <2>3
  <2>5. ListAt(g, 5, r) = "denyUserAgentPrefix" /\ "denyUserAgentPrefix" \in Lists \ RateLists
    BY DEF ListAt, Lists, RateLists
  <2> QED
    BY <2>1, <2>2, <2>4, <2>5, WalkIs
<1>7. StepIs(g, r, 6)
  <2>1. Steps(g, r)[6] = CommonSteps(g, r)[6]
    BY <1>1
  <2>2. CommonSteps(g, r)[6][2] = Answer(PlainlyDenied(6, r))
    BY DEF CommonSteps, PlainlyDenied
  <2>3. ListAt(g, 6, r) = "none"
    BY DEF ListAt
  <2> QED
    BY <2>1, <2>2, <2>3 DEF StepIs
<1>8. StepIs(g, r, 7)
  <2>1. Steps(g, r)[7] = CommonSteps(g, r)[7]
    BY <1>1
  <2>2. CommonSteps(g, r)[7][2] = Lookup(g["denyIPAddress"], {e \in g["denyIPAddress"].entries : Same(e.key, r.ip)}, r)
    BY DEF CommonSteps
  <2>3. \A e : Matches("denyIPAddress", e, r) <=> Same(e.key, r.ip)
    BY DEF Matches
  <2>4. {e \in g["denyIPAddress"].entries : Matches("denyIPAddress", e, r)}
          = {e \in g["denyIPAddress"].entries : Same(e.key, r.ip)}
    BY <2>3
  <2>5. ListAt(g, 7, r) = "denyIPAddress" /\ "denyIPAddress" \in Lists \ RateLists
    BY DEF ListAt, Lists, RateLists
  <2> QED
    BY <2>1, <2>2, <2>4, <2>5, WalkIs
<1>9. StepIs(g, r, 8)
  <2>1. Steps(g, r)[8] = CommonSteps(g, r)[8]
    BY <1>1
  <2>2. CommonSteps(g, r)[8][2] = Lookup(g["denyIPAddressPrefix"], {e \in g["denyIPAddressPrefix"].entries : PrefixOf(Lower(e.key), Lower(r.ip))}, r)
    BY DEF CommonSteps
  <2>3. \A e : Matches("denyIPAddressPrefix", e, r) <=> PrefixOf(Lower(e.key), Lower(r.ip))
    BY DEF Matches
  <2>4. {e \in g["denyIPAddressPrefix"].entries : Matches("denyIPAddressPrefix", e, r)}
          = {e \in g["denyIPAddressPrefix"].entries : PrefixOf(Lower(e.key), Lower(r.ip))}
    BY <2>3
  <2>5. ListAt(g, 8, r) = "denyIPAddressPrefix" /\ "denyIPAddressPrefix" \in Lists \ RateLists
    BY DEF ListAt, Lists, RateLists
  <2> QED
    BY <2>1, <2>2, <2>4, <2>5, WalkIs
<1>10. StepIs(g, r, 9)
  <2>1. Steps(g, r)[9] = CommonSteps(g, r)[9]
    BY <1>1
  <2>2. CommonSteps(g, r)[9][2] = isVidBlackList(g["denyVisterID"], r)
    BY DEF CommonSteps
  <2>3. CASE isBlank(r.vid)
    <3>1. ListAt(g, 9, r) = "none"
      BY <2>3 DEF ListAt
    <3>2. isVidBlackList(g["denyVisterID"], r) = Answer(PlainlyDenied(9, r))
      BY <2>3 DEF isVidBlackList, PlainlyDenied, Answer
    <3> QED
      BY <2>1, <2>2, <3>1, <3>2 DEF StepIs
  <2>4. CASE ~isBlank(r.vid)
    <3>1. isVidBlackList(g["denyVisterID"], r)
            = Lookup(g["denyVisterID"], {e \in g["denyVisterID"].entries : Same(e.key, r.vid)}, r)
      BY <2>4 DEF isVidBlackList
    <3>2. \A e : Matches("denyVisterID", e, r) <=> Same(e.key, r.vid)
      BY DEF Matches
    <3>3. {e \in g["denyVisterID"].entries : Matches("denyVisterID", e, r)}
            = {e \in g["denyVisterID"].entries : Same(e.key, r.vid)}
      BY <3>2
    <3>4. ListAt(g, 9, r) = "denyVisterID" /\ "denyVisterID" \in Lists \ RateLists
      BY <2>4 DEF ListAt, Lists, RateLists
    <3> QED
      BY <2>1, <2>2, <3>1, <3>3, <3>4, WalkIs
  <2> QED
    BY <2>3, <2>4
<1> QED
  BY <1>2, <1>3, <1>4, <1>5, <1>6, <1>7, <1>8, <1>9, <1>10

LEMMA VisitorIs ==
  ASSUME NEW g, NEW r
  PROVE  StepIs(g, r, 10) /\ StepIs(g, r, 11)
<1> USE DEF StepIs, ListAt, Judged, KeyOf, Lists, RateLists
<1>1. Steps(g, r)[10] = VisitorSteps(g, r)[1] /\ Steps(g, r)[11] = VisitorSteps(g, r)[2]
  BY StepsShape
<1>2. CASE isBlank(r.vid)
  BY <1>1, <1>2 DEF VisitorSteps, isIpRateBlackList
<1>3. CASE ~isBlank(r.vid)
  <2>1. StepIs(g, r, 10)
    BY <1>1, <1>3 DEF VisitorSteps, isIpRateBlackList
  <2>2. StepIs(g, r, 11)
    BY <1>1, <1>3 DEF VisitorSteps, PlainlyDenied, Answer
  <2> QED
    BY <2>1, <2>2
<1> QED
  BY <1>2, <1>3

LEMMA StepsAre == \A g, r : \A j \in 1 .. 11 : StepIs(g, r, j)
<1> SUFFICES ASSUME NEW g, NEW r, NEW j \in 1 .. 11 PROVE StepIs(g, r, j)
  OBVIOUS
<1>1. \/ j = 1 \/ j = 2 \/ j = 3 \/ j = 4 \/ j = 5 \/ j = 6 \/ j = 7 \/ j = 8 \/ j = 9
      \/ j = 10 \/ j = 11
  OBVIOUS
<1> QED
  BY <1>1, CommonIs, VisitorIs

\* What the walk over a list answers.
LEMMA WalkAnswers ==
  ASSUME NEW names, NEW raises
  PROVE  /\ "yes" \in Walk(names, raises) => names # {}
         /\ raises = {} => Walk(names, raises) = Answer(names # {})
BY DEF Walk, Answer

\* The entries at which the walk over list l says yes, and those at which it raises
\* an error.
Raising(l, list, r) ==
  IF l \in RateLists
    THEN {e \in {x \in list.entries : x.key = KeyOf(l, r)} :
            e.domains = NoArray \/ (Names(e, r) /\ e.until = Undated)}
  ELSE {e \in {x \in list.entries : Matches(l, x, r)} : e.domains = NoArray}
         \cup (IF l = "denyNOVisitorIDURL" THEN {e \in list.entries : e.method = NoMethod} ELSE {})
Saying(l, list, r) ==
  IF l \in RateLists
    THEN {e \in {x \in list.entries : x.key = KeyOf(l, r)} :
            Names(e, r) /\ e.until # Undated /\ ~isExpire(e)}
  ELSE {e \in {x \in list.entries : Matches(l, x, r)} : Names(e, r)}

LEMMA JudgedWalks ==
  ASSUME NEW l \in Lists, NEW list, NEW r
  PROVE  Judged(l, list, r) = IF list = Illtyped THEN {"raise"}
                              ELSE Walk(Saying(l, list, r), Raising(l, list, r))
<1>1. CASE l \in RateLists
  BY <1>1 DEF Judged, RateLookup, Saying, Raising
<1>2. CASE l = "denyNOVisitorIDURL"
  <2>1. l \notin RateLists
    BY <1>2 DEF RateLists
  <2>2. \A e : Matches(l, e, r) <=> /\ e.method # NoMethod
                                    /\ Lower(e.method) = "all" \/ Same(e.method, r.method)
                                    /\ PrefixOf(Lower(e.key), Lower(r.url))
    BY <1>2 DEF Matches
  <2>3. {e \in list.entries : Matches(l, e, r)} =
          {e \in list.entries :
             /\ e.method # NoMethod /\ (Lower(e.method) = "all" \/ Same(e.method, r.method))
             /\ PrefixOf(Lower(e.key), Lower(r.url))}
    BY <2>2
  <2> QED
    BY <1>2, <2>1, <2>3 DEF Judged, lookupdenyNOVisitorIDURL, Saying, Raising
<1>3. CASE l \notin RateLists /\ l # "denyNOVisitorIDURL"
  <2>1. Raising(l, list, r) = {e \in {x \in list.entries : Matches(l, x, r)} : e.domains = NoArray}
    BY <1>3 DEF Raising
  <2> QED
    BY <1>3, <2>1 DEF Judged, Lookup, Saying
<1> QED
  BY <1>1, <1>2, <1>3

LEMMA SayingCatches ==
  ASSUME NEW l \in Lists, NEW list, NEW r
  PROVE  /\ \A e \in Saying(l, list, r) : e \in list.entries /\ Catches(l, e, r)
         /\ \A e \in list.entries : Catches(l, e, r) /\ e.until # Undated => e \in Saying(l, list, r)
<1>1. CASE l \in RateLists
  <2>1. \A e : Matches(l, e, r) <=> e.key = KeyOf(l, r)
    BY <1>1 DEF Matches, RateLists
  <2> QED
    BY <1>1, <2>1 DEF Saying, Catches
<1>2. CASE l \notin RateLists
  BY <1>2 DEF Saying, Catches
<1> QED
  BY <1>1, <1>2

\* A well-formed list never makes its check raise an error.
LEMMA WellformedJudges ==
  ASSUME NEW l \in Lists, NEW list, Wellformed(list), NEW r
  PROVE  Judged(l, list, r) = Answer(\E e \in list.entries : Catches(l, e, r))
<1>1. /\ list # Illtyped
      /\ \A e \in list.entries : e.until # Undated /\ e.method # NoMethod /\ e.domains # NoArray
  BY DEF Wellformed
<1>2. Raising(l, list, r) = {}
  BY <1>1 DEF Raising
<1>3. Judged(l, list, r) = Answer(Saying(l, list, r) # {})
  BY <1>1, <1>2, JudgedWalks, WalkAnswers
<1>4. (Saying(l, list, r) # {}) <=> \E e \in list.entries : Catches(l, e, r)
  BY <1>1, SayingCatches
<1> QED
  BY <1>3, <1>4 DEF Answer

\* Whatever a list is like, it says yes only for an entry that catches the request.
LEMMA YesCatches ==
  ASSUME NEW l \in Lists, NEW list, NEW r, "yes" \in Judged(l, list, r)
  PROVE  \E e \in list.entries : Catches(l, e, r)
<1>1. Saying(l, list, r) # {}
  BY JudgedWalks, WalkAnswers
<1> QED
  BY <1>1, SayingCatches

\* With well-formed lists block() raises no error.
LEMMA WellformedSteps ==
  ASSUME NEW g, NEW r, \A l \in Lists : Wellformed(g[l])
  PROVE  \A j \in 1 .. 11 : "raise" \notin Steps(g, r)[j][2]
<1> TAKE j \in 1 .. 11
<1>1. StepIs(g, r, j)
  BY StepsAre
<1>2. \A b : "raise" \notin Answer(b)
  BY DEF Answer
<1>3. \A l \in Lists : "raise" \notin Judged(l, g[l], r)
  BY <1>2, WellformedJudges
<1> QED
  BY <1>1, <1>2, <1>3 DEF StepIs
-----------------------------------------------------------------------------
(* How the policy in L and the policy that was delivered may differ.       *)

\* A key that was not hurt has one value on both sides.  One that was is back
\* at its default in L, unless what was delivered last does not decode: then L
\* may still have an older value.  Without block.lua L has its error message.
Agreement ==
  /\ \A k \in Policy :
       IF k \in hurt THEN lua[k] = Default(k) \/ (k \in Lists /\ delivered[k] = Unparsable)
                     ELSE lua[k] = delivered[k]
  /\ ~loaded => junk /\ lua = Fresh

LEMMA AgreementInit == Init => Agreement
BY FreshType DEF Init, Agreement

LEMMA AgreementStep == TypeOK /\ Agreement /\ [Next]_vars => Agreement'
<1> SUFFICES ASSUME TypeOK, Agreement, [Next]_vars PROVE Agreement'
  OBVIOUS
<1>1. ASSUME NEW k, NEW v, Update(k, v) PROVE Agreement'
  <2>0. loaded' = loaded
    BY <1>1 DEF Update
  <2>1. CASE UNCHANGED <<lua, delivered, hurt, junk>>
    BY <2>0, <2>1 DEF Agreement
  <2>3. CASE junk' = (junk \/ Fails(k, v)) /\ UNCHANGED <<lua, delivered, hurt>>
    <3>1. junk => junk'
      BY <2>3
    <3> QED
      BY <2>0, <2>3, <3>1 DEF Agreement
  <2>2. CASE k \in Policy /\ delivered' = [delivered EXCEPT ![k] = v]
    <3>1. DOMAIN delivered = Policy /\ DOMAIN lua = Policy
      BY DEF TypeOK
    <3>2. CASE Fails(k, v) /\ junk' = TRUE /\ hurt' = hurt \cup {k} /\ UNCHANGED lua
      <4>1. lua[k] = Default(k) \/ (k \in Lists /\ v = Unparsable)
        <5>1. CASE ~loaded
          BY <2>2, <5>1, FreshType DEF Agreement
        <5>2. CASE loaded
          BY <2>2, <3>2, <5>2 DEF Fails, Policy
        <5> QED
          BY <5>1, <5>2
      <4> QED
        BY <2>0, <2>2, <3>1, <3>2, <4>1 DEF Agreement
    <3>3. CASE ~Fails(k, v) /\ lua' = decode(k, v) /\ hurt' = hurt \ {k} /\ UNCHANGED junk
      <4>1. lua' = [lua EXCEPT ![k] = v] /\ loaded
        BY <3>3 DEF decode, Fails
      <4> QED
        BY <2>0, <2>2, <3>1, <3>3, <4>1 DEF Agreement
    <3> QED
      BY <1>1, <2>2, <3>2, <3>3, KeysApart DEF Update
  <2> QED
    BY <1>1, <2>1, <2>2, <2>3 DEF Update
<1>2. ASSUME NEW r \in Requests, Request(r) PROVE Agreement'
  <2>1. delivered' = delivered /\ (Reload \/ UNCHANGED luaVars)
    BY <1>2 DEF Request
  <2>2. CASE Reload
    BY <2>1, <2>2, FreshType DEF Reload, Agreement
  <2>3. CASE UNCHANGED luaVars
    BY <2>1, <2>3 DEF luaVars, Agreement
  <2> QED
    BY <2>1, <2>2, <2>3
<1>3. ASSUME NEW c, Command(c) PROVE Agreement'
  BY <1>3 DEF Command, luaVars, Agreement
<1>4. CASE Tick
  BY <1>4 DEF Tick, luaVars, Agreement
<1>5. CASE UNCHANGED vars
  BY <1>5 DEF vars, luaVars, Agreement
<1> QED
  BY <1>1, <1>2, <1>3, <1>4, <1>5 DEF Next

\* The policy in L is the delivered one but for the values an error cost it.
THEOREM Agrees == Spec => []Agreement
BY TypeCorrect, AgreementInit, AgreementStep, PTL DEF Spec
-----------------------------------------------------------------------------
(* Nothing is lost as long as what is delivered is well-formed.            *)

WellformedDeliveries == \A u \in Deliveries : u[1] \in Lists \cup Unused => Wellformed(u[2])

\* No message on the stack of L, and every list one that block() can walk.
Undamaged ==
  loaded /\ ~junk /\ lua = delivered /\ \A l \in Lists : Wellformed(lua[l])

LEMMA EmptyWellformed == Wellformed(List({}))
BY DEF Wellformed, List, Unparsable, Illtyped

\* With well-formed lists block() does not come to 0.
LEMMA NoZero ==
  ASSUME NEW g, NEW r, \A l \in Lists : Wellformed(g[l])
  PROVE  0 \notin block(g, r)
<1>1. block(g, r) = Chain(Steps(g, r))
  BY DEF block, Steps
<1>2. DOMAIN Steps(g, r) = 1 .. 11
  BY StepsShape
<1>3. \A j \in 1 .. 11 : "raise" \notin Steps(g, r)[j][2]
  BY WellformedSteps
<1>4. Steps(g, r)[1][1] = 201 /\ \A j \in 2 .. 11 : Steps(g, r)[j][1] \in DenyCodes
  BY StepsShape
<1>5. 0 \notin DenyCodes
  BY DEF DenyCodes
<1>6. \A j \in 1 .. 11 : j = 1 \/ j \in 2 .. 11
  OBVIOUS
<1>7. \A j \in 1 .. 11 : Steps(g, r)[j][1] # 0
  BY <1>4, <1>5, <1>6
<1> QED
  BY <1>1, <1>2, <1>3, <1>7, ChainWithoutRaise

LEMMA UndamagedInit == Init => Undamaged
BY FreshType, EmptyWellformed DEF Init, Undamaged

LEMMA UndamagedStep ==
  WellformedDeliveries /\ TypeOK /\ Undamaged /\ [Next]_vars => Undamaged'
<1> SUFFICES ASSUME WellformedDeliveries, TypeOK, Undamaged, [Next]_vars PROVE Undamaged'
  OBVIOUS
<1>1. ASSUME NEW k, NEW v, Update(k, v) PROVE Undamaged'
  <2>0. loaded' = loaded
    BY <1>1 DEF Update
  <2>1. k \in Lists \cup Unused => Wellformed(v)
    BY <1>1 DEF Update, WellformedDeliveries
  <2>2. k \in Policy \cup Unused => ~Fails(k, v)
    BY <2>1 DEF Fails, Wellformed, Undamaged, Policy
  <2>3. CASE UNCHANGED <<lua, junk, delivered>>
    BY <2>0, <2>3 DEF Undamaged
  <2>4. CASE k \in Unused /\ junk' = (junk \/ Fails(k, v)) /\ UNCHANGED <<lua, delivered>>
    BY <2>0, <2>2, <2>4 DEF Undamaged
  <2>5. CASE k \in Policy /\ delivered' = [delivered EXCEPT ![k] = v]
    <3>1. lua' = [lua EXCEPT ![k] = v] /\ junk' = junk /\ DOMAIN lua = Policy
      BY <1>1, <2>2, <2>5, KeysApart DEF Update, decode, TypeOK
    <3>2. ASSUME NEW l \in Lists PROVE Wellformed(lua'[l])
      BY <2>1, <2>5, <3>1 DEF Undamaged, Policy
    <3> QED
      BY <2>0, <2>5, <3>1, <3>2 DEF Undamaged
  <2> QED
    BY <1>1, <2>3, <2>4, <2>5 DEF Update
<1>2. ASSUME NEW r \in Requests, Request(r) PROVE Undamaged'
  <2>1. 0 \notin Judge(r)
    BY NoZero DEF Judge, Undamaged
  <2>2. UNCHANGED <<lua, loaded, junk, delivered>>
    BY <1>2, <2>1 DEF Request, Replaces, luaVars
  <2> QED
    BY <2>2 DEF Undamaged
<1>3. ASSUME NEW c, Command(c) PROVE Undamaged'
  BY <1>3 DEF Command, luaVars, Undamaged
<1>4. CASE Tick
  BY <1>4 DEF Tick, luaVars, Undamaged
<1>5. CASE UNCHANGED vars
  BY <1>5 DEF vars, luaVars, Undamaged
<1> QED
  BY <1>1, <1>2, <1>3, <1>4, <1>5 DEF Next

\* As long as every delivery is well-formed, no judgement and no order of
\* updates makes the lists block() judges by differ from the ones delivered last.
THEOREM KeepsPolicy == Spec => []Kept
<1>1. CASE WellformedDeliveries
  <2>1. TypeOK /\ Undamaged /\ [Next]_vars => Undamaged'
    BY <1>1, UndamagedStep
  <2>2. Undamaged => Kept
    BY DEF Undamaged, Kept
  <2> QED
    BY <2>1, <2>2, TypeCorrect, UndamagedInit, PTL DEF Spec
<1>2. CASE ~WellformedDeliveries
  <2>1. Kept
    BY <1>2 DEF Kept, WellformedDeliveries
  <2> QED
    BY <2>1, PTL
<1> QED
  BY <1>1, <1>2
-----------------------------------------------------------------------------
(* Who is banned is denied, and who is denied is banned.                   *)

\* The entries of a list that was delivered have dates one can compare.
LEMMA EntriesDated ==
  ASSUME NEW l \in Lists, NEW v \in ValuesOf(l), NEW e \in v.entries
  PROVE  e.until \in Int
<1>1. CASE v = Default(l)
  BY <1>1 DEF Default, List
<1>2. CASE v # Default(l)
  <2>1. PICK u \in Deliveries : u[1] = l /\ u[2] = v
    BY <1>2 DEF ValuesOf
  <2> QED
    BY <2>1, DeliveriesAssumption
<1> QED
  BY <1>1, <1>2

\* The list of entry e is looked at by a check.
LEMMA BansLooked ==
  ASSUME NEW g, NEW l \in DenyLists, NEW e, NEW r, Bans(g, l, e, r)
  PROVE  \E j \in 2 .. 11 : ListAt(g, j, r) = l
<1>2. CASE l = "denyUserAgent"
  BY <1>2 DEF ListAt
<1>3. CASE l = "denyUserAgentPrefix"
  BY <1>3 DEF ListAt
<1>4. CASE l = "denyIPAddress"
  BY <1>4 DEF ListAt
<1>5. CASE l = "denyIPAddressPrefix"
  BY <1>5 DEF ListAt
<1>6. CASE l = "denyVisterID"
  <2>1. ~isBlank(r.vid)
    BY <1>6 DEF Bans, isBlank
  <2>2. ListAt(g, 9, r) = l
    BY <1>6, <2>1 DEF ListAt
  <2> QED
    BY <2>2
<1>7. CASE l = "denyNOVisitorIDURL"
  <2>1. isBlank(r.vid)
    BY <1>7 DEF Bans, isBlank
  <2>2. ListAt(g, 10, r) = l
    BY <1>7, <2>1 DEF ListAt
  <2> QED
    BY <2>2
<1>8. CASE l = "denyIPAddressRate"
  <2>1. CASE isBlank(r.vid)
    <3>1. ListAt(g, 11, r) = l
      BY <1>8, <2>1 DEF ListAt
    <3> QED
      BY <3>1
  <2>2. CASE ~isBlank(r.vid)
    <3>1. ~g["blockByVid"]
      BY <1>8, <2>2 DEF Bans, isBlank
    <3>2. ListAt(g, 10, r) = l
      BY <1>8, <2>2, <3>1 DEF ListAt
    <3> QED
      BY <3>2
  <2> QED
    BY <2>1, <2>2
<1>9. CASE l = "denyIPVidRate"
  <2>1. ~isBlank(r.vid) /\ g["blockByVid"]
    BY <1>9 DEF Bans, isBlank
  <2>2. ListAt(g, 10, r) = l
    BY <1>9, <2>1 DEF ListAt
  <2> QED
    BY <2>2
<1>10. CASE l = "denyVisterIDRate"
  <2>1. ~isBlank(r.vid) /\ g["blockByVidOnly"]
    BY <1>10 DEF Bans, isBlank
  <2>2. ListAt(g, 11, r) = l
    BY <1>10, <2>1 DEF ListAt
  <2> QED
    BY <2>2
<1> QED
  BY <1>2, <1>3, <1>4, <1>5, <1>6, <1>7, <1>8, <1>9, <1>10 DEF DenyLists, Lists

\* What bans a request is what its list's check searches for.
LEMMA BansCatches ==
  ASSUME now \in Int, NEW l \in DenyLists, NEW g, NEW e, e.until \in Int, NEW r,
         Bans(g, l, e, r)
  PROVE  Catches(l, e, r)
<1>1. Names(e, r)
  BY DEF Bans
<1>2. l \in {"denyUserAgent", "denyUserAgentPrefix", "denyIPAddress", "denyIPAddressPrefix",
             "denyVisterID", "denyNOVisitorIDURL"} => Matches(l, e, r) /\ l \notin RateLists
  BY DEF Bans, Matches, RateLists
<1>3. ASSUME l \in RateLists PROVE e.key = KeyOf(l, r) /\ e.until > now
  BY <1>3 DEF Bans, RateLists, KeyOf, IpVid
<1>4. l \in RateLists => Matches(l, e, r) /\ ~isExpire(e)
  BY <1>3 DEF Matches, RateLists, isExpire
<1> QED
  BY <1>1, <1>2, <1>4 DEF Catches, DenyLists, Lists, RateLists

\* What the check searches for is what bans the request.
LEMMA CatchesBans ==
  ASSUME now \in Int, NEW g, NEW l \in DenyLists, NEW e, e.until \in Int, NEW r,
         Catches(l, e, r), NEW j \in 1 .. 11, ListAt(g, j, r) = l
  PROVE  Bans(g, l, e, r)
<1>1. Names(e, r)
  BY DEF Catches
<1>2. CASE l \in {"denyUserAgent", "denyUserAgentPrefix", "denyIPAddress", "denyIPAddressPrefix"}
  BY <1>1, <1>2 DEF Catches, Matches, Bans
<1>3. CASE l = "denyVisterID"
  <2>1. r.vid # Blank
    BY <1>3 DEF ListAt, isBlank
  <2> QED
    BY <1>1, <1>3, <2>1 DEF Catches, Matches, Bans
<1>4. CASE l = "denyNOVisitorIDURL"
  <2>1. r.vid = Blank
    BY <1>4 DEF ListAt, isBlank
  <2> QED
    BY <1>1, <1>4, <2>1 DEF Catches, Matches, Bans
<1>5. CASE l \in RateLists
  <2>1. e.key = KeyOf(l, r)
    BY <1>5 DEF Catches, Matches, RateLists
  <2>2. e.until > now
    BY <1>5 DEF Catches, isExpire
  <2>3. CASE l = "denyIPAddressRate"
    <3>1. r.vid = Blank \/ ~g["blockByVid"]
      BY <2>3 DEF ListAt, isBlank
    <3> QED
      BY <1>1, <2>1, <2>2, <2>3, <3>1 DEF Bans, KeyOf
  <2>4. CASE l = "denyIPVidRate"
    <3>1. r.vid # Blank /\ g["blockByVid"]
      BY <2>4 DEF ListAt, isBlank
    <3> QED
      BY <1>1, <2>1, <2>2, <2>4, <3>1 DEF Bans, KeyOf, IpVid
  <2>5. CASE l = "denyVisterIDRate"
    <3>1. r.vid # Blank /\ g["blockByVidOnly"]
      BY <2>5 DEF ListAt, isBlank
    <3> QED
      BY <1>1, <2>1, <2>2, <2>5, <3>1 DEF Bans, KeyOf
  <2> QED
    BY <1>5, <2>3, <2>4, <2>5 DEF RateLists
<1> QED
  BY <1>2, <1>3, <1>4, <1>5 DEF DenyLists, Lists, RateLists

LEMMA EnforcedHolds == TypeOK /\ Agreement => Enforced
<1> SUFFICES ASSUME TypeOK, Agreement, ~junk, Flags \cap hurt = {},
                    \A l \in Lists : Wellformed(delivered[l]),
                    NEW r \in Requests, Banned(r), ~Accepted(r)
             PROVE  Judge(r) \subseteq DenyCodes
  BY DEF Enforced
<1>1. \A f \in Flags : lua[f] = delivered[f]
  BY DEF Agreement, Policy
<1>2. \A l \in Lists : lua[l] = delivered[l] \/ lua[l] = List({})
  BY DEF Agreement, Policy, Wellformed, Default
<1>3. \A l \in Lists : Wellformed(lua[l])
  BY <1>2, EmptyWellformed
<1>4. PICK l \in DenyLists \ hurt : \E e \in delivered[l].entries : Bans(delivered, l, e, r)
  BY DEF Banned
<1>5. PICK e \in delivered[l].entries : Bans(delivered, l, e, r)
  BY <1>4
<1>6. l \in Lists /\ lua[l] = delivered[l]
  BY DEF DenyLists, Agreement, Policy
<1>7. now \in Int
  BY DEF TypeOK
<1>8. e.until \in Int
  <2>1. delivered[l] \in ValuesOf(l)
    BY <1>6 DEF TypeOK, Policy
  <2> QED
    BY <1>6, <2>1, EntriesDated
<1>9. Catches(l, e, r)
  BY <1>5, <1>7, <1>8, BansCatches
<1>10. PICK j \in 2 .. 11 : ListAt(lua, j, r) = l
  <2>1. PICK j \in 2 .. 11 : ListAt(delivered, j, r) = l
    BY <1>5, BansLooked
  <2>2. ListAt(lua, j, r) = ListAt(delivered, j, r)
    BY <1>1 DEF ListAt, Flags
  <2> QED
    BY <2>1, <2>2
<1>11. Steps(lua, r)[j][2] = {"yes"}
  <2>1. Steps(lua, r)[j][2] = Judged(l, lua[l], r)
    <3>1. StepIs(lua, r, j)
      BY StepsAre
    <3>2. l # "none"
      BY <1>6 DEF Lists
    <3> QED
      BY <1>10, <3>1, <3>2 DEF StepIs
  <2>2. Judged(l, lua[l], r) = Answer(\E x \in lua[l].entries : Catches(l, x, r))
    BY <1>3, <1>6, WellformedJudges
  <2>3. \E x \in lua[l].entries : Catches(l, x, r)
    BY <1>6, <1>9
  <2> QED
    BY <2>1, <2>2, <2>3 DEF Answer
<1>12. "yes" \notin Steps(lua, r)[1][2]
  <2> DEFINE a == "acceptIPPrefix"
  <2>1. a \in Lists
    BY DEF Lists
  <2>2. \A x \in lua[a].entries : ~Catches(a, x, r)
    <3>1. lua[a].entries \subseteq delivered[a].entries
      BY <1>2, <2>1 DEF List
    <3>2. \A x : Matches(a, x, r) <=> x.key = r.ip
      BY DEF Matches, KeyOf
    <3> QED
      BY <3>1, <3>2 DEF Accepted, Catches
  <2>3. Steps(lua, r)[1][2] = Judged(a, lua[a], r)
    <3>1. StepIs(lua, r, 1)
      BY StepsAre
    <3>2. ListAt(lua, 1, r) = a /\ a # "none"
      BY DEF ListAt
    <3> QED
      BY <3>1, <3>2 DEF StepIs
  <2>4. Judged(a, lua[a], r) = Answer(\E x \in lua[a].entries : Catches(a, x, r))
    BY <1>3, <2>1, WellformedJudges
  <2> QED
    BY <2>2, <2>3, <2>4 DEF Answer
<1>13. /\ Steps(lua, r) \in Seq(Step) /\ DOMAIN Steps(lua, r) = 1 .. 11
       /\ \A i \in 2 .. 11 : Steps(lua, r)[i][1] \in DenyCodes
  BY StepsShape
<1>14. \A i \in 1 .. 11 : "raise" \notin Steps(lua, r)[i][2]
  BY <1>3, WellformedSteps
<1>15. \A i \in 1 .. 11 : "yes" \in Steps(lua, r)[i][2] => Steps(lua, r)[i][1] \in DenyCodes
  <2>1. \A i \in 1 .. 11 : i = 1 \/ i \in 2 .. 11
    OBVIOUS
  <2> QED
    BY <1>12, <1>13, <2>1
<1>16. Chain(Steps(lua, r)) \subseteq DenyCodes
  <2>1. j \in 1 .. 11
    OBVIOUS
  <2> QED
    BY <1>11, <1>13, <1>14, <1>15, <2>1, ChainDenies
<1> QED
  BY <1>16 DEF Judge, block, Steps

\* A request on a ban list that was delivered to L is denied unless its address
\* is accepted: whatever failed before, once the lists are well-formed again, the
\* stack of L is clean and the flags have been delivered to it.
THEOREM EnforcesBans == Spec => []Enforced
BY TypeCorrect, Agrees, EnforcedHolds, PTL

\* Bans depends on the flags alone.
LEMMA BansFlags ==
  ASSUME NEW g, NEW h, \A f \in Flags : g[f] = h[f], NEW l \in DenyLists, NEW e, NEW r,
         Bans(g, l, e, r)
  PROVE  Bans(h, l, e, r)
<1>1. g["blockByVid"] = h["blockByVid"] /\ g["blockByVidOnly"] = h["blockByVidOnly"]
  BY DEF Flags
<1> QED
  BY <1>1 DEF Bans

LEMMA JustifiedHolds == TypeOK /\ Agreement => Justified
<1> SUFFICES ASSUME TypeOK, Agreement, NEW r \in Requests, Judge(r) \cap DenyCodes # {},
                    Lower(r.method) \in {"post", "get"}, Blank \notin {r.ua, r.ip}
             PROVE  \E l \in DenyLists :
                      \E e \in (IF l \in hurt THEN lua ELSE delivered)[l].entries :
                        Bans(IF Flags \cap hurt # {} THEN lua ELSE delivered, l, e, r)
  BY DEF Justified
<1>1. PICK code \in Judge(r) : code \in DenyCodes
  OBVIOUS
<1>2. code \in Chain(Steps(lua, r))
  BY <1>1 DEF Judge, block, Steps, DenyCodes
<1>3. PICK i \in DOMAIN Steps(lua, r) : "yes" \in Steps(lua, r)[i][2] /\ Steps(lua, r)[i][1] = code
  BY <1>1, <1>2, ChainDenied
<1>4. i \in 1 .. 11 /\ i # 1
  <2>1. Len(Steps(lua, r)) = 11 /\ Steps(lua, r) \in Seq(Step) /\ Steps(lua, r)[1][1] = 201
    BY StepsShape
  <2>2. 201 \notin DenyCodes
    BY DEF DenyCodes
  <2> QED
    BY <1>1, <1>3, <2>1, <2>2
<1>5. StepIs(lua, r, i)
  BY <1>4, StepsAre
<1> DEFINE l == ListAt(lua, i, r)
<1>6. l # "none"
  <2>1. ~PlainlyDenied(i, r)
    BY DEF PlainlyDenied, isBlank, lookupacceptHttpMethod
  <2>2. "yes" \notin Answer(PlainlyDenied(i, r))
    BY <2>1 DEF Answer
  <2> QED
    BY <1>3, <1>5, <2>2 DEF StepIs
<1>7. l \in Lists /\ "yes" \in Judged(l, lua[l], r)
  BY <1>3, <1>5, <1>6 DEF StepIs
<1>8. PICK e \in lua[l].entries : Catches(l, e, r)
  BY <1>7, YesCatches
<1>9. l \in DenyLists
  <2>1. l # "acceptIPPrefix"
    BY <1>4 DEF ListAt
  <2> QED
    BY <1>7, <2>1 DEF DenyLists
<1>10. e \in (IF l \in hurt THEN lua ELSE delivered)[l].entries
  BY <1>7, <1>8 DEF Agreement, Policy
<1>11. e.until \in Int
  <2>1. lua[l] \in ValuesOf(l)
    BY <1>7 DEF TypeOK, Policy
  <2> QED
    BY <1>7, <1>8, <2>1, EntriesDated
<1>12. now \in Int
  BY DEF TypeOK
<1> HIDE DEF l
<1>13. Bans(lua, l, e, r)
  <2>1. ListAt(lua, i, r) = l
    BY DEF l
  <2> QED
    BY <1>4, <1>8, <1>9, <1>11, <1>12, <2>1, CatchesBans
<1>14. Bans(IF Flags \cap hurt # {} THEN lua ELSE delivered, l, e, r)
  <2>1. Flags \cap hurt = {} => \A f \in Flags : lua[f] = delivered[f]
    BY DEF Agreement, Policy
  <2> QED
    BY <1>9, <1>13, <2>1, BansFlags
<1> QED
  BY <1>9, <1>10, <1>14

\* A request is denied only for what it is, or by an entry of a list under the
\* flags: those delivered last, or those that L still has when an error cost it
\* the last ones.
THEOREM JustifiesDenials == Spec => []Justified
BY TypeCorrect, Agrees, JustifiedHolds, PTL
-----------------------------------------------------------------------------
(* One more ban lets nobody through.                                       *)

\* The statuses that the checks stand for depend on the flags only.
LEMMA CodesAre ==
  ASSUME NEW g, NEW h, NEW r, g["blockByVid"] = h["blockByVid"], NEW j \in 1 .. 11
  PROVE  Steps(g, r)[j][1] = Steps(h, r)[j][1]
<1>1. \A f : \A i \in 1 .. 9 : Steps(f, r)[i] = CommonSteps(f, r)[i]
  <2> TAKE f
  <2> QED
    BY StepsShape
<1>2. \A f : /\ CommonSteps(f, r)[1][1] = 201 /\ CommonSteps(f, r)[2][1] = 406
             /\ CommonSteps(f, r)[3][1] = 401 /\ CommonSteps(f, r)[4][1] = 401
             /\ CommonSteps(f, r)[5][1] = 401 /\ CommonSteps(f, r)[6][1] = 403
             /\ CommonSteps(f, r)[7][1] = 403 /\ CommonSteps(f, r)[8][1] = 403
             /\ CommonSteps(f, r)[9][1] = 407
  BY DEF CommonSteps
<1>3. /\ Steps(g, r)[10] = VisitorSteps(g, r)[1] /\ Steps(g, r)[11] = VisitorSteps(g, r)[2]
      /\ Steps(h, r)[10] = VisitorSteps(h, r)[1] /\ Steps(h, r)[11] = VisitorSteps(h, r)[2]
  BY StepsShape
<1>4. VisitorSteps(g, r)[1][1] = VisitorSteps(h, r)[1][1]
  BY DEF VisitorSteps
<1>5. VisitorSteps(g, r)[2][1] = VisitorSteps(h, r)[2][1]
  BY DEF VisitorSteps
<1>6. \A i \in 1 .. 9 : CommonSteps(g, r)[i][1] = CommonSteps(h, r)[i][1]
  <2> TAKE i \in 1 .. 9
  <2>1. \/ i = 1 \/ i = 2 \/ i = 3 \/ i = 4 \/ i = 5 \/ i = 6 \/ i = 7 \/ i = 8 \/ i = 9
    OBVIOUS
  <2> QED
    BY <2>1, <1>2
<1>7. j \in 1 .. 9 \/ j = 10 \/ j = 11
  OBVIOUS
<1> QED
  BY <1>1, <1>3, <1>4, <1>5, <1>6, <1>7

LEMMA MonotoneHolds == TypeOK => Monotone
<1> SUFFICES ASSUME TypeOK, NEW u \in Deliveries, u[1] \in DenyLists, Wellformed(u[2]),
                    Wellformed(lua[u[1]]), lua[u[1]].entries \subseteq u[2].entries,
                    NEW r \in Requests, block(lua, r) \subseteq DenyCodes
             PROVE  block([lua EXCEPT ![u[1]] = u[2]], r) \subseteq DenyCodes
  BY DEF Monotone
<1> DEFINE k == u[1]
           h == [lua EXCEPT ![k] = u[2]]
           s == Steps(lua, r)
           t == Steps(h, r)
<1>1. k \in Lists /\ k # "acceptIPPrefix"
  BY DEF DenyLists
<1>2. h[k] = u[2] /\ \A x \in Policy : x # k => h[x] = lua[x]
  BY <1>1 DEF TypeOK, Policy
<1>3. h["blockByVid"] = lua["blockByVid"] /\ h["blockByVidOnly"] = lua["blockByVidOnly"]
  <2>1. {"blockByVid", "blockByVidOnly"} \subseteq Policy
    BY DEF Policy, Flags
  <2>2. k \notin {"blockByVid", "blockByVidOnly"}
    BY <1>1, KeysApart DEF Flags
  <2> QED
    BY <1>2, <2>1, <2>2
<1>4. Wellformed(h[k]) /\ Wellformed(lua[k]) /\ lua[k].entries \subseteq h[k].entries
  BY <1>2
<1> HIDE DEF k, h
<1>5. \A j : ListAt(h, j, r) = ListAt(lua, j, r)
  BY <1>3 DEF ListAt
<1>6. /\ s \in Seq(Step) /\ t \in Seq(Step) /\ Len(s) = 11 /\ Len(t) = 11
      /\ \A j \in 2 .. 11 : s[j][1] \in DenyCodes
  BY StepsShape
<1>7. ASSUME NEW j \in 1 .. 11
      PROVE  /\ s[j][1] = t[j][1]
             /\ "no" \in t[j][2] => "no" \in s[j][2]
             /\ "raise" \in t[j][2] => "raise" \in s[j][2]
             /\ s[j][1] \in DenyCodes \/ s[j][2] = t[j][2]
  <2>1. s[j][1] = t[j][1]
    BY <1>3, CodesAre
  <2>2. StepIs(lua, r, j) /\ StepIs(h, r, j)
    BY StepsAre
  <2> DEFINE l == ListAt(lua, j, r)
  <2>3. CASE l = "none"
    <3>1. s[j][2] = t[j][2]
      BY <1>5, <2>2, <2>3 DEF StepIs
    <3> QED
      BY <2>1, <3>1
  <2>4. CASE l # "none" /\ l # k
    <3>1. l \in Policy
      BY <2>2, <2>4 DEF StepIs, Policy
    <3>2. h[l] = lua[l]
      BY <1>2, <2>4, <3>1
    <3>3. s[j][2] = t[j][2]
      BY <1>5, <2>2, <2>4, <3>2 DEF StepIs
    <3> QED
      BY <2>1, <3>3
  <2>5. CASE l = k
    <3>1. k # "none"
      BY <1>1 DEF Lists
    <3>2. s[j][2] = Judged(k, lua[k], r) /\ t[j][2] = Judged(k, h[k], r)
      BY <1>5, <2>2, <2>5, <3>1 DEF StepIs
    <3>3. Judged(k, lua[k], r) = Answer(\E e \in lua[k].entries : Catches(k, e, r))
      BY <1>1, <1>4, WellformedJudges
    <3>4. Judged(k, h[k], r) = Answer(\E e \in h[k].entries : Catches(k, e, r))
      BY <1>1, <1>4, WellformedJudges
    <3>5. (\E e \in lua[k].entries : Catches(k, e, r)) => \E e \in h[k].entries : Catches(k, e, r)
      BY <1>4
    <3>6. ("no" \in t[j][2] => "no" \in s[j][2]) /\ "raise" \notin t[j][2]
      BY <3>2, <3>3, <3>4, <3>5 DEF Answer
    <3>7. j # 1
      BY <1>1, <2>5 DEF ListAt
    <3>8. s[j][1] \in DenyCodes
      <4>1. j \in 2 .. 11
        BY <3>7
      <4> QED
        BY <1>6, <4>1
    <3> QED
      BY <2>1, <3>6, <3>8
  <2> QED
    BY <2>3, <2>4, <2>5
<1>8. Chain(s) \subseteq DenyCodes
  BY DEF block, Steps
<1> HIDE DEF s, t
<1>9. Chain(t) \subseteq DenyCodes
  BY <1>6, <1>7, <1>8, ChainMonotone
<1> QED
  BY <1>9 DEF t, h, k, block, Steps

\* One more ban, on any list that denies, lets no request through that is denied
\* without it.
THEOREM BansAreMonotone == Spec => []Monotone
BY TypeCorrect, MonotoneHolds, PTL
=============================================================================
