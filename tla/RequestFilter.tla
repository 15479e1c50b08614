----------------------------- MODULE RequestFilter -----------------------------
(***************************************************************************)
(* The filter of one worker: what doFilter does with a request, and how    *)
(* update_zk_value changes the policy it applies.                          *)
(*                                                                         *)
(* block() of block.lua judges by the lists that the Lua state L keeps     *)
(* decoded.  They part from what was delivered when a Lua call fails.  A   *)
(* list that does not decode leaves Lua's copy as it was, and its error    *)
(* message on the stack of L (set_table pops nothing).  A message at the   *)
(* bottom of the stack is what handleBlockRequestIfNeeded reads as the     *)
(* next judgement: it counts as 0, and on 0 the request goes on and L is   *)
(* replaced by a fresh one that knows no list.  So does a list or an entry *)
(* that block() cannot walk, when block() meets it.  If block.lua cannot   *)
(* be loaded then, the fresh L has neither block() nor decode(), and the   *)
(* error message is there for the next request.                            *)
(*                                                                         *)
(* The copies the C structures keep for the status page do not judge: they *)
(* are texts, and set_string, which may find no memory for them, is in     *)
(* SharedTexts.                                                            *)
(*                                                                         *)
(* A list is a set of entries.  Texts are model strings; Lower and         *)
(* PrefixOf say how they compare.                                          *)
(***************************************************************************)
EXTENDS Integers, Sequences

CONSTANTS
  Lower(_),        \* string.lower
  PrefixOf(_, _),  \* is the first text a prefix of the second
  Requests,        \* the contexts getRequestContext can make
  Deliveries,      \* the updates a worker can be given: <<key, value>>
  MaxTime          \* bound on the clock

Lists == {"acceptIPPrefix", "denyUserAgent", "denyUserAgentPrefix", "denyIPAddress",
          "denyIPAddressPrefix", "denyVisterID", "denyNOVisitorIDURL",
          "denyIPAddressRate", "denyIPVidRate", "denyVisterIDRate"}
Flags == {"blockByVid", "blockByVidOnly"}
Switches == {"enable", "mount", "pushBlockEvent"}
Policy == Lists \cup Flags
\* Decoded like the lists and never consulted: L's copies of them are not kept.
Unused == {"acceptHttpMethod", "denyUserAgentContainAnd"}

List(entries) == [kind |-> "list", entries |-> entries]
Unparsable == [kind |-> "unparsable", entries |-> {}]  \* json.decode raises an error
Illtyped == [kind |-> "illtyped", entries |-> {}]      \* it decodes, but not to an object
Undated == -1                \* an expiry date isExpire cannot read
NoMethod == "no comma"       \* a denyNOVisitorIDURL key without its method
NoArray == {"no array"}      \* the domains of an entry that has no array of texts
Blank == " "                 \* what C pushes for a field that is absent

ASSUME DeliveriesAssumption ==
  \A u \in Deliveries :
    /\ u[1] \in Policy \cup Switches \cup Unused
    /\ u[1] \in Flags \cup Switches => u[2] \in BOOLEAN
    /\ u[1] \in Lists => \A e \in u[2].entries : e.until \in Int
ASSUME MaxTimeAssumption == MaxTime \in Nat

VARIABLES
  lua,        \* [Policy -> Values]: the globals of L
  loaded,     \* L has block.lua
  junk,       \* an error message lies at the bottom of the stack of L
  switch,     \* [Switches -> BOOLEAN]
  now,        \* time
  answer,     \* what the last request got: "pass", "deny" or "status", or
              \* "skip" when it went on without having been looked at
  offered,    \* an event was offered for it
  delivered,  \* history, [Policy -> Values]: what was delivered last
  hurt        \* history: the keys whose delivered value L does not have,
              \* because its update failed or L was replaced since

luaVars == <<lua, loaded, junk, hurt>>
vars == <<luaVars, delivered, switch, now, answer, offered>>

\* What block.lua and the zeroed C structures start with.
Default(k) == IF k \in Lists THEN List({}) ELSE FALSE
Fresh == [k \in Policy |-> Default(k)]

ValuesOf(k) == {Default(k)} \cup {u[2] : u \in {d \in Deliveries : d[1] = k}}

TypeOK ==
  /\ DOMAIN lua = Policy /\ DOMAIN delivered = Policy
  /\ \A k \in Policy : lua[k] \in ValuesOf(k) /\ delivered[k] \in ValuesOf(k)
  /\ \A l \in Lists : lua[l] # Unparsable
  /\ loaded \in BOOLEAN /\ junk \in BOOLEAN
  /\ switch \in [Switches -> BOOLEAN]
  /\ now \in 0 .. MaxTime
  /\ answer \in {"skip", "pass", "deny", "status"} /\ offered \in BOOLEAN
  /\ hurt \subseteq Policy

\* ngx_alpaca_init_process: all switches are off until they are delivered.  (A
\* worker that cannot load block.lua does not start.)
Init ==
  /\ lua = Fresh /\ delivered = Fresh /\ loaded = TRUE /\ junk = FALSE
  /\ switch = [s \in Switches |-> FALSE]
  /\ now = 0 /\ answer = "skip" /\ offered = FALSE /\ hurt = {}

-----------------------------------------------------------------------------
(* block() of block.lua.  A check answers "yes", "no", or "raise" when it  *)
(* raises an error; a set of answers when they depend on the order of      *)
(* pairs().  g is the globals of L.                                        *)

Same(s, t) == Lower(s) = Lower(t)

\* The test of an entry's domains that every lookup makes (isInArray).
Names(e, r) ==
  e.domains # NoArray /\ \E d \in e.domains : Same(d, r.domain) \/ Lower(d) = "all"

Answer(holds) == IF holds THEN {"yes"} ELSE {"no"}

\* Mutant of Lookup: it stops at the first entry whose key matches.
LookupFirst(list, hits, r) ==
  IF list = Illtyped THEN {"raise"}
  ELSE Answer(hits # {} /\ Names(CHOOSE e \in hits : TRUE, r))

\* The entries the walk looks at, in the order of pairs(): it ends at one that
\* names the domain, and with an error at one that has no array.
Walk(names, raises) ==
  (IF names # {} THEN {"yes"} ELSE {}) \cup (IF raises # {} THEN {"raise"} ELSE {})
    \cup (IF names \cup raises = {} THEN {"no"} ELSE {})

\* The walk over a list: does an entry whose key matches name the domain?
Lookup(list, hits, r) ==
  IF list = Illtyped THEN {"raise"}
  ELSE Walk({e \in hits : Names(e, r)}, {e \in hits : e.domains = NoArray})

\* Mutant of isExpire: nothing expires.
NeverExpires(e) == FALSE

isExpire(e) == e.until <= now

\* The walk over a rate list; the date of an entry is read when the entry
\* matches.
RateLookup(list, key, r) ==
  LET hits == {e \in list.entries : e.key = key}
  IN  IF list = Illtyped THEN {"raise"}
      ELSE Walk({e \in hits : Names(e, r) /\ e.until # Undated /\ ~isExpire(e)},
                {e \in hits : e.domains = NoArray \/ (Names(e, r) /\ e.until = Undated)})

\* Every key is split at its comma.
lookupdenyNOVisitorIDURL(list, r) ==
  LET hits == {e \in list.entries :
        /\ e.method # NoMethod /\ (Lower(e.method) = "all" \/ Same(e.method, r.method))
        /\ PrefixOf(Lower(e.key), Lower(r.url))}
  IN  IF list = Illtyped THEN {"raise"}
      ELSE Walk({e \in hits : Names(e, r)},
                {e \in hits : e.domains = NoArray} \cup {e \in list.entries : e.method = NoMethod})

\* Lower-cased address, comma, visitor.
IpVid(r) == <<Lower(r.ip), r.vid>>

isIpRateBlackList(list, r) == RateLookup(list, r.ip, r)

\* All checks before the i-th may have said no.
Reached(steps, i) == \A n \in 1 .. i - 1 : "no" \in steps[n][2]

\* What a chain of checks returns: the code of the first that says yes, 0 for
\* an error, -1 when all say no.
Chain(steps) ==
  LET Stops(a) == {i \in DOMAIN steps : Reached(steps, i) /\ a \in steps[i][2]}
  IN  {steps[i][1] : i \in Stops("yes")}
        \cup (IF Stops("raise") # {} THEN {0} ELSE {})
        \cup (IF Reached(steps, Len(steps) + 1) THEN {-1} ELSE {})

isBlank(s) == s = Blank

\* acceptHttpMethod is delivered but never consulted: the methods are the two
\* of tmp_acceptHttpMethod, for every domain.
lookupacceptHttpMethod(r) == Lower(r.method) \in {"post", "get"}

isVidBlackList(list, r) ==
  IF isBlank(r.vid) THEN {"no"}
  ELSE Lookup(list, {e \in list.entries : Same(e.key, r.vid)}, r)

\* What is looked at for every request.
CommonSteps(g, r) ==
  LET IPIs(l) == {e \in g[l].entries : e.key = r.ip}
      LikeIP(l) == {e \in g[l].entries : Same(e.key, r.ip)}
      StartsIP(l) == {e \in g[l].entries : PrefixOf(Lower(e.key), Lower(r.ip))}
      LikeUA(l) == {e \in g[l].entries : Same(e.key, r.ua)}
      StartsUA(l) == {e \in g[l].entries : PrefixOf(Lower(e.key), Lower(r.ua))}
  IN  << <<201, Lookup(g["acceptIPPrefix"], IPIs("acceptIPPrefix"), r)>>,
         <<406, Answer(~lookupacceptHttpMethod(r))>>,
         <<401, Answer(isBlank(r.ua))>>,
         <<401, Lookup(g["denyUserAgent"], LikeUA("denyUserAgent"), r)>>,
         <<401, Lookup(g["denyUserAgentPrefix"], StartsUA("denyUserAgentPrefix"), r)>>,
         <<403, Answer(isBlank(r.ip))>>,
         <<403, Lookup(g["denyIPAddress"], LikeIP("denyIPAddress"), r)>>,
         <<403, Lookup(g["denyIPAddressPrefix"], StartsIP("denyIPAddressPrefix"), r)>>,
         <<407, isVidBlackList(g["denyVisterID"], r)>> >>

\* Mutant of VisitorSteps: a request without a visitor is not looked up among
\* the addresses banned for a time.
VisitorStepsNoRate(g, r) ==
  IF isBlank(r.vid)
    THEN << <<405, lookupdenyNOVisitorIDURL(g["denyNOVisitorIDURL"], r)>> >>
    ELSE << IF g["blockByVid"] THEN <<404, RateLookup(g["denyIPVidRate"], IpVid(r), r)>>
            ELSE <<402, isIpRateBlackList(g["denyIPAddressRate"], r)>>,
            <<408, IF g["blockByVidOnly"] THEN RateLookup(g["denyVisterIDRate"], r.vid, r)
                   ELSE {"no"}>> >>

\* What depends on whether the request has a visitor.
VisitorSteps(g, r) ==
  IF isBlank(r.vid)
    THEN << <<405, lookupdenyNOVisitorIDURL(g["denyNOVisitorIDURL"], r)>>,
            <<402, isIpRateBlackList(g["denyIPAddressRate"], r)>> >>
    ELSE << IF g["blockByVid"] THEN <<404, RateLookup(g["denyIPVidRate"], IpVid(r), r)>>
            ELSE <<402, isIpRateBlackList(g["denyIPAddressRate"], r)>>,
            <<408, IF g["blockByVidOnly"] THEN RateLookup(g["denyVisterIDRate"], r.vid, r)
                   ELSE {"no"}>> >>

block(g, r) == Chain(CommonSteps(g, r) \o VisitorSteps(g, r))

-----------------------------------------------------------------------------
(* The worker.                                                             *)

\* Mutant of Fails: an update that fails leaves nothing on the stack.
NeverFails(k, v) == FALSE

\* set_table: decode() of block.lua raises an error, or there is none.
Fails(k, v) == ~loaded \/ (k \notin Flags /\ v = Unparsable)

\* The globals after decode() of block.lua: one is replaced.
decode(k, v) == [lua EXCEPT ![k] = v]

\* update_zk_value
Update(k, v) ==
  /\ <<k, v>> \in Deliveries
  /\ \/ /\ k \in Switches
        /\ switch' = [switch EXCEPT ![k] = v]
        /\ UNCHANGED <<lua, junk, delivered, hurt>>
     \/ /\ k \in Unused
        /\ junk' = (junk \/ Fails(k, v))
        /\ UNCHANGED <<lua, delivered, switch, hurt>>
     \/ /\ k \in Policy
        /\ delivered' = [delivered EXCEPT ![k] = v]
        /\ IF Fails(k, v)
             THEN junk' = TRUE /\ hurt' = hurt \cup {k} /\ UNCHANGED lua
             ELSE lua' = decode(k, v) /\ hurt' = hurt \ {k} /\ UNCHANGED junk
        /\ UNCHANGED switch
  /\ UNCHANGED <<loaded, now, answer, offered>>

\* The statuses responseIfNeeded answers with a 403 page.
DenyCodes == {401, 402, 403, 404, 405, 406, 407, 408}

\* handleBlockRequestIfNeeded: the number at the bottom of the stack.
Judge(r) == IF junk THEN {0} ELSE block(lua, r)

\* Mutant of Replaces: a request that nothing denies costs L, too.
ReplacesOnPass(judge) == judge <= 0

\* Is L thrown away after this judgement?
Replaces(judge) == judge = 0

\* The fresh L.  The values that were delivered are not given to it.  The
\* results of luaL_loadfile and lua_pcall are not looked at: L may have nothing
\* but the error message on its stack.
Reload ==
  /\ lua' = Fresh
  /\ loaded' \in BOOLEAN /\ junk' = ~loaded'
  /\ hurt' = {k \in Policy : delivered[k] # Default(k)}

\* A block event is offered unless the switch is off or an allocation fails.
Report == offered' = FALSE \/ (switch["pushBlockEvent"] /\ offered' = TRUE)

\* doFilter of a request from the outside.  When it is not mounted, or there
\* is no memory for the context, the request goes on.
Request(r) ==
  /\ \/ /\ answer' = "skip" /\ offered' = FALSE
        /\ UNCHANGED luaVars
     \/ /\ switch["mount"] /\ ~switch["enable"]
        /\ answer' = "pass" /\ offered' = FALSE
        /\ UNCHANGED luaVars
     \/ /\ switch["mount"] /\ switch["enable"]
        /\ \E judge \in Judge(r) :
             /\ IF Replaces(judge) THEN Reload ELSE UNCHANGED luaVars
             /\ IF judge \in DenyCodes
                  THEN answer' = "deny" /\ Report
                  ELSE answer' = "pass" /\ offered' = FALSE
  /\ UNCHANGED <<delivered, switch, now>>

\* doFilter of a request from the server (isFirewallRequest): it asks for the
\* status, or turns the filter of this worker on or off.  It is answered with
\* the status page, and reported as if it were blocked.
Command(c) ==
  /\ switch["mount"]
  /\ switch' = CASE c = "status"  -> switch
                 [] c = "enable"  -> [switch EXCEPT !["enable"] = TRUE]
                 [] c = "disable" -> [switch EXCEPT !["enable"] = FALSE]
  /\ answer' = "status" /\ Report
  /\ UNCHANGED <<luaVars, delivered, now>>

Tick ==
  /\ now < MaxTime
  /\ now' = now + 1
  /\ UNCHANGED <<luaVars, delivered, switch, answer, offered>>

Next ==
  \/ \E u \in Deliveries : Update(u[1], u[2])
  \/ \E r \in Requests : Request(r)
  \/ \E c \in {"status", "enable", "disable"} : Command(c)
  \/ Tick

Spec == Init /\ [][Next]_vars

-----------------------------------------------------------------------------
(* Properties.                                                             *)

\* A value decode() accepts and block() can walk without an error.
Wellformed(v) ==
  /\ v \notin {Unparsable, Illtyped}
  /\ \A e \in v.entries : e.until # Undated /\ e.method # NoMethod /\ e.domains # NoArray

DenyLists == Lists \ {"acceptIPPrefix"}

\* As long as every value that is delivered is well-formed, the lists and flags
\* that L judges by are the ones that were delivered last: no judgement and no
\* order of updates makes L lose one.
Kept ==
  (\A u \in Deliveries : u[1] \in Lists \cup Unused => Wellformed(u[2])) => lua = delivered

\* What entry e of list l says of a request when the flags are those of g.
Bans(g, l, e, r) ==
  /\ Names(e, r)
  /\ CASE l = "denyUserAgent" -> Same(e.key, r.ua)
       [] l = "denyUserAgentPrefix" -> PrefixOf(Lower(e.key), Lower(r.ua))
       [] l = "denyIPAddress" -> Same(e.key, r.ip)
       [] l = "denyIPAddressPrefix" -> PrefixOf(Lower(e.key), Lower(r.ip))
       [] l = "denyVisterID" -> r.vid # Blank /\ Same(e.key, r.vid)
       [] l = "denyNOVisitorIDURL" ->
            /\ r.vid = Blank /\ PrefixOf(Lower(e.key), Lower(r.url))
            /\ e.method # NoMethod /\ (Lower(e.method) = "all" \/ Same(e.method, r.method))
       [] l = "denyIPAddressRate" ->
            /\ e.key = r.ip /\ e.until > now
            /\ r.vid = Blank \/ ~g["blockByVid"]
       [] l = "denyIPVidRate" ->
            /\ r.vid # Blank /\ g["blockByVid"]
            /\ e.key = <<Lower(r.ip), r.vid>> /\ e.until > now
       [] l = "denyVisterIDRate" ->
            /\ r.vid # Blank /\ g["blockByVidOnly"]
            /\ e.key = r.vid /\ e.until > now

Banned(r) ==
  \E l \in DenyLists \ hurt : \E e \in delivered[l].entries : Bans(delivered, l, e, r)

Accepted(r) ==
  \E e \in delivered["acceptIPPrefix"].entries : e.key = r.ip /\ Names(e, r)

\* The next request that is on a ban list will be denied, whatever failed
\* before: once every value is well-formed again, the request that paid for the
\* last error has gone by, and the list and the flags have been delivered since.
\* (Until then it may get through: the policy fails open.)
Enforced ==
  /\ ~junk /\ Flags \cap hurt = {}
  /\ \A l \in Lists : Wellformed(delivered[l])
  => \A r \in Requests : Banned(r) /\ ~Accepted(r) => Judge(r) \subseteq DenyCodes

\* A request is denied only for its method, for having no user agent or
\* address, or by an entry of a list: of the list that was delivered last or, if
\* L does not have that one, of the one L still has; under the flags delivered
\* last or, if L does not have those, under its own.
Justified ==
  \A r \in Requests : Judge(r) \cap DenyCodes # {} =>
    \/ Lower(r.method) \notin {"post", "get"} \/ Blank \in {r.ua, r.ip}
    \/ \E l \in DenyLists :
         \E e \in (IF l \in hurt THEN lua ELSE delivered)[l].entries :
           Bans(IF Flags \cap hurt # {} THEN lua ELSE delivered, l, e, r)

\* Another ban, for another domain, prefix or visitor, in any order of the
\* entries, never lets through a request that is denied without it.
Monotone ==
  \A u \in Deliveries :
    /\ u[1] \in DenyLists /\ Wellformed(u[2])
    /\ Wellformed(lua[u[1]]) /\ lua[u[1]].entries \subseteq u[2].entries
    => \A r \in Requests :
         block(lua, r) \subseteq DenyCodes =>
           block([lua EXCEPT ![u[1]] = u[2]], r) \subseteq DenyCodes
=============================================================================
