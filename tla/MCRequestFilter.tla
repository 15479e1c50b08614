---------------------------- MODULE MCRequestFilter ----------------------------
(* RequestFilter with a few lists, entries and requests. *)
EXTENDS RequestFilter

MCLower(s) == IF s = "Bot" THEN "bot" ELSE IF s = "GET" THEN "get" ELSE s

Prefixes == {<<"b", "bot">>, <<"bo", "bot">>, <<"1.", "1.1">>, <<"/", "/shop">>}
MCPrefixOf(s, t) == s = t \/ <<s, t>> \in Prefixes

Entry(key, domain) ==
  [key |-> key, domains |-> {domain}, until |-> 0, method |-> "all"]
Until(key, domain, time) == [Entry(key, domain) EXCEPT !.until = time]

Req(ip, ua, vid, domain) ==
  [ip |-> ip, ua |-> ua, method |-> "GET", url |-> "/shop", vid |-> vid, domain |-> domain]

MCRequests == {
  Req("1.1", "Bot", Blank, "a.com"), Req("1.1", "Mozilla", "v1", "b.com"),
  [Req("2.2", "Mozilla", "v1", "a.com") EXCEPT !.method = "PUT"],
  Req("2.2", "Bot", Blank, "b.com")}

Give(key, values) == {<<key, v>> : v \in values}
GiveLists(key, contents) == Give(key, {List(entries) : entries \in contents})
On == Give("mount", {TRUE}) \cup Give("enable", BOOLEAN) \cup Give("pushBlockEvent", {TRUE})

\* Values that do not decode, that block() cannot walk, with an entry that has no
\* array, no date or no comma; and the good values that replace them.
FaultyDeliveries ==
  On \cup Give("blockByVid", BOOLEAN)
  \cup GiveLists("denyIPAddressRate", {{}, {Until("1.1", "all", 1)}, {Until("1.1", "all", Undated)}})
  \cup Give("denyIPAddressRate", {Unparsable})
  \cup GiveLists("denyVisterID", {{Entry("v1", "b.com")}, {[Entry("v1", "b.com") EXCEPT !.domains = NoArray]}})
  \cup Give("denyVisterID", {Illtyped})
  \cup Give("acceptHttpMethod", {Unparsable})
  \cup GiveLists("denyNOVisitorIDURL",
         {{Entry("/", "all")}, {Entry("/", "all"), [Entry("/shop", "all") EXCEPT !.method = NoMethod]}})
  \cup GiveLists("acceptIPPrefix", {{}, {Entry("2.2", "b.com")}})

\* Lists that overlap, two to a field.
SoundDeliveries ==
  On \cup Give("blockByVid", {TRUE}) \cup Give("blockByVidOnly", {TRUE})
  \cup GiveLists("denyUserAgentPrefix",
         {{Entry("b", "a.com")}, {Entry("bo", "b.com")}, {Entry("b", "a.com"), Entry("bo", "b.com")}})
  \cup GiveLists("denyUserAgent", {{Entry("Bot", "a.com")}})
  \cup GiveLists("denyIPAddress", {{}, {Entry("1.1", "a.com")}})
  \cup GiveLists("denyIPAddressPrefix", {{Entry("1.", "b.com")}})
  \cup GiveLists("denyIPVidRate", {{Until(<<"1.1", "v1">>, "all", 1)}})
  \cup GiveLists("denyVisterIDRate", {{Until("v1", "b.com", 1)}})
=============================================================================
