-------------------------------- MODULE Pages --------------------------------
(***************************************************************************)
(* From a request to the page that answers it, in one worker: which        *)
(* address counts as the client's (get_client_ip), whether the request is  *)
(* a command of the server (handleInternalRequestIfNeeded), and the page   *)
(* that is made: the status (dumpStatus), or a template whose placeholders *)
(* are filled (getResponseDenyMessage, getResponseDenyRateMessage).        *)
(*                                                                         *)
(* What the policy says of a request is RequestFilter's matter: any        *)
(* judgement is possible here.  Every allocation may fail.  A template is  *)
(* a sequence of characters; "t" stands for any run of ordinary text.      *)
(*                                                                         *)
(* Nothing compares a page with the size of its buffer.  Reading through a *)
(* NULL pointer ends the worker, and one that writes behind a buffer       *)
(* counts as dead: what it does from then on is not defined.               *)
(***************************************************************************)
EXTENDS Integers, SequencesExt, FiniteSetsExt

CONSTANTS
  NULL,
  Judgements,       \* the judgements of block() that are possible
  Private, Public,  \* addresses: those that the three prefixes match, and others
  MaxForwarded,     \* bound on the addresses in an X-Forwarded-For header
  Pieces,           \* what a template of the rate page is made of
  MaxPieces,        \* bound on the pieces of a delivered template
  MaxDeliveries,    \* bound on the updates in the life of a worker
  AddressLength,    \* [addresses -> Nat] what is in a header may be of any length
  PeerLength,       \* bound on the length of the address of a connection
  Lengths,          \* lengths of a delivered list or message
  BuiltIn,          \* length of the text of a built-in page
  KeyLength,        \* of a key of the status page with what it needs to be printed;
                    \* the texts of the switches and the first methods count with it
  PageSize,         \* DENYMESSAGEMAXLENTH
  StatusSize,       \* DEFAULT_DUMP_INFO_SIZE
  Share             \* what each key may take of StatusSize so that they all fit

ASSUME BoundsAssumption ==
  MaxForwarded \in Nat /\ MaxPieces \in Nat /\ MaxDeliveries \in Nat

Addresses == Private \cup Public
Texts == {"true", "false", "list", "methods"}
Commands == <<"status", "enable", "disable">>   \* in the order they are tried

\* The digits that the templates here have.
Digit == [d \in {"0", "1", "2", "3"} |->
            CASE d = "0" -> 0 [] d = "1" -> 1 [] d = "2" -> 2 [] d = "3" -> 3]
Chars == {"t", "$", "{", "}"} \cup DOMAIN Digit

\* A template as its author sees it: characters, and placeholders, of which the
\* last may lack its brace.
Plain(c) == [hole |-> FALSE, s |-> <<c>>, end |-> <<>>]
Hole(s) == [hole |-> TRUE, s |-> s, end |-> <<"}">>]
Unclosed(s) == [hole |-> TRUE, s |-> s, end |-> <<>>]

ASSUME AddressAssumption == Private \cap Public = {} /\ Addresses \cap Chars = {}

\* A pointer that is not NULL points to an address, a text, a command or a template.
ASSUME NullAssumption == NULL \notin Addresses \cup Texts \cup Range(Commands) \cup Seq(Chars)

\* The number of a placeholder of five characters fits in an int, as the number
\* of a longer one may not.
ASSUME PiecesAssumption ==
  \A p \in Pieces :
    \/ \E c \in Chars : p = Plain(c)
    \/ p.s \in Seq(Chars \ {"}"}) /\ Len(p.s) <= 5 /\ p \in {Hole(p.s), Unclosed(p.s)}

\* The entries of the status page, in its order: the keys with a text.  The
\* others behave as denyIPAddress does.
StatusKeys == <<"enable", "mount", "denyIPAddress", "acceptHttpMethod", "denyNOVisitorIDURL">>
Switches == {"enable", "mount"}

ASSUME SizesAssumption ==
  /\ AddressLength \in [Addresses -> Nat] /\ Lengths \subseteq Nat
  /\ {PeerLength, BuiltIn, KeyLength, PageSize, StatusSize, Share} \subseteq Nat
  /\ KeyLength <= Share /\ 2 + Len(StatusKeys) * Share < StatusSize

VARIABLES
  configured, \* config_denymessage, config_denyratemessage: the pages for which
              \* the configuration file has a message
  template,   \* [{"deny", "rate"} -> template or NULL]
  text,       \* [StatusKeys -> text or NULL]
  length,     \* [StatusKeys and pages -> Nat] of the list, of the template's text
  switch,     \* [Switches -> BOOLEAN]
  url,        \* the commands whose URL was delivered
  request,    \* the request that is denied, with its judgement
  response,   \* its page, Nothing between requests
  dead,       \* the worker died
  short,      \* history: an allocation for a template or a page failed
  stale,      \* history: the switches whose text set_string could not replace
  pieces,     \* history: the pieces of the rate page's template
  deliveries  \* how many updates there were

vars == <<configured, template, text, length, switch, url, request, response, dead, short, stale,
          pieces, deliveries>>

Nothing == [kind |-> "nothing"]

-----------------------------------------------------------------------------
(* Templates.                                                              *)

\* What num = num * 10 + d makes of the numbers d, from 0 on.
Decimal(d) ==
  LET upto[i \in 0 .. Len(d)] == IF i = 0 THEN 0 ELSE 10 * upto[i - 1] + d[i]
  IN upto[Len(d)]

\* atoi of s from its k-th character on: the digits up to the first other one.
atoi(s, k) ==
  LET end == Max({e \in k - 1 .. Len(s) : \A i \in k .. e : s[i] \in DOMAIN Digit})
  IN Decimal([i \in 1 .. end - k + 1 |-> Digit[s[k - 1 + i]]])

\* The number of a placeholder: atoi is called at each character, and reads on.
Number(s) == Decimal([k \in 1 .. Len(s) |-> atoi(s, k)])

\* What a page has in place of a number.  A user agent for 3 is never asked for:
\* the only template of the deny page that is used is the built-in one.
Fill(kind, r, n) ==
  CASE kind = "deny" /\ n = 1 -> <<r.status>>
    [] kind = "deny" /\ n = 2 -> <<r.client>>
    [] kind = "rate" /\ n = 0 -> <<r.client>>
    [] OTHER -> <<>>

\* Mutant of Substitute: the scan goes on at the brace, not behind it.
SubstituteBrace(s, kind, r) ==
  LET n == Len(s)
      Close(j) == Min({k \in j .. n : s[k] = "}"} \cup {n + 1})
      from[i \in 1 .. n + 2] ==
        IF i > n THEN <<>>
        ELSE IF s[i] = "$" /\ i < n /\ s[i + 1] = "{"
             THEN LET j == Close(i + 2)
                  IN Fill(kind, r, Number(SubSeq(s, i + 2, j - 1))) \o from[j]
             ELSE <<s[i]>> \o from[i + 1]
  IN from[1]

\* The template s with each ${...} replaced.  One that is not closed extends to
\* the end.
Substitute(s, kind, r) ==
  LET n == Len(s)
      Close(j) == Min({k \in j .. n : s[k] = "}"} \cup {n + 1})
      from[i \in 1 .. n + 2] ==
        IF i > n THEN <<>>
        ELSE IF s[i] = "$" /\ i < n /\ s[i + 1] = "{"
             THEN LET j == Close(i + 2)
                  IN Fill(kind, r, Number(SubSeq(s, i + 2, j - 1))) \o from[j + 1]
             ELSE <<s[i]>> \o from[i + 1]
  IN from[1]

Spelled(p) == IF p.hole THEN <<"$", "{">> \o p.s \o p.end ELSE p.s
Spelling(t) == FlattenSeq([i \in DOMAIN t |-> Spelled(t[i])])

\* DEFAULTDENYMESSAGE and DEFAULTDENYRATE, in pieces.
DefaultDeny == <<Plain("t"), Hole(<<"0">>), Plain("t"), Hole(<<"1">>), Plain("t"),
                 Hole(<<"2">>), Plain("t"), Hole(<<"0">>), Plain("t")>>
DefaultRate == <<Plain("t"), Hole(<<"0">>), Plain("t")>>

\* No placeholder comes about, or goes on, by what follows a piece.
Readable(t) ==
  \A i \in 1 .. Len(t) - 1 :
    /\ ~(t[i] = Plain("$") /\ Spelled(t[i + 1])[1] = "{")
    /\ ~(t[i].hole /\ t[i].end = <<>>)

\* Bytes of a page: the text of its template, and the addresses that it got.
PageLength(page, kind, r) ==
  length[kind] + Cardinality({i \in DOMAIN page : page[i] \in Addresses}) * AddressLength[r.client]

Begin == <<"{">>
Comma == <<",">>
End == <<"}">>

\* Mutant of dumpStatus: the last entry too is followed by a comma.
dumpStatusCommas ==
  LET Entry(k) == IF text[k] = NULL THEN <<>> ELSE << <<k, text[k]>>, Comma >>
  IN <<Begin>> \o FlattenSeq([i \in DOMAIN StatusKeys |-> Entry(StatusKeys[i])]) \o <<End>>

\* The entries that have a text, each but the last with a comma behind it.
dumpStatus ==
  LET Entry(k) == IF text[k] = NULL THEN <<>>
                  ELSE IF k = "denyNOVisitorIDURL" THEN << <<k, text[k]>> >>
                  ELSE << <<k, text[k]>>, Comma >>
  IN <<Begin>> \o FlattenSeq([i \in DOMAIN StatusKeys |-> Entry(StatusKeys[i])]) \o <<End>>

\* Its bytes: the braces, and for each entry the key and the text.
StatusLength ==
  LET upto[i \in 0 .. Len(StatusKeys)] ==
        IF i = 0 THEN 2
        ELSE upto[i - 1] + (IF text[StatusKeys[i]] = NULL THEN 0
                            ELSE KeyLength + length[StatusKeys[i]])
  IN upto[Len(StatusKeys)]

-----------------------------------------------------------------------------
(* The configuration of the worker.                                        *)

\* Mutant of set_default: both pages test for the message of the deny page.
set_defaultCopied(failed) ==
  /\ template.deny = IF "deny" \in configured \cup failed THEN NULL ELSE Spelling(DefaultDeny)
  /\ template.rate = IF "deny" \in configured \/ "rate" \in failed THEN NULL ELSE Spelling(DefaultRate)

\* A page has its built-in template unless the configuration file has a message
\* for it (denymessage, denyratemessage: nothing reads them), or memory is short.
set_default(failed) ==
  /\ template.deny = IF "deny" \in configured \cup failed THEN NULL ELSE Spelling(DefaultDeny)
  /\ template.rate = IF "rate" \in configured \cup failed THEN NULL ELSE Spelling(DefaultRate)

\* set_default and the list of methods, after everything was zeroed.
Init ==
  /\ configured \in SUBSET {"deny", "rate"}
  /\ \E failed \in SUBSET {"deny", "rate", "acceptHttpMethod"} :
       /\ template \in [deny : {NULL, Spelling(DefaultDeny)}, rate : {NULL, Spelling(DefaultRate)}]
       /\ set_default(failed)
       /\ text = [k \in Range(StatusKeys) |->
                    IF k = "acceptHttpMethod" /\ k \notin failed THEN "methods" ELSE NULL]
       /\ short = (failed # {})
  /\ length = [k \in Range(StatusKeys) \cup {"deny", "rate"} |->
                 IF k \in {"deny", "rate"} THEN BuiltIn ELSE 0]
  /\ switch = [k \in Switches |-> FALSE]
  /\ url = {} /\ stale = {}
  /\ request = Nothing /\ response = Nothing /\ dead = FALSE
  /\ pieces = DefaultRate
  /\ deliveries = 0

\* update_zk_value, between two requests.  set_string changes nothing without
\* memory, set_int needs none.
Update ==
  /\ ~dead /\ response = Nothing /\ deliveries < MaxDeliveries
  /\ deliveries' = deliveries + 1
  /\ UNCHANGED <<request, response>>

UpdateSwitch ==
  /\ Update
  /\ \E k \in Switches, v \in {"true", "false"} :
       /\ switch' = [switch EXCEPT ![k] = (v = "true")]
       /\ \/ text' = [text EXCEPT ![k] = v] /\ stale' = stale \ {k}
          \/ UNCHANGED text /\ stale' = stale \cup {k}
  /\ UNCHANGED <<configured, template, length, url, dead, short, pieces>>

UpdateList ==
  /\ Update
  /\ \E k \in Range(StatusKeys) \ Switches, n \in Lengths :
       text' = [text EXCEPT ![k] = "list"] /\ length' = [length EXCEPT ![k] = n]
  /\ UNCHANGED <<configured, template, switch, url, dead, short, stale, pieces>>

\* One or several of the URLs.
UpdateURL ==
  /\ Update
  /\ \E new \in SUBSET (Range(Commands) \ url) : new # {} /\ url' = url \cup new
  /\ UNCHANGED <<configured, template, text, length, switch, dead, short, stale, pieces>>

\* The message of the rate page is taken unless the file has one.
UpdateMessage ==
  /\ Update /\ "rate" \notin configured
  /\ \E n \in 0 .. MaxPieces : \E t \in [1 .. n -> Pieces], bytes \in Lengths :
       /\ Readable(t)
       /\ length' = [length EXCEPT !.rate = bytes]
       /\ template' = [template EXCEPT !.rate = Spelling(t)]
       /\ pieces' = t
  /\ UNCHANGED <<configured, text, switch, url, dead, short, stale>>

-----------------------------------------------------------------------------
(* A request.                                                              *)

\* Mutant of find_client_ip: the first address that is not private.
find_client_ip_first(list) ==
  LET public == SelectSeq(list, LAMBDA a : a \notin Private)
  IN IF public = <<>> THEN NULL ELSE public[1]

\* The result for the rest of the list goes before the own one.
find_client_ip(list) ==
  LET from[i \in 1 .. Len(list) + 1] ==
        IF i > Len(list) THEN NULL
        ELSE IF from[i + 1] # NULL THEN from[i + 1]
        ELSE IF list[i] \in Private THEN NULL ELSE list[i]
  IN from[1]

get_client_ip(peer, forwarded) ==
  IF peer \in Private /\ find_client_ip(forwarded) # NULL
  THEN find_client_ip(forwarded) ELSE peer

\* Of the commands that the URL of the request matches (it is enough that it is
\* a prefix of theirs), the first that is tried; NULL if trying meets a URL that
\* was not delivered; "none".
Tried(matched) ==
  LET from[i \in 1 .. Len(Commands) + 1] ==
        IF i > Len(Commands) THEN "none"
        ELSE IF Commands[i] \notin url THEN NULL
        ELSE IF Commands[i] \in matched THEN Commands[i] ELSE from[i + 1]
  IN from[1]

\* The page of each status (responseIfNeeded).
Statuses == [status |-> {"202"}, deny |-> {"401", "403", "405", "406", "407"},
             rate |-> {"402", "404", "408"}]

Die == dead' = TRUE /\ response' = Nothing

Sent(kind, page) ==
  response' = [kind |-> kind, body |-> page] /\ UNCHANGED <<dead, short>>

\* Without memory for the page, its buffer or its chain link there is no body.
Unsent(kind) ==
  response' = [kind |-> kind, body |-> NULL] /\ short' = TRUE /\ UNCHANGED dead

\* Without memory for the text of the status, or for its copy, the worker dies.
responseStatus(page, bytes) ==
  \/ bytes < StatusSize /\ Sent("status", page)
  \/ bytes >= StatusSize /\ Die /\ UNCHANGED short
  \/ Unsent("status")
  \/ Die /\ short' = TRUE

\* responseDenyMessage and responseDenyRateMessage.
responseDeny(kind, r) ==
  \/ /\ template[kind] # NULL
     /\ LET page == Substitute(template[kind], kind, r)
        IN \/ PageLength(page, kind, r) < PageSize /\ Sent(kind, page)
           \/ PageLength(page, kind, r) >= PageSize /\ Die /\ UNCHANGED short
  \/ template[kind] = NULL /\ Die /\ UNCHANGED short
  \/ Unsent(kind)

\* Mutant of SetEnable: the text is left to the next update.
SetEnableOnly(on) ==
  /\ switch' = [switch EXCEPT !.enable = on]
  /\ UNCHANGED <<text, stale>>

\* enable or disable: the switch, and its text if there is memory.
SetEnable(on) ==
  /\ switch' = [switch EXCEPT !.enable = on]
  /\ \/ text' = [text EXCEPT !.enable = IF on THEN "true" ELSE "false"] /\ stale' = stale \ {"enable"}
     \/ UNCHANGED text /\ stale' = stale \cup {"enable"}

\* A request of the server.  One that matches no command is judged like others;
\* with a URL that was not delivered the comparison dies.
Internal ==
  /\ ~dead /\ response = Nothing /\ switch.mount
  /\ UNCHANGED <<configured, template, length, url, pieces, deliveries>>
  /\ \E matched \in SUBSET Range(Commands) :
       LET c == Tried(matched)
       IN /\ c # "none"
          /\ IF c \in {"enable", "disable"} THEN SetEnable(c = "enable")
                                            ELSE UNCHANGED <<switch, text, stale>>
          /\ IF c = NULL THEN Die /\ UNCHANGED short ELSE responseStatus(dumpStatus', StatusLength')
  /\ request' = Nothing

\* The address of a connection, unlike one in a header, is short.
Peers == {a \in Addresses : AddressLength[a] <= PeerLength}

\* Any other request that is denied.  It goes on, and nothing changes, when the
\* filter is off, there is no memory for its context, or the judgement passes it.
Filter ==
  /\ ~dead /\ response = Nothing /\ switch.mount /\ switch.enable
  /\ \E peer \in Peers, n \in 0 .. MaxForwarded, kind \in {"deny", "rate"} :
     \E forwarded \in [1 .. n -> Addresses], status \in Statuses[kind] \cap Judgements :
       /\ request' = [status |-> status, client |-> get_client_ip(peer, forwarded),
                      peer |-> peer, forwarded |-> forwarded]
       /\ responseDeny(kind, request')
  /\ UNCHANGED <<configured, template, text, length, switch, url, stale, pieces, deliveries>>

\* The page goes out, and the request is finished (ngx_alpaca_client_handler).
Finish ==
  /\ ~dead /\ response # Nothing
  /\ request' = Nothing /\ response' = Nothing
  /\ UNCHANGED <<configured, template, text, length, switch, url, dead, short, stale, pieces,
                 deliveries>>

Next == UpdateSwitch \/ UpdateList \/ UpdateURL \/ UpdateMessage \/ Internal \/ Filter \/ Finish
Spec == Init /\ [][Next]_vars

-----------------------------------------------------------------------------
(* Properties.                                                             *)

\* The status page is read by a program.  It is an object only if the key that is
\* printed last was delivered, or no other was.
WellFormed(page) ==
  LET n == Len(page)
  IN /\ page[1] = Begin /\ page[n] = End
     /\ n = 2 \/ n % 2 = 1
     /\ \A i \in 2 .. n - 1 : page[i] \notin {Begin, End} /\ (page[i] = Comma <=> i % 2 = 1)

StatusTells ==
  response.kind = "status" /\ response.body # NULL =>
    /\ WellFormed(response.body) <=>
         text.denyNOVisitorIDURL # NULL \/ \A k \in Range(StatusKeys) : text[k] = NULL
    /\ \A k \in Switches \ stale :
         <<k, "true">> \in Range(response.body) <=> switch[k]

\* The client is the address nearest to the server that no prefix matches.
IsClient(a) ==
  LET hops == <<request.peer>> \o Reverse(request.forwarded)
  IN \/ \E i \in DOMAIN hops : hops[i] = a /\ a \in Public /\ \A j \in 1 .. i - 1 : hops[j] \in Private
     \/ a = request.peer /\ Range(hops) \subseteq Private

\* Each placeholder of the rate page without a digit other than 0 is filled with
\* the client's address, others are left out, and all other text is kept.
Filled(p, a) ==
  IF ~p.hole THEN p.s ELSE IF Range(p.s) \cap {"1", "2", "3"} = {} THEN <<a>> ELSE <<>>

RateTells ==
  response.kind = "rate" /\ response.body # NULL =>
    \E a \in Addresses :
      IsClient(a) /\ response.body = FlattenSeq([i \in DOMAIN pieces |-> Filled(pieces[i], a)])

\* The deny page names the status, and then the client.
DenyTells ==
  response.kind = "deny" /\ response.body # NULL =>
    /\ \E i, j \in DOMAIN response.body :
         /\ i < j /\ response.body[i] = request.status /\ response.body[j] = request.client
         /\ \A k \in DOMAIN response.body \ {i, j} : response.body[k] = "t"
    /\ IsClient(request.client)

\* Whatever page is sent tells the truth: of the switches, of the status of the
\* request, and of the client (dumpStatus, getResponseDenyMessage,
\* getResponseDenyRateMessage, get_client_ip).
PagesTell == StatusTells /\ RateTells /\ DenyTells

\* What a page may take at most: the text of its template, and the client's address for
\* each placeholder.
LongestPage(kind) ==
  LET t == IF kind = "rate" THEN pieces ELSE DefaultDeny
  IN length[kind] + Cardinality({i \in DOMAIN t : t[i].hole}) * AddressLength[request.client]

\* A worker dies in making a page only if memory was short; the configuration file has
\* a message of its own for that page (then nothing ever sets its template); the server
\* sent a command before all their URLs were delivered; the message and the addresses
\* that fill it do not fit in the page's buffer; or a delivered list is longer than its
\* share of the status buffer.
DeathsExplained ==
  dead =>
    \/ short
    \/ request = Nothing /\ \/ Range(Commands) \ url # {}
                            \/ \E k \in Range(StatusKeys) : KeyLength + length[k] > Share
    \/ request # Nothing /\ \E kind \in {"deny", "rate"} :
         /\ request.status \in Statuses[kind]
         /\ kind \in configured \/ LongestPage(kind) >= PageSize
=============================================================================
