------------------------------ MODULE PipeParser ------------------------------
(***************************************************************************)
(* The messages that carry configuration from the sender process to the    *)
(* workers, and how ngx_pipe_handler cuts the bytes it read into updates.  *)
(*                                                                         *)
(* A message is four separate writes: "/DP/CONFIG/" and the key, "\r\n",   *)
(* the value, "\r\r\n\n".  A byte stream is a sequence of these tokens.    *)
(* What the parser does depends on the lengths of the tokens, because it   *)
(* looks for "\r\n" first, which also occurs inside the end mark, and      *)
(* skips what precedes it two bytes at a time when it is shorter than the  *)
(* route; so the lengths are kept and the characters are not.              *)
(***************************************************************************)
EXTENDS Naturals, Sequences, SequencesExt

CONSTANTS Keys,      \* ZOOKEEPERWATCHKEYS
          ValueLen   \* the length in bytes of the values of a key

ASSUME ValueLenAssumption == ValueLen \in [Keys -> Nat]

RouteLen == 11   \* strlen(ZOOKEEPERROUTE)
KeyLen   == 30   \* of a key token: any length over RouteLen behaves alike

KeyToken(k) == <<"key", k>>
ValueToken(k, v) == <<"value", k, v>>
PartToken(k) == <<"part", k>>   \* a value whose write was cut short
Sep == <<"sep">>
End == <<"end">>

\* The writes of get_zk_value to one worker.
Message(k, v) == <<KeyToken(k), Sep, ValueToken(k, v), End>>

Bytes(t) == CASE t[1] = "key" -> KeyLen
              [] t[1] = "value" -> ValueLen[t[2]]
              [] t[1] = "part" -> ValueLen[t[2]] \div 2
              [] t[1] = "sep" -> 2
              [] t[1] = "end" -> 4

Length(s) ==
  LET Upto[i \in 0 .. Len(s)] == IF i = 0 THEN 0 ELSE Upto[i - 1] + Bytes(s[i])
  IN  Upto[Len(s)]

\* strstr: the first index from i on where a token of marks is, 0 if none is.
Find(s, i, marks) ==
  LET found == {j \in i .. Len(s) : s[j] \in marks}
  IN  IF found = {} THEN 0 ELSE CHOOSE j \in found : \A n \in found : j <= n

\* The parse loop of ngx_pipe_handler, from its point at token i with junk
\* bytes of a cut end mark before it.  Without a further "\r\n" or end mark
\* the rest is thrown away.  Less than a route before "\r\n": point moves by
\* two bytes until it is past, and may leave a part of the mark behind.
\* Otherwise what follows the first RouteLen bytes is taken as the key, and
\* all up to the next end mark as its value; update_zk_value ignores a key
\* that is not exactly one of Keys.  An update is a key and the tokens that
\* make its value.
Parsing(s) ==
  LET Parse[i \in 1 .. Len(s) + 1] == [junk \in 0 .. 2 |->
        LET j == Find(s, i, {Sep, End})
            e == Find(s, j + 1, {End})
            inEnd == IF s[j] = End THEN 1 ELSE 0
            d == junk + Length(SubSeq(s, i, j - 1)) + inEnd
            isKey == inEnd = 0 /\ junk = 0 /\ j = i + 1 /\ s[i][1] = "key"
        IN  IF j = 0 THEN <<>>
            ELSE IF d < RouteLen THEN Parse[j + 1][(d % 2) + inEnd]
            ELSE IF e = 0 THEN <<>>
            ELSE (IF isKey THEN <<<<s[i][2], SubSeq(s, j + 1, e - 1)>>>> ELSE <<>>)
                   \o Parse[e + 1][0]]
  IN  Parse

Updates(s) == Parsing(s)[1][0]

\* s is a whole number of messages.
Whole(s) ==
  /\ Len(s) % 4 = 0
  /\ \A i \in DOMAIN s :
       CASE i % 4 = 1 -> s[i][1] = "key"
         [] i % 4 = 2 -> s[i] = Sep
         [] i % 4 = 3 -> s[i][1] = "value" /\ s[i][2] = s[i - 2][2]
         [] i % 4 = 0 -> s[i] = End
=============================================================================
