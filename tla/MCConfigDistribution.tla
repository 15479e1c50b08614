------------------------- MODULE MCConfigDistribution -------------------------
(* ConfigDistribution with one switch and one policy list. *)
EXTENDS ConfigDistribution

CONSTANTS enable, denyIP

MCKeys == {enable, denyIP}
MCKeyOrder == <<enable, denyIP>>

\* "true" is shorter than the route, a list of addresses is longer.
MCValueLen == [k \in MCKeys |-> IF k = enable THEN 4 ELSE 24]

\* One key is enough to block a pipe.
OneKey == {enable}
OneKeyOrder == <<enable>>
OneValueLen == [k \in OneKey |-> 4]

\* Once messages are mixed the properties about what one worker gets claim
\* nothing any more: the run with one worker that checks them stops there.
Unmixed == mixed = {}
=============================================================================
