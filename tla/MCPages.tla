-------------------------------- MODULE MCPages --------------------------------
(* Constants of Pages for TLC.                                              *)
EXTENDS Pages
MCPieces == {Plain("t"), Plain("$"), Plain("{"), Hole(<<>>), Hole(<<"0">>),
             Hole(<<"0", "0">>), Hole(<<"1", "0">>), Unclosed(<<"t", "1">>)}

MCAddressLength == [a \in Addresses |-> IF a = "8.2" THEN 8 ELSE 2]
=============================================================================
