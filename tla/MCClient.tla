------------------------------ MODULE MCClient ------------------------------
(***************************************************************************)
(* Values of the constants of Client that a configuration cannot write.    *)
(***************************************************************************)
EXTENDS ClientProperties

CONSTANTS a, b

\* The third message is the first one, sent again; b is not a text.
MCContent == [n \in 1..Total |-> CASE n % 3 = 2 -> b [] OTHER -> a]
MCKey == {a, b}
MCTextKey == {a}
=============================================================================
