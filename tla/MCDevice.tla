------------------------------ MODULE MCDevice ------------------------------
(***************************************************************************)
(* Values of the constants of Device that a configuration cannot write.    *)
(***************************************************************************)
EXTENDS Device

CONSTANTS a, b

\* The third message is the first one, sent again under a nonce of its own.
MCContent == [n \in 1..Total |-> IF n = 2 THEN b ELSE a]
MCKey == {a, b}
=============================================================================
