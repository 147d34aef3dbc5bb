--------------------------- MODULE MCRequestSetup ---------------------------
(* A small instance of RequestSetup for TLC: calls of one process, which     *)
(* share its client, its profile and the breaker.                           *)
EXTENDS RequestSetup, TLC

CONSTANT p

Together == [c \in Calls |-> p]

CallSymmetry == Permutations(Calls)
==============================================================================
