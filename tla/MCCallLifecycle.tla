--------------------------- MODULE MCCallLifecycle ---------------------------
(* CallLifecycle on a few calls. *)
EXTENDS CallLifecycle, TLC

CONSTANTS c1, c2, c3

(* Outgoing calls are told apart only by what is done with them. *)
CallSymmetry == Permutations(Calls \ Incoming)
=============================================================================
