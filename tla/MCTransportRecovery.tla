-------------------------- MODULE MCTransportRecovery --------------------------
(* TransportRecovery for TLC: the bounds are given in the .cfg files. *)
EXTENDS TransportRecovery
============================================================================
