------------------------- MODULE MCScheduledExecutor -------------------------
(* ScheduledExecutor for TLC: the constants are given in the .cfg file. *)
EXTENDS ScheduledExecutor
=============================================================================
