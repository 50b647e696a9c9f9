---------------------------- MODULE MCDialogRefresh ----------------------------
(* DialogRefresh for TLC: the constants are given in the .cfg files. *)
EXTENDS DialogRefresh
============================================================================
