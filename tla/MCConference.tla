----------------------------- MODULE MCConference -----------------------------
(* Conference for three calls, which no operation tells apart. *)
EXTENDS Conference, TLC

CallSymmetry == Permutations(Calls)

====
