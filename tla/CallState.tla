------------------------------ MODULE CallState ------------------------------
(***************************************************************************)
(* The state of one Call (src/src/call.{h,cpp}): the two enumerations, the *)
(* permitted transitions, setState and the state string the client sees.   *)
(***************************************************************************)

CallStates == {"INACTIVE", "ACTIVE", "HOLD", "BUSY", "PEER_BUSY", "MERROR", "OVER"}

ConnectionStates == {"DISCONNECTED", "TRYING", "PROGRESSING", "RINGING", "CONNECTED"}

ClientStates == {"INACTIVE", "CONNECTING", "INCOMING", "RINGING", "CURRENT",
                 "HUNGUP", "HOLD", "BUSY", "PEER_BUSY", "FAILURE", "OVER"}

ValidStateTransition(s, t) ==
    \/ t = "OVER"
    \/ s = "INACTIVE" /\ t \in {"ACTIVE", "BUSY", "PEER_BUSY", "MERROR"}
    \/ s = "ACTIVE" /\ t \in {"BUSY", "PEER_BUSY", "HOLD", "MERROR"}
    \/ s = "HOLD" /\ t \in {"ACTIVE", "MERROR"}
    \/ s = "BUSY" /\ t = "MERROR"

(* Whether setState returns true: a permitted change, or no change of the  *)
(* call state.                                                             *)
Accepted(k, s) == s = k.st \/ ValidStateTransition(k.st, s)

(* The assignments of setState.  k.over records, for the properties, that  *)
(* the client has been told OVER.                                          *)
Assign(k, s, x) == [k EXCEPT !.st = s, !.cnx = x, !.over = @ \/ s = "OVER"]

SetState(k, s, x) == IF Accepted(k, s) THEN Assign(k, s, x) ELSE k

SetConnection(k, x) == SetState(k, k.st, x)

(* getStateStr of a call whose direction is incoming or not *)
StateStr(k, incoming) ==
    CASE k.st = "OVER" -> "OVER"
      [] k.st = "MERROR" -> "FAILURE"
      [] k.st \in {"BUSY", "PEER_BUSY"} -> k.st
      [] k.st = "HOLD" -> IF k.cnx = "DISCONNECTED" THEN "HUNGUP" ELSE "HOLD"
      [] k.st \in {"ACTIVE", "INACTIVE"} /\ k.cnx = "RINGING" ->
            IF incoming THEN "INCOMING" ELSE "RINGING"
      [] k.st \in {"ACTIVE", "INACTIVE"} /\ k.cnx = "PROGRESSING" -> "CONNECTING"
      [] k.st \in {"ACTIVE", "INACTIVE"} /\ k.cnx = "CONNECTED" -> "CURRENT"
      [] k.st = "ACTIVE" -> IF k.cnx = "DISCONNECTED" THEN "HUNGUP" ELSE "CURRENT"
      [] OTHER -> IF k.cnx = "TRYING" THEN "CONNECTING" ELSE "INACTIVE"
=============================================================================
