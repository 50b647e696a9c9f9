---------------------------- MODULE FrameQueue ----------------------------
(***************************************************************************)
(* What a RingBuffer promises to its readers, with no slots and no         *)
(* positions: frames are numbered in the order they are written, and every *)
(* reader has the number of the frame it gets next.  A reader gets the     *)
(* frames in order, each at most once and none written before it joined.   *)
(* A reader that already has Capacity frames to read loses all of them     *)
(* with the frame being written: it starts again behind the writer.        *)
(***************************************************************************)
EXTENDS Naturals

CONSTANTS Readers,   \* the ids a read offset can have
          Capacity   \* the longest backlog of a reader

VARIABLES written,   \* how many frames have been written
          next,      \* reader -> number of the frame it gets next
          out        \* the last frame handed out, and to whom

vars == <<written, next, out>>

Nobody == [reader |-> "none", frame |-> 0]

Init == written = 0 /\ next = [r \in {} |-> 0] /\ out = Nobody

Backlog(r) == written - next[r]

Write ==
    /\ written' = written + 1
    /\ next' = [r \in DOMAIN next |->
                  IF Backlog(r) = Capacity THEN written + 1 ELSE next[r]]
    /\ UNCHANGED out

Deliver(r) ==
    /\ r \in DOMAIN next /\ next[r] < written
    /\ out' = [reader |-> r, frame |-> next[r]]
    /\ next' = [next EXCEPT ![r] = @ + 1]
    /\ UNCHANGED written

\* A reader moves towards the writer without being given the frames.
Skip(r) ==
    /\ r \in DOMAIN next
    /\ \E n \in next[r] .. written : next' = [next EXCEPT ![r] = n]
    /\ UNCHANGED <<written, out>>

SkipAll ==
    /\ next' = [r \in DOMAIN next |-> written]
    /\ UNCHANGED <<written, out>>

Join(r) ==
    /\ r \notin DOMAIN next
    /\ next' = [s \in DOMAIN next \cup {r} |-> IF s = r THEN written ELSE next[s]]
    /\ UNCHANGED <<written, out>>

Leave(r) ==
    /\ next' = [s \in DOMAIN next \ {r} |-> next[s]]
    /\ UNCHANGED <<written, out>>

Next ==
    \/ Write
    \/ SkipAll
    \/ \E r \in Readers : Deliver(r) \/ Skip(r) \/ Join(r) \/ Leave(r)

Spec == Init /\ [][Next]_vars

=============================================================================
