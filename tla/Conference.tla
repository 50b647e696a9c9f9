------------------------------ MODULE Conference ------------------------------
(***************************************************************************)
(* Who hears whom in a conference: Conference (src/src/conference.cpp),    *)
(* the Manager's operations on calls and conferences                       *)
(* (src/src/manager.cpp) and the RTP receive threads                       *)
(* (src/src/media/audio/audio_receive_thread.cpp), over one                *)
(* RingBufferPool.                                                         *)
(*                                                                         *)
(* Threads: api (the client's calls) and sip (what the peers ask for: the  *)
(* end of a call, the orders of a moderator).  What a thread still has to  *)
(* do is its program.  An operation is cut where it uses what it read      *)
(* before, or where another thread finds its work half done.               *)
(*                                                                         *)
(* There is one conference at a time, made of established calls.  A client *)
(* mutes and holds a call by itself only outside the conference.           *)
(***************************************************************************)
EXTENDS RingBufferPool, Sequences

CONSTANTS
    Calls,         \* the calls of the account, all established
    MaxStarts,     \* bound: operations begun
    MaxCrossed     \* bound: operations begun when two threads may be at work

ASSUME StartBounds == MaxStarts \in Nat /\ MaxCrossed \in Nat

Host == "host"
Conf == "conf"
None == "none"
Threads == {"api", "sip"}

VARIABLES
    mgr,       \* the pool, the conference, the calls and currentCall_
    rtp,       \* the call whose AudioReceiveThread is about to bind it
    prog,      \* what each thread still has to do
    starts,    \* operations begun
    past       \* history: what the properties make allowance for

vars == <<mgr, rtp, prog, starts, past>>

(* What the properties below make allowance for. *)
Mishaps ==
    {"crossed",    \* two threads were in operations at once
     "oneway",     \* a call left while somebody whom it did not hear heard it
     "detached"}   \* a client took a call out of the conference

Conference ==
    [state : {"none", "listed", "unlisted"},   \* unlisted: removed from the account, still in use
     attached : BOOLEAN,                       \* confState_ = ACTIVE_ATTACHED
     participants : SUBSET Calls,
     muted : SUBSET (Calls \cup {Host}),       \* participantsMuted_
     source : {"none", "open", "muted"},       \* the audio entry of hostSources_
     playback : BOOLEAN,                       \* localPlaybackMuted_
     asked : BOOLEAN]                          \* history: the last muteLocalHost

NewConference(playback) ==
    [state |-> "listed", attached |-> FALSE, participants |-> {}, muted |-> {}, source |-> "none",
     playback |-> playback, asked |-> FALSE]

NoConference == [NewConference(FALSE) EXCEPT !.state = "none"]

Call ==
    [live : BOOLEAN,       \* known to CallFactory
     held : BOOLEAN,       \* HOLD
     muted : BOOLEAN,      \* the audio attribute's muted_
     peerMuted : BOOLEAN,
     conf : BOOLEAN]       \* conf_ is set

(* One call is in conversation, the others are on hold. *)
Init ==
    /\ \E c \in Calls, mutedPeers \in {P \in SUBSET Calls : Cardinality(P) < 2} :
          mgr = [pool |-> BindCallID([reads |-> {}, mic |-> {}, play |-> {}], c, DEFAULT_ID),
                 conf |-> NoConference,
                 call |-> [d \in Calls |-> [live |-> TRUE, held |-> d # c, muted |-> FALSE,
                                            peerMuted |-> d \in mutedPeers, conf |-> FALSE]],
                 current |-> c]
    /\ rtp = None
    /\ prog = [t \in Threads |-> <<>>]
    /\ starts = 0
    /\ past = {}

----------------------------------------------------------------------------
(* Programs: an instruction is the name of a step, the calls it is about    *)
(* and a flag.                                                              *)

Do(op, ids, flag) == <<[op |-> op, ids |-> ids, flag |-> flag]>>

Note(b, mishap) == IF b THEN {mishap} ELSE {}

Idle == \A t \in Threads : prog[t] = <<>>

(* A thread between operations begins one. *)
Begin(t, m, program) ==
    /\ prog[t] = <<>>
    /\ Idle \/ (starts < MaxCrossed /\ mgr.conf.state # "none")
    /\ Idle => "crossed" \notin past
    /\ starts < MaxStarts
    /\ starts' = starts + 1
    /\ mgr' = m
    /\ prog' = [prog EXCEPT ![t] = program]
    /\ past' = past \cup Note(~Idle, "crossed")
    /\ UNCHANGED rtp

(* A thread takes the next instruction of its program. *)
Takes(t, op) == prog[t] # <<>> /\ Head(prog[t]).op = op

Continue(t, m, more) ==
    /\ mgr' = m
    /\ prog' = [prog EXCEPT ![t] = more \o Tail(@)]
    /\ UNCHANGED <<rtp, starts>>

----------------------------------------------------------------------------
(* What the state says *)

Live(m) == {c \in Calls : m.call[c].live}

IsMuted(k, id) == id \in k.muted

IsMediaSourceMuted(k) == ~k.attached \/ k.source = "muted"

HostMuted(k) == IsMediaSourceMuted(k) \/ IsMuted(k, Host)

SetLocalHostMuteState(k, muted) ==
    [k EXCEPT !.source = IF @ = "none" THEN @ ELSE IF muted THEN "muted" ELSE "open"]

SetLocalHostDefaultMediaSource(k) == [k EXCEPT !.source = "open"]

(* A loop over calls that binds or unbinds each of them. *)
Bind(pool, pairs) == [pool EXCEPT !.reads = @ \cup pairs]
Unbind(pool, pairs) == [pool EXCEPT !.reads = @ \ pairs]

FromHost(ids) == {<<c, DEFAULT_ID>> : c \in ids}
ToHost(ids) == {<<DEFAULT_ID, c>> : c \in ids}

----------------------------------------------------------------------------
(* Joining *)

(* Seeded bug: a participant that joins is not put on the playback filter. *)
EnterConferenceUnfiltered(m, c) ==
    LET k == [m.conf EXCEPT !.participants = @ \cup {c}]
    IN  IF c \in m.conf.participants \/ c \notin Live(m) THEN [m EXCEPT !.conf = k]
        ELSE [m EXCEPT !.conf = IF m.call[c].peerMuted THEN [k EXCEPT !.muted = @ \cup {c}] ELSE k,
                       !.call[c].conf = TRUE]

(* addParticipant, takeOverMediaSourceControl and enterConference; an ended *)
(* call is entered in the list all the same.                                *)
EnterConference(m, c) ==
    LET k == [m.conf EXCEPT !.participants = @ \cup {c}]
        p == IF m.call[c].peerMuted THEN [k EXCEPT !.muted = @ \cup {c}] ELSE k
    IN  IF c \in m.conf.participants \/ c \notin Live(m) THEN [m EXCEPT !.conf = k]
        ELSE [m EXCEPT !.conf = IF p.attached /\ p.participants = {c}
                                THEN SetLocalHostMuteState(p, m.call[c].muted) ELSE p,
                       !.call[c].muted = FALSE,
                       !.call[c].conf = TRUE,
                       !.pool = IF k.playback THEN SetLocalPlaybackMuted(@, {c}, TRUE) ELSE @]

(* Seeded bug: the microphone filter is left as it is. *)
BindParticipantUnfiltered(m, c) ==
    LET k == m.conf
        others == (k.participants \ {c}) \cap Live(m)
    IN  [m EXCEPT !.pool =
            Bind(@, {<<o, c>> : o \in others} \cup {<<c, o>> : o \in {o \in others : ~IsMuted(k, o)}}
                        \cup (IF k.attached /\ (k.playback \/ ~HostMuted(k)) THEN FromHost({c}) ELSE {})
                        \cup (IF k.attached /\ ~k.playback THEN ToHost({c}) ELSE {}))]

(* The other participants, then the local one. *)
BindParticipant(m, c) ==
    LET k == m.conf
        others == (k.participants \ {c}) \cap Live(m)
        b == Bind(m.pool, {<<o, c>> : o \in others} \cup {<<c, o>> : o \in {o \in others : ~IsMuted(k, o)}})
    IN  [m EXCEPT !.pool =
            IF ~k.attached THEN b
            ELSE Bind(SetMicMuted(b, {c}, HostMuted(k)),
                      (IF k.playback \/ ~HostMuted(k) THEN FromHost({c}) ELSE {})
                          \cup (IF k.playback THEN {} ELSE ToHost({c})))]

(* addAudio does nothing for a call that is in a conference. *)
AddAudio(m, c) == IF m.call[c].conf THEN m ELSE [m EXCEPT !.pool = BindCallID(@, c, DEFAULT_ID)]

(* Seeded bug: the readers of the call go, its own readings stay. *)
RemoveAudioOneWay(m, c) == [m EXCEPT !.pool = UnBindAllHalfDuplexOut(@, c)]

RemoveAudio(m, c) == [m EXCEPT !.pool = UnBindAll(@, c)]

OffHold(m, c) ==
    IF c \notin Live(m) THEN m
    ELSE AddAudio([m EXCEPT !.call[c].held = FALSE, !.current = IF m.call[c].conf THEN Conf ELSE c], c)

OnHold(m, c) ==
    IF c \notin Live(m) THEN m
    ELSE RemoveAudio([m EXCEPT !.call[c].held = TRUE, !.current = IF @ = c THEN None ELSE @], c)

BindCallToConference(m, c) ==
    LET unbound == [m EXCEPT !.pool = UnBindHalfDuplexOut(UnBindAll(@, c), DEFAULT_ID, c)]
        bound == BindParticipant(EnterConference(unbound, c), c)
    IN  IF m.call[c].held THEN OffHold(bound, c) ELSE bound

JoinParticipant(c1, c2, attached, muteLocalPlayback) ==
    /\ mgr.conf.state = "none"
    /\ c1 # c2 /\ {c1, c2} \subseteq Live(mgr)
    /\ Begin("api", [mgr EXCEPT !.conf = NewConference(muteLocalPlayback)],
             Do("bindCall", {c1}, FALSE) \o Do("bindCall", {c2}, FALSE)
                 \o IF attached THEN Do("attach", {}, TRUE) ELSE Do("detach", {}, FALSE))

BindCall(t) ==
    /\ Takes(t, "bindCall")
    /\ \E c \in Head(prog[t]).ids : Continue(t, BindCallToConference(mgr, c), <<>>)
    /\ UNCHANGED past

(* addParticipant of the Manager. *)
AddParticipant(c) ==
    /\ mgr.conf.state = "listed"
    /\ c \in Live(mgr) /\ ~mgr.call[c].conf
    /\ Begin("api", BindCallToConference(mgr, c), Do("added", {c}, FALSE))

Added(t) ==
    /\ Takes(t, "added")
    /\ \E c \in Head(prog[t]).ids :
          Continue(t, IF mgr.conf.attached THEN AddAudio([mgr EXCEPT !.current = Conf], c) ELSE mgr, <<>>)
    /\ UNCHANGED past

(* attachLocalParticipant: whether the host is muted is read once.  The flag *)
(* says that joinParticipant sets the default source first.                  *)
AttachLocalParticipant(t) ==
    /\ Takes(t, "attach")
    /\ LET k == IF Head(prog[t]).flag THEN SetLocalHostDefaultMediaSource(mgr.conf) ELSE mgr.conf
           a == [k EXCEPT !.attached = TRUE]
       IN  Continue(t, [mgr EXCEPT !.conf = a],
                    Do("attachEach", IF k.attached THEN {} ELSE k.participants, HostMuted(a)))
    /\ UNCHANGED past

AttachEach(t) ==
    /\ Takes(t, "attachEach")
    /\ LET ids == Head(prog[t]).ids \cap Live(mgr)
           hostMuted == Head(prog[t]).flag
           silenced == {c \in ids : mgr.conf.playback \/ IsMuted(mgr.conf, c)}
       IN  Continue(t, [mgr EXCEPT !.current = Conf,
                                   !.pool = Bind(SetMicMuted(@, ids, hostMuted),
                                                 (IF hostMuted THEN {} ELSE FromHost(ids))
                                                     \cup ToHost(ids \ silenced))],
                    <<>>)
    /\ UNCHANGED past

(* addMainParticipant, and unHoldConference of a detached conference. *)
AddMainParticipant ==
    /\ mgr.conf.state = "listed"
    /\ Begin("api", mgr, Do("attach", {}, FALSE))

(* holdConference, and detachLocalParticipant of the Manager (the flag),    *)
(* after which no call is the current one.                                  *)
HoldConference(leave) ==
    /\ mgr.conf.state = "listed"
    /\ Begin("api", mgr, Do("detach", {}, leave))

DetachLocalParticipant(t) ==
    /\ Takes(t, "detach")
    /\ LET ids == mgr.conf.participants \cap Live(mgr)
           left == [mgr EXCEPT !.current = IF Head(prog[t]).flag THEN None ELSE @]
       IN  IF ~mgr.conf.attached THEN Continue(t, left, <<>>)
           ELSE Continue(t, [left EXCEPT !.pool = Unbind(@, FromHost(ids) \cup ToHost(ids))],
                         Do("detached", {}, FALSE))
    /\ UNCHANGED past

Detached(t) ==
    /\ Takes(t, "detached")
    /\ Continue(t, [mgr EXCEPT !.conf = [SetLocalHostDefaultMediaSource(@) EXCEPT !.attached = FALSE]], <<>>)
    /\ UNCHANGED past

----------------------------------------------------------------------------
(* Muting *)

(* muteLocalHost: the bindings and the filters follow, then the state. *)
MuteLocalHost(isMuted) ==
    LET k == mgr.conf
    IN  /\ k.state = "listed"
        /\ Begin("api", [mgr EXCEPT !.conf.asked = isMuted],
                 IF k.attached /\ isMuted = IsMediaSourceMuted(k) THEN <<>>
                 ELSE (IF ~k.attached THEN Do("filter", {}, isMuted)
                       ELSE IF IsMuted(k, Host) THEN <<>>
                       ELSE Do(IF isMuted THEN "unbindHost" ELSE "bindHost", {}, FALSE))
                      \o Do("muteSource", {}, isMuted))

MuteSource(t) ==
    /\ Takes(t, "muteSource")
    /\ Continue(t, [mgr EXCEPT !.conf = SetLocalHostMuteState(@, Head(prog[t]).flag)], <<>>)
    /\ UNCHANGED past

(* muteHost, by a client or by a moderator. *)
MuteHost(t, state) ==
    LET k == mgr.conf
    IN  /\ k.state = "listed"
        /\ state # IsMuted(k, Host)
        /\ Begin(t, [mgr EXCEPT !.conf.muted = IF state THEN @ \cup {Host} ELSE @ \ {Host}],
                 IF IsMediaSourceMuted(k) THEN IF state THEN Do("filter", {}, TRUE) ELSE <<>>
                 ELSE Do(IF state THEN "unbindHost" ELSE "bindHost", {}, FALSE))

Filter(t) ==
    /\ Takes(t, "filter")
    /\ Continue(t, [mgr EXCEPT !.pool = SetMicMuted(@, mgr.conf.participants, Head(prog[t]).flag)], <<>>)
    /\ UNCHANGED past

BindHost(t) ==
    /\ Takes(t, "bindHost")
    /\ LET ids == mgr.conf.participants \cap Live(mgr)
           open == {c \in ids : ~IsMuted(mgr.conf, c)}
       IN  Continue(t, [mgr EXCEPT !.pool = Bind(SetMicMuted(@, ids, FALSE),
                                                 FromHost(open) \cup (IF mgr.conf.playback THEN {} ELSE ToHost(open)))],
                    <<>>)
    /\ UNCHANGED past

UnbindHost(t) ==
    /\ Takes(t, "unbindHost")
    /\ LET ids == mgr.conf.participants
       IN  Continue(t, [mgr EXCEPT !.pool = SetMicMuted(Unbind(@, FromHost(ids)), ids, TRUE)], <<>>)
    /\ UNCHANGED past

(* muteCall, by a client or by a moderator. *)
MuteCall(t, c, state) ==
    /\ mgr.conf.state = "listed" /\ c \in mgr.conf.participants \cap Live(mgr)
    /\ state # IsMuted(mgr.conf, c)
    /\ Begin(t, [mgr EXCEPT !.conf.muted = IF state THEN @ \cup {c} ELSE @ \ {c}],
             Do(IF state THEN "unbindParticipant" ELSE "bindParticipant", {c}, FALSE))

RebindParticipant(t) ==
    /\ \/ /\ Takes(t, "unbindParticipant")
          /\ \E c \in Head(prog[t]).ids :
                Continue(t, [mgr EXCEPT !.pool = UnBindAllHalfDuplexOut(@, c)], <<>>)
       \/ /\ Takes(t, "bindParticipant")
          /\ \E c \in Head(prog[t]).ids : Continue(t, BindParticipant(mgr, c), <<>>)
    /\ UNCHANGED past

(* muteLocalPlayback: the participants are those of the beginning. *)
MuteLocalPlayback(muted) ==
    /\ mgr.conf.state = "listed"
    /\ Begin("api", [mgr EXCEPT !.conf.playback = muted], Do("playback", mgr.conf.participants, muted))

(* Seeded bug: the filters are set and lifted, the bindings stay. *)
PlaybackFiltersOnly(t) ==
    /\ Takes(t, "playback")
    /\ Continue(t, [mgr EXCEPT !.pool = SetLocalPlaybackMuted(@, Head(prog[t]).ids, Head(prog[t]).flag)], <<>>)
    /\ UNCHANGED past

Playback(t) ==
    /\ Takes(t, "playback")
    /\ LET ids == Head(prog[t]).ids
           muted == Head(prog[t]).flag
           k == mgr.conf
           heard == IF muted THEN {} ELSE {c \in ids : ~IsMuted(k, c)}
           b == SetLocalPlaybackMuted(mgr.pool, ids, muted)
       IN  Continue(t, [mgr EXCEPT !.pool =
                           IF ~k.attached THEN b
                           ELSE Bind(SetMicMuted(Unbind(b, ToHost(ids)), ids, HostMuted(k)),
                                     ToHost(heard) \cup (IF HostMuted(k) THEN {} ELSE FromHost(heard)))],
                    <<>>)
    /\ UNCHANGED past

----------------------------------------------------------------------------
(* Leaving *)

(* removeParticipant of the Conference: the filters first, then the list. *)
ClearFilters(pool, ids) == SetMicMuted(SetLocalPlaybackMuted(pool, ids, FALSE), ids, FALSE)

(* Seeded bug: the call is not bound to the host again. *)
ExitConferenceUnbound(m, ids) ==
    [m EXCEPT !.call = [c \in Calls |-> IF c \in ids THEN [@[c] EXCEPT !.conf = FALSE] ELSE @[c]]]

(* exitConference of each call. *)
ExitConference(m, ids) ==
    LET own == {c \in ids : ~m.call[c].muted}
    IN  [m EXCEPT !.pool = Bind(@, FromHost(own) \cup ToHost(own)),
                  !.call = [c \in Calls |-> IF c \in ids THEN [@[c] EXCEPT !.conf = FALSE] ELSE @[c]]]

Erase(m, c) ==
    IF c \notin m.conf.participants THEN m
    ELSE LET k == [m.conf EXCEPT !.participants = @ \ {c}]
         IN  IF c \notin Live(m) THEN [m EXCEPT !.conf = k]
             ELSE ExitConference([m EXCEPT !.conf = [k EXCEPT !.muted = @ \ {c}]], {c})

ProcessRemainingParticipants(m) ==
    LET last == m.conf.participants
        over == [m EXCEPT !.conf.state = "unlisted"]
    IN  IF m.conf.state = "none" \/ Cardinality(last) > 1 THEN m
        ELSE IF last = {} THEN [over EXCEPT !.current = None]
        ELSE LET c == CHOOSE c \in last : TRUE
             IN  IF c \notin Live(m) THEN over
                 ELSE IF m.current = Conf THEN [over EXCEPT !.current = c]
                 ELSE OnHold(over, c)

(* removeParticipant of the Manager.  The last instruction gives up its      *)
(* reference to the conference.                                              *)
RemoveParticipant(c, stays) == Do("clear", {c}, FALSE) \o Do("erase", {c}, stays) \o Do("release", {}, FALSE)

DetachParticipant(c) ==
    /\ c \in Live(mgr) /\ mgr.call[c].conf
    /\ Begin("api", mgr, RemoveParticipant(c, TRUE))

Clear(t) ==
    /\ Takes(t, "clear")
    /\ Continue(t, [mgr EXCEPT !.pool = ClearFilters(@, Head(prog[t]).ids)], <<>>)
    /\ UNCHANGED past

EraseParticipant(t) ==
    /\ Takes(t, "erase")
    /\ \E c \in Head(prog[t]).ids :
          LET m == RemoveAudio(Erase(mgr, c), c)
          IN  /\ Continue(t, ProcessRemainingParticipants(m), <<>>)
              /\ past' = past \cup Note(\E o \in Calls : <<o, c>> \in m.pool.reads, "oneway")
                              \cup Note(Head(prog[t]).flag, "detached")

(* The thread that gives up the last reference runs ~Conference;             *)
(* hangupConference has one until it is through with all the calls.          *)
Release(t) ==
    /\ Takes(t, "release")
    /\ LET busy == {u \in Threads \ {t} : prog[u] # <<>>}
           keeps == \E i \in 2 .. Len(prog[t]) : prog[t][i].op = "hangupEach"
           ids == mgr.conf.participants
           cleared == [mgr EXCEPT !.pool = ClearFilters(@, ids)]
       IN  IF mgr.conf.state # "unlisted" \/ keeps THEN Continue(t, mgr, <<>>)
           ELSE IF busy = {}
           THEN Continue(t, [ExitConference(cleared, ids \cap Live(mgr)) EXCEPT !.conf = NoConference], <<>>)
           ELSE /\ prog' = [u \in Threads |-> IF u = t THEN Tail(prog[u])
                                              ELSE prog[u] \o Do("release", {}, FALSE)]
                /\ UNCHANGED <<mgr, rtp, starts>>
    /\ UNCHANGED past

(* hangupCall, by a client or by a moderator. *)
Hangup(m, c, byPeer) ==
    (IF m.call[c].conf THEN RemoveParticipant(c, FALSE) ELSE <<>>) \o Do("over", {c}, byPeer)

LeaveCurrent(m, c) == [m EXCEPT !.current = IF ~m.call[c].conf /\ @ = c THEN None ELSE @]

HangupCall(t, c) ==
    /\ c \in Live(mgr)
    /\ Begin(t, LeaveCurrent(RemoveAudio(mgr, c), c), Hangup(mgr, c, FALSE))

PeerHungupCall(c) ==
    /\ c \in Live(mgr)
    /\ Begin("sip", LeaveCurrent(mgr, c), Hangup(mgr, c, TRUE))

(* The call leaves CallFactory and its RTP sessions end.  peerHungupCall     *)
(* (the flag) removes its audio afterwards.                                  *)
Over(t) ==
    /\ Takes(t, "over")
    /\ \E c \in Head(prog[t]).ids :
          /\ mgr' = LET m == [mgr EXCEPT !.call[c].live = FALSE, !.call[c].held = FALSE]
                     IN  IF Head(prog[t]).flag THEN RemoveAudio(m, c) ELSE m
          /\ rtp' = IF rtp = c THEN None ELSE rtp
    /\ prog' = [prog EXCEPT ![t] = Tail(@)]
    /\ UNCHANGED <<starts, past>>

HangupConference ==
    /\ mgr.conf.state = "listed"
    /\ Begin("api", mgr, Do("hangupEach", mgr.conf.participants, FALSE))

HangupEach(t) ==
    /\ Takes(t, "hangupEach")
    /\ LET ids == Head(prog[t]).ids \cap Live(mgr)
       IN  \/ ids = {} /\ Continue(t, [mgr EXCEPT !.current = None], Do("release", {}, FALSE))
           \/ \E c \in ids : Continue(t, LeaveCurrent(RemoveAudio(mgr, c), c),
                                      Hangup(mgr, c, FALSE) \o Do("hangupEach", ids \ {c}, FALSE))
    /\ UNCHANGED past

----------------------------------------------------------------------------
(* The calls by themselves *)

OnHoldCall(c) ==
    /\ c \in Live(mgr) /\ ~mgr.call[c].held /\ ~mgr.call[c].conf
    /\ Begin("api", OnHold(mgr, c), <<>>)

OffHoldCall(c) ==
    /\ c \in Live(mgr) /\ mgr.call[c].held
    /\ Begin("api", OffHold(mgr, c), <<>>)

(* AudioReceiveThread::setup, run anew after every re-INVITE: whether the    *)
(* conference manages the audio is read, then the binding is made.           *)
SetupReads(c) ==
    /\ c \in Live(mgr) /\ rtp = None /\ ~mgr.call[c].conf
    /\ starts < MaxStarts /\ starts' = starts + 1
    /\ rtp' = c
    /\ UNCHANGED <<mgr, prog, past>>

SetupBinds(c) ==
    /\ rtp = c
    /\ rtp' = None
    /\ mgr' = [mgr EXCEPT !.pool = BindHalfDuplexOut(@, DEFAULT_ID, c)]
    /\ UNCHANGED <<prog, starts, past>>

----------------------------------------------------------------------------
ClientAsks ==
    \/ \E c1, c2 \in Calls, a, m \in BOOLEAN : JoinParticipant(c1, c2, a, m)
    \/ \E c \in Calls : AddParticipant(c) \/ DetachParticipant(c) \/ OnHoldCall(c) \/ OffHoldCall(c)
    \/ \E b \in BOOLEAN : HoldConference(b) \/ MuteLocalHost(b) \/ MuteLocalPlayback(b)
    \/ AddMainParticipant \/ HangupConference

(* What a client may ask for, and a moderator too. *)
Order(t) ==
    \/ \E b \in BOOLEAN : MuteHost(t, b)
    \/ \E c \in Calls, b \in BOOLEAN : MuteCall(t, c, b)
    \/ \E c \in Calls : HangupCall(t, c)

Step(t) ==
    \/ BindCall(t) \/ Added(t) \/ AttachLocalParticipant(t) \/ AttachEach(t)
    \/ DetachLocalParticipant(t) \/ Detached(t)
    \/ MuteSource(t) \/ Filter(t) \/ BindHost(t) \/ UnbindHost(t) \/ RebindParticipant(t) \/ Playback(t)
    \/ Clear(t) \/ EraseParticipant(t) \/ Release(t) \/ Over(t) \/ HangupEach(t)

Next ==
    \/ ClientAsks
    \/ \E t \in Threads : Order(t) \/ Step(t)
    \/ \E c \in Calls : PeerHungupCall(c) \/ SetupReads(c) \/ SetupBinds(c)

Spec == Init /\ [][Next]_vars

----------------------------------------------------------------------------
Ids == Calls \cup {DEFAULT_ID}

Instruction == [op : STRING, ids : SUBSET Calls, flag : BOOLEAN]

(* The pool, the conference, the calls and the programs keep their shape;   *)
(* the filters name calls only, never the default buffer.                   *)
TypeOK ==
    /\ mgr \in [pool : [reads : SUBSET (Ids \X Ids), mic : SUBSET Calls, play : SUBSET Calls],
                conf : Conference, call : [Calls -> Call], current : Calls \cup {Conf, None}]
    /\ rtp \in Calls \cup {None}
    /\ prog \in [Threads -> Seq(Instruction)]
    /\ past \subseteq Mishaps

(* What is heard: bound, and let through by the filters of getData; a call  *)
(* whose own audio is muted sends nothing.                                  *)
Hears(reader, source) ==
    /\ source \in GetData(mgr.pool, reader)
    /\ source = DEFAULT_ID => ~mgr.call[reader].muted

Present == mgr.conf.participants \cap Live(mgr)

(* Once the host of an attached conference is muted, by the client          *)
(* (muteLocalHost) or by a moderator (muteHost), no participant hears the   *)
(* microphone, whatever joined, was unmuted or was bound again since.       *)
(* Operations of two threads that cross are left out: attachLocalParticipant *)
(* reads the mute once and binds afterwards.                                *)
MutedHostIsUnheard ==
    Idle /\ "crossed" \notin past /\ mgr.conf.attached /\ HostMuted(mgr.conf)
        => \A c \in Present : ~Hears(c, DEFAULT_ID)

(* The host does not hear a conference whose local playback is muted        *)
(* (muteLocalPlayback), even when operations cross and when a receive       *)
(* thread that was told it is not in a conference binds its call later.     *)
MutedPlaybackIsSilent ==
    Idle /\ mgr.conf.playback => \A c \in Present : ~Hears(DEFAULT_ID, c)

(* Two calls hear each other only within the conference: removeAudio leaves *)
(* nothing behind, except that a muted participant goes on hearing a call   *)
(* that leaves (unBindAll looks at what the leaving call reads).            *)
NoStrayListener ==
    Idle /\ past \cap {"crossed", "oneway"} = {}
        => \A c, d \in Live(mgr) : c # d /\ Hears(c, d) => {c, d} \subseteq mgr.conf.participants

(* In a conference whose host has a source, a participant that is not muted *)
(* is heard by all the others and, unless playback is muted, by the         *)
(* attached host, and hears the host unless the host is muted: every        *)
(* sequence of muting, unmuting, attaching and detaching comes back to it.  *)
EverybodyIsHeard ==
    Idle /\ mgr.conf.state = "listed" /\ mgr.conf.source # "none" /\ "crossed" \notin past
        => \A c \in Present \ mgr.conf.muted :
              /\ \A d \in Present \ {c} : Hears(d, c)
              /\ mgr.conf.attached /\ ~HostMuted(mgr.conf) => Hears(c, DEFAULT_ID)
              /\ mgr.conf.attached /\ ~mgr.conf.playback => Hears(DEFAULT_ID, c)

(* The current call, when it is not in a conference, and the host hear each *)
(* other: in particular the call that is left when the conference dissolves *)
(* (processRemainingParticipants, exitConference).  A call that a client    *)
(* detached has no audio until it is held and resumed.                      *)
CurrentCallTalks ==
    Idle /\ past \cap {"crossed", "detached"} = {}
        => \A c \in Live(mgr) : mgr.current = c /\ ~mgr.call[c].conf
              => Hears(DEFAULT_ID, c) /\ (~mgr.call[c].muted => Hears(c, DEFAULT_ID))

(* A mute requested before the host is attached "survives the attach"       *)
(* (comment in muteLocalHost).                                              *)
MuteSurvivesAttach ==
    Idle /\ "crossed" \notin past /\ mgr.conf.attached /\ mgr.conf.asked
        => \A c \in Present : ~Hears(c, DEFAULT_ID)

====
