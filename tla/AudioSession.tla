----------------------------- MODULE AudioSession -----------------------------
(***************************************************************************)
(* The audio of one call: AudioRtpSession                                  *)
(* (src/src/media/audio/audio_rtp_session.cpp) with its socket pair, its   *)
(* sender, its receive thread and its two thread loops                     *)
(* (src/src/threadloop.cpp), as SIPCall (src/src/sip/sipcall.cpp) starts,  *)
(* holds, resumes and stops it.                                            *)
(*                                                                         *)
(* Threads: sip (negotiations), api (hold, resume, hang up) and main       *)
(* (device changes, the end of the call).  What a thread still has to do   *)
(* is its program.  A step of a program is what happens under one lock     *)
(* without waiting: a join is a step of its own, taken once the worker has *)
(* returned.  Workers: the receive loop, the NAT punch loop, the RTCP      *)
(* checker, and the microphone that feeds an attached sender.              *)
(*                                                                         *)
(* The call has one audio stream, which stays enabled, coded by            *)
(* MediaEncoder, and a peer that does not mute itself.                     *)
(***************************************************************************)
EXTENDS Naturals, Sequences

CONSTANT
    MaxStarts     \* bound: operations begun once the call is answered

ASSUME StartBound == MaxStarts \in Nat

Threads == {"sip", "api", "main"}
Nobody == "nobody"

(* A sequence number, by where it is from the last one sent: ahead of it,  *)
(* or behind (used already); none where there is none.  Numbers are        *)
(* counted modulo 2^16.  MediaEncoder::setInitSeqVal ignores a 0, and      *)
(* rtpenc then draws a low number, which is ahead of the last one too.     *)
Places == {"ahead", "behind"}
Seqs == Places \cup {"none"}
Passed(p) == IF p = "none" THEN p ELSE "behind"

VARIABLES
    call,    \* SIPCall: what startAllMedia, hold and internalOffHold read and write
    ses,     \* AudioRtpSession, and what it has sent
    lock,    \* who holds the call's and the session's recursive mutex
    prog,    \* what each thread still has to do
    starts,  \* operations begun once the call is answered
    past     \* history: what the properties make allowance for

vars == <<call, ses, lock, prog, starts, past>>

(* What the properties below make allowance for. *)
Mishaps ==
    {"stale",    \* a device change restarted the sender of a call no longer active, or
                 \* met one in a call that the peer wants nothing from
     "device",   \* an audio device did not give its parameters in time
     "failed"}   \* a hold or a resume was not sent, or was refused, since the last start

-----------------------------------------------------------------------------
(* What was negotiated, by the directions of the local and the remote      *)
(* description: both (sendrecv, sendrecv), hold (sendonly, recvonly),      *)
(* holdSend (sendonly, sendrecv), held (recvonly, sendonly), none          *)
(* (inactive); off before the first negotiation.                           *)
Directions == {"both", "hold", "holdSend", "held", "none", "off"}

(* Sdp::mediaDirection: a held stream is offered, and answered, sendonly. *)
Outcomes(onHold) == IF onHold THEN {"hold", "holdSend", "none"} ELSE {"both", "held", "none"}

(* Sdp::getMediaDescriptions: onHold is recvonly or inactive. *)
SendOnHold(d) == d \in {"hold", "none"}
ReceiveOnHold(d) == d \in {"held", "none"}

Call ==
    [state : {"ACTIVE", "HOLD", "OVER"},
     inv : {"EARLY", "CONFIRMED", "DISCONNECTED"},   \* the INVITE session
     connected : BOOLEAN,                            \* ConnectionState::CONNECTED
     onHold : BOOLEAN,                               \* mediaAttribute_->onHold_
     tsx : {"none", "ours", "done"},                 \* invite_tsx; done: negotiated, not yet over
     offered : BOOLEAN,                              \* onHold_ when our offer was made
     sdp : Directions,                               \* the active descriptions
     gone : BOOLEAN]                                 \* the call is destroyed

(* ThreadLoop: the state of the loop, and where its worker is. *)
Loop == [state : {"READY", "RUNNING", "STOPPING"}, at : {"out", "setup", "in"}]

Session ==
    [dir : Directions,                          \* send_ and receive_
     hold : BOOLEAN,                            \* holdKeepaliveMode_
     reserved : BOOLEAN,                        \* reservedSocketPair_
     socket : {"none", "open", "interrupted"},  \* socketPair_ and interrupted_
     blocking : BOOLEAN,                        \* readBlockingMode_
     sender : Seqs,                             \* the number of the next packet of sender_
     input : {"none", "idle", "attached"},      \* audioInput_
     muted : BOOLEAN,                           \* muteState_ of the receive thread
     init : Places, last : Seqs,                \* initSeqVal_, lastSenderSeqVal_
     punch : Loop, rtcp : Loop, receive : Loop] \* natPunchThread_, rtcpCheckerThread_, receiveThread_

Unstarted == [state |-> "READY", at |-> "out"]

(* An outgoing call that rings. *)
Init ==
    /\ call = [state |-> "ACTIVE", inv |-> "EARLY", connected |-> FALSE,
               onHold |-> FALSE, tsx |-> "ours", offered |-> FALSE, sdp |-> "off", gone |-> FALSE]
    /\ ses = [dir |-> "off", hold |-> FALSE, reserved |-> FALSE, socket |-> "none",
              blocking |-> FALSE, sender |-> "none", input |-> "none", muted |-> FALSE, init |-> "ahead",
              last |-> "none", punch |-> Unstarted, rtcp |-> Unstarted, receive |-> Unstarted]
    /\ lock = [call |-> Nobody, session |-> Nobody]
    /\ prog = [t \in Threads |-> <<>>]
    /\ starts = 0
    /\ past = {}

-----------------------------------------------------------------------------
(* Thread loops.  ThreadLoop::stop marks the loop, its worker returns by   *)
(* itself; ThreadLoop::join marks it and waits until the worker is out.    *)
Stopping(l) == IF l.state = "RUNNING" THEN [l EXCEPT !.state = "STOPPING"] ELSE l
Out(l) == l.at = "out"

(* What is not the program's to choose: whether the device gives its       *)
(* parameters in time, and whether a new punch worker reaches              *)
(* InterruptedThreadLoop::wait_for only after ThreadLoop::start has        *)
(* recorded its id (else wait_for throws and the loop ends).               *)
Luck == [params : BOOLEAN, spawned : BOOLEAN]

(* SocketPair::writeCallback: an interrupted pair sends nothing. *)
Packet(s) ==
    IF s.socket = "open"
       THEN [s EXCEPT !.sender = "ahead", !.init = "behind", !.last = Passed(@)] ELSE s

(* ensureSocketPairLocked; a missing reservation throws and changes nothing. *)
EnsureSocketPair(s) ==
    IF s.socket = "none" /\ s.reserved
       THEN [s EXCEPT !.socket = "open", !.reserved = FALSE, !.blocking = FALSE] ELSE s

(* The next sender goes on from the present one, or from the one that      *)
(* stop() remembered: one after getLastSeqValue, which is the number of    *)
(* the next packet.                                                        *)
NewSender(s) ==
    LET i == IF s.sender # "none" THEN s.sender
             ELSE IF s.last # "none" THEN s.last ELSE s.init
    IN  [s EXCEPT !.init = i, !.sender = i]

StartSender(s, k) ==
    IF s.dir = "off" \/ SendOnHold(s.dir)
       THEN IF s.sender = "none" THEN s
            ELSE [s EXCEPT !.socket = "interrupted", !.sender = "none",
                           !.input = IF @ = "attached" THEN "idle" ELSE @]
    ELSE IF ~k.params THEN [s EXCEPT !.input = "idle"]
    ELSE [NewSender(s) EXCEPT !.input = "attached",
              !.rtcp = IF @.state = "RUNNING" THEN @ ELSE [state |-> "RUNNING", at |-> "in"]]

(* Seeded bug: the direction of the sender is looked at. *)
StartReceiverBySender(s) ==
    [s EXCEPT !.blocking = TRUE, !.muted = FALSE,
              !.receive = IF s.dir = "off" \/ SendOnHold(s.dir) THEN Unstarted
                          ELSE [state |-> "RUNNING", at |-> "setup"]]

StartReceiver(s) ==
    [s EXCEPT !.blocking = TRUE, !.muted = FALSE,
              !.receive = IF s.dir = "off" \/ ReceiveOnHold(s.dir) THEN Unstarted
                          ELSE [state |-> "RUNNING", at |-> "setup"]]

StartNatPunching(s, k) ==
    LET p == Packet(s)
    IN  IF s.sender = "none" THEN s
        ELSE IF p.punch.state = "RUNNING" THEN p
        ELSE [p EXCEPT !.punch = IF k.spawned THEN [state |-> "RUNNING", at |-> "in"]
                                 ELSE [state |-> "STOPPING", at |-> "out"]]

(* Seeded bug: a keepalive without a sender of its own. *)
StartHoldKeepaliveSenderless(s, k) ==
    LET e == [EnsureSocketPair(s) EXCEPT !.hold = TRUE, !.input = "none"]
    IN  IF s.dir = "off" \/ e.socket = "none" THEN s ELSE StartNatPunching(e, k)

StartHoldKeepalive(s, k) ==
    LET e == [EnsureSocketPair(s) EXCEPT !.hold = TRUE, !.input = "none"]
    IN  IF s.dir = "off" \/ e.socket = "none" THEN s
        ELSE StartNatPunching(IF e.sender = "none" THEN NewSender(e) ELSE e, k)

(* SIPCall::applyLocalHoldAudioKeepalive(true, _) *)
HoldAudio(s, k) == StartHoldKeepalive([s EXCEPT !.muted = s.receive.state # "READY"], k)

-----------------------------------------------------------------------------
(* Programs.  A step of a program is taken by the thread whose program     *)
(* begins with it; "lock" steps wait for a mutex, joins for a worker.      *)
Idle(t) == prog[t] = <<>>
At(t, op) == ~Idle(t) /\ Head(prog[t]) = op
Then(t, p) == prog' = [prog EXCEPT ![t] = p]
Next1(t) == Then(t, Tail(prog[t]))
CallFree == lock.call = Nobody
SessionFree == lock.session = Nobody
Take(m, t) == lock' = [lock EXCEPT ![m] = t]
Give(m) == lock' = [lock EXCEPT ![m] = Nobody]

StopMedia == <<"stop", "quiet", "clear">>
Restart == <<"configure">> \o StopMedia
HoldCall == <<"setHold", "keepalive", "sendHold">>
Resume == <<"setActive", "unapply", "unapplied", "sendResume">>

(* SIPCall::setupNegotiatedMedia and configureRtpSession *)
Configure(t) ==
    /\ At(t, "configure") /\ SessionFree
    /\ ses' = [ses EXCEPT !.dir = call.sdp, !.reserved = TRUE]
    /\ Next1(t)
    /\ UNCHANGED <<call, lock, starts, past>>

(* AudioRtpSession::stop, until it waits for the punch worker *)
Stop(t) ==
    /\ At(t, "stop") /\ SessionFree
    /\ ses' = [ses EXCEPT !.hold = FALSE, !.punch = Stopping(@)]
    /\ Take("session", t) /\ Next1(t)
    /\ UNCHANGED <<call, starts, past>>

(* ... until it waits for the RTCP checker and the receive thread *)
StopReceiver(t) ==
    /\ At(t, "quiet") /\ Out(ses.punch)
    /\ ses' = [ses EXCEPT !.blocking = FALSE, !.receive = Stopping(@), !.rtcp = Stopping(@),
                          !.input = IF @ = "attached" THEN "idle" ELSE @,
                          !.socket = IF @ = "open" THEN "interrupted" ELSE @]
    /\ Next1(t)
    /\ UNCHANGED <<call, lock, starts, past>>

(* Seeded bug: the number of the sender is not kept. *)
StopSenderForgetting(t) ==
    /\ At(t, "clear") /\ Out(ses.rtcp) /\ Out(ses.receive)
    /\ ses' = [ses EXCEPT !.receive = Unstarted, !.muted = FALSE, !.sender = "none", !.input = "none",
                          !.socket = "none", !.reserved = @ \/ (ses.socket # "none" /\ ses.dir # "off")]
    /\ Give("session") /\ Next1(t)
    /\ UNCHANGED <<call, starts, past>>

(* ... and to its end: the sequence number and the ports are kept *)
StopSender(t) ==
    /\ At(t, "clear") /\ Out(ses.rtcp) /\ Out(ses.receive)
    /\ ses' = [ses EXCEPT !.receive = Unstarted, !.muted = FALSE,
                          !.last = IF ses.sender # "none" THEN ses.sender ELSE @,
                          !.sender = "none", !.input = "none", !.socket = "none",
                          !.reserved = @ \/ (ses.socket # "none" /\ ses.dir # "off")]
    /\ Give("session") /\ Next1(t)
    /\ UNCHANGED <<call, starts, past>>

Unfortunate(k) == IF k.params THEN {} ELSE {"device"}

(* Seeded bug: the media of a held call are started. *)
StartAllMediaOnHold(t) ==
    /\ At(t, "startAll")
    /\ past' = past \ {"failed"}
    /\ Then(t, <<"start", "started">> \o Tail(prog[t]))
    /\ UNCHANGED <<call, ses, lock, starts>>

(* SIPCall::startAllMedia: a held call only gets its keepalive. *)
StartAllMedia(t) ==
    /\ At(t, "startAll")
    /\ past' = past \ {"failed"}
    /\ IF call.state = "HOLD"
          THEN /\ SessionFree
               /\ \E k \in Luck : k.params /\ ses' = HoldAudio(ses, k)
               /\ Next1(t)
          ELSE Then(t, <<"start", "started">> \o Tail(prog[t])) /\ UNCHANGED ses
    /\ UNCHANGED <<call, lock, starts>>

(* AudioRtpSession::start, until it waits for the punch worker *)
Start(t) ==
    /\ At(t, "start") /\ SessionFree
    /\ ses' = [ses EXCEPT !.hold = FALSE, !.punch = Stopping(@)]
    /\ Take("session", t) /\ Next1(t)
    /\ UNCHANGED <<call, starts, past>>

(* ... and to its end *)
Started(t) ==
    /\ At(t, "started") /\ Out(ses.punch)
    /\ \E k \in Luck :
          LET e == EnsureSocketPair(ses)
          IN  /\ ses' = IF e.socket = "none" THEN e ELSE StartReceiver(StartSender(e, k))
              /\ past' = past \cup Unfortunate(k)
    /\ Give("session") /\ Next1(t)
    /\ UNCHANGED <<call, starts>>

(* The end of SIPCall::onMediaNegotiationComplete *)
Unlock(t) ==
    /\ At(t, "unlock")
    /\ Give("call") /\ Next1(t)
    /\ UNCHANGED <<call, ses, starts, past>>

-----------------------------------------------------------------------------
(* SIPCall::hold and SIPCall::internalOffHold *)
SetHold(t) ==
    /\ At(t, "setHold") /\ CallFree
    /\ IF call.state = "OVER" THEN Then(t, <<>>) /\ UNCHANGED call
       ELSE Next1(t) /\ call' = [call EXCEPT !.state = "HOLD"]
    /\ UNCHANGED <<ses, lock, starts, past>>

Keepalive(t) ==
    /\ At(t, "keepalive") /\ SessionFree
    /\ call' = [call EXCEPT !.onHold = TRUE]
    /\ \E k \in Luck : k.params /\ ses' = HoldAudio(ses, k)
    /\ Next1(t)
    /\ UNCHANGED <<lock, starts, past>>

(* SIPCall::SIPSessionReinvite: nothing is sent without a session, or      *)
(* while an INVITE transaction runs; ports and messages may fail too.      *)
Reinvite(t, onFailure) ==
    /\ CallFree
    /\ \/ /\ call.inv = "CONFIRMED" /\ call.tsx = "none"
          /\ call' = [call EXCEPT !.tsx = "ours", !.offered = call.onHold]
          /\ Next1(t)
          /\ UNCHANGED past
       \/ /\ Then(t, onFailure)
          /\ past' = past \cup {"failed"}
          /\ UNCHANGED call
    /\ UNCHANGED <<ses, lock, starts>>

SendHold(t) == At(t, "sendHold") /\ Reinvite(t, <<"unapply", "unapplied", "backActive">>)

SendResume(t) ==
    At(t, "sendResume") /\ Reinvite(t, IF call.connected THEN HoldCall ELSE <<>>)

SetActive(t) ==
    /\ At(t, "setActive") /\ CallFree
    /\ IF call.state = "OVER" THEN Then(t, <<>>) /\ UNCHANGED call
       ELSE Next1(t) /\ call' = [call EXCEPT !.state = "ACTIVE"]
    /\ UNCHANGED <<ses, lock, starts, past>>

BackToActive(t) ==
    /\ At(t, "backActive") /\ CallFree
    /\ call' = [call EXCEPT !.state = IF @ = "OVER" THEN @ ELSE "ACTIVE"]
    /\ past' = past \cup {"failed"}
    /\ Next1(t)
    /\ UNCHANGED <<ses, lock, starts>>

(* applyLocalHoldAudioKeepalive(false, true): AudioRtpSession::stopHoldKeepalive *)
StopHoldKeepalive(t) ==
    /\ At(t, "unapply") /\ SessionFree
    /\ call' = [call EXCEPT !.onHold = FALSE]
    /\ ses' = [ses EXCEPT !.hold = FALSE, !.punch = Stopping(@)]
    /\ Take("session", t) /\ Next1(t)
    /\ UNCHANGED <<starts, past>>

(* ... the sender is started again unless the peer does not want it *)
StoppedHoldKeepalive(t) ==
    /\ At(t, "unapplied") /\ Out(ses.punch)
    /\ \E k \in Luck :
          LET e == EnsureSocketPair(ses)
              r == IF ses.dir = "off" \/ SendOnHold(ses.dir) THEN ses
                   ELSE IF e.socket = "none" THEN e ELSE StartSender(e, k)
          IN  /\ ses' = [r EXCEPT !.muted = FALSE]
              /\ past' = past \cup Unfortunate(k)
    /\ Give("session") /\ Next1(t)
    /\ UNCHANGED <<call, starts>>

Stale == IF call.state # "ACTIVE" \/ (SendOnHold(ses.dir) /\ ses.sender # "none") THEN {"stale"} ELSE {}

(* SIPCall::restartMediaSender and AudioRtpSession::restartSender *)
RestartSender(t) ==
    /\ At(t, "restart") /\ SessionFree
    /\ IF ses.socket = "none" THEN UNCHANGED <<ses, past>>
       ELSE \E k \in Luck :
              /\ ses' = StartSender(ses, k)
              /\ past' = past \cup Unfortunate(k) \cup Stale
    /\ Next1(t)
    /\ UNCHANGED <<call, lock, starts>>

(* The end of SIPCall::hangup and of SIPCall::peerHungup with removeCall *)
Ended(t) ==
    /\ At(t, "ended")
    /\ call' = [call EXCEPT !.state = "OVER", !.inv = "DISCONNECTED", !.connected = FALSE, !.tsx = "none"]
    /\ Give("call") /\ Next1(t)
    /\ UNCHANGED <<ses, starts, past>>

Destroyed(t) ==
    /\ At(t, "gone")
    /\ call' = [call EXCEPT !.gone = TRUE]
    /\ Next1(t)
    /\ UNCHANGED <<ses, lock, starts, past>>

Step(t) ==
    \/ Configure(t) \/ Stop(t) \/ StopReceiver(t) \/ StopSender(t)
    \/ StartAllMedia(t) \/ Start(t) \/ Started(t) \/ Unlock(t)
    \/ SetHold(t) \/ Keepalive(t) \/ SendHold(t) \/ SendResume(t)
    \/ SetActive(t) \/ BackToActive(t) \/ StopHoldKeepalive(t)
    \/ StoppedHoldKeepalive(t) \/ RestartSender(t) \/ Ended(t) \/ Destroyed(t)

-----------------------------------------------------------------------------
(* The sip thread *)
Negotiated(rest) ==
    /\ Idle("sip") /\ CallFree
    /\ Take("call", "sip")
    /\ Then("sip", Restart \o rest)
    /\ UNCHANGED <<ses, past>>

(* A provisional response with a description: onMediaNegotiationComplete.  *)
(* The early media mode of the session is not used, because nothing calls  *)
(* SIPCall::onEarlyMediaProgress183.                                       *)
EarlyMedia(d) ==
    /\ call.inv = "EARLY" /\ call.sdp = "off" /\ d \in Outcomes(FALSE)
    /\ Negotiated(<<"startAll", "unlock">>)
    /\ call' = [call EXCEPT !.sdp = d]
    /\ UNCHANGED starts

(* The answer negotiates media ... *)
Answered(d) ==
    /\ call.inv = "EARLY" /\ d \in Outcomes(FALSE)
    /\ Negotiated(<<"startAll", "unlock">>)
    /\ call' = [call EXCEPT !.sdp = d, !.inv = "CONFIRMED", !.tsx = "done"]
    /\ UNCHANGED starts

(* ... or brings nothing new. *)
AnsweredAfterEarly ==
    /\ call.inv = "EARLY" /\ call.sdp # "off" /\ Idle("sip")
    /\ call' = [call EXCEPT !.inv = "CONFIRMED", !.tsx = "done"]
    /\ UNCHANGED <<ses, lock, prog, starts, past>>

(* The peer answers our re-INVITE. *)
ReinviteAnswered(d) ==
    /\ call.inv = "CONFIRMED" /\ call.tsx = "ours" /\ d \in Outcomes(call.offered)
    /\ Negotiated(<<"startAll", "unlock">>)
    /\ call' = [call EXCEPT !.sdp = d, !.tsx = "done"]
    /\ UNCHANGED starts

ReinviteRefused ==
    /\ call.inv = "CONFIRMED" /\ call.tsx = "ours" /\ Idle("sip")
    /\ call' = [call EXCEPT !.tsx = "none"]
    /\ past' = past \cup {"failed"}
    /\ UNCHANGED <<ses, lock, prog, starts>>

(* SIPCall::onReceiveReinvite: the peer's offer is answered at once. *)
PeerReinvites(d) ==
    /\ call.inv = "CONFIRMED" /\ call.tsx = "none" /\ d \in Outcomes(call.onHold)
    /\ starts < MaxStarts /\ starts' = starts + 1
    /\ Negotiated(<<"startAll", "unlock">>)
    /\ call' = [call EXCEPT !.sdp = d, !.tsx = "done"]

TransactionOver ==
    /\ call.tsx = "done" /\ Idle("sip")
    /\ call' = [call EXCEPT !.tsx = "none"]
    /\ UNCHANGED <<ses, lock, prog, starts, past>>

-----------------------------------------------------------------------------
(* The api and main threads *)
Begin(t, p) ==
    /\ Idle(t) /\ starts < MaxStarts /\ starts' = starts + 1
    /\ Then(t, p)
    /\ UNCHANGED <<call, ses, lock, past>>

Hold == call.connected /\ Begin("api", HoldCall)
Unhold == call.connected /\ Begin("api", Resume)

(* Manager::onAudioDevicesChanged: the state is read here. *)
AudioDevicesChanged == call.connected /\ call.state = "ACTIVE" /\ Begin("main", <<"restart">>)

(* What SIPCall::onAnswered posts *)
Connected ==
    /\ call.inv = "CONFIRMED" /\ ~call.connected /\ Idle("sip") /\ Idle("main")
    /\ call' = [call EXCEPT !.connected = TRUE]
    /\ UNCHANGED <<ses, lock, prog, starts, past>>

(* SIPCall::hangup (api), SIPCall::peerHungup (main) *)
Hangup(t) ==
    /\ Idle(t) /\ call.inv # "DISCONNECTED" /\ CallFree
    /\ Take("call", t) /\ Then(t, StopMedia \o <<"ended">>)
    /\ UNCHANGED <<call, ses, starts, past>>

(* sdp_media_update_cb: a negotiation that fails ends the call. *)
NegotiationFails == call.tsx = "ours" /\ Hangup("sip")

(* ~AudioRtpSession, once no thread uses the call *)
Destroy ==
    /\ call.state = "OVER" /\ ~call.gone /\ \A t \in Threads : Idle(t)
    /\ Then("main", StopMedia \o <<"gone">>)
    /\ UNCHANGED <<call, ses, lock, starts, past>>

-----------------------------------------------------------------------------
(* The workers *)
Works == UNCHANGED <<call, lock, prog, starts, past>>

(* AudioInput notifies the sender it is attached to. *)
Microphone == ses.input = "attached" /\ ses' = Packet(ses) /\ Works

(* AudioRtpSession::processNatPunch: the session's mutex is only tried. *)
ProcessNatPunch ==
    /\ ses.punch = [state |-> "RUNNING", at |-> "in"]
    /\ SessionFree /\ ses.hold /\ ses.sender # "none"
    /\ ses' = Packet(ses)
    /\ Works

(* Seeded bug: the worker waits for the session's mutex. *)
NatPunchReturnsLocking ==
    /\ ses.punch = [state |-> "STOPPING", at |-> "in"] /\ SessionFree
    /\ ses' = [ses EXCEPT !.punch.at = "out"]
    /\ Works

NatPunchReturns ==
    /\ ses.punch = [state |-> "STOPPING", at |-> "in"]
    /\ ses' = [ses EXCEPT !.punch.at = "out"]
    /\ Works

RtcpCheckerReturns ==
    /\ ses.rtcp = [state |-> "STOPPING", at |-> "in"]
    /\ ses' = [ses EXCEPT !.rtcp.at = "out"]
    /\ Works

(* AudioReceiveThread::setup: the first packet arrives. *)
ReceiverSetUp ==
    /\ ses.receive.at = "setup" /\ ses.blocking
    /\ ses' = [ses EXCEPT !.receive.at = "in"]
    /\ Works

(* SocketPair::waitForData gives up: setup fails, or the loop sees that it *)
(* is to stop.                                                             *)
ReceiverReturns ==
    /\ ~Out(ses.receive) /\ (ses.socket = "interrupted" \/ ~ses.blocking)
    /\ ses.receive.at = "setup" \/ ses.receive.state = "STOPPING"
    /\ ses' = [ses EXCEPT !.receive = [state |-> "STOPPING", at |-> "out"]]
    /\ Works

Sip ==
    \/ \E d \in Directions : EarlyMedia(d) \/ Answered(d) \/ ReinviteAnswered(d) \/ PeerReinvites(d)
    \/ AnsweredAfterEarly \/ ReinviteRefused \/ TransactionOver

Clients ==
    \/ Hold \/ Unhold \/ AudioDevicesChanged \/ Connected
    \/ Hangup("api") \/ Hangup("main") \/ NegotiationFails \/ Destroy

Workers ==
    Microphone \/ ProcessNatPunch \/ NatPunchReturns \/ RtcpCheckerReturns \/ ReceiverSetUp \/ ReceiverReturns

Next == Sip \/ Clients \/ (\E t \in Threads : Step(t)) \/ Workers

Spec == Init /\ [][Next]_vars

(* While an operation, or a worker that is to stop, can go on, one of them  *)
(* does (less than what a scheduler that starves no thread gives).  Nothing *)
(* is assumed of the peer, of the clients or of the microphone.             *)
Fairness ==
    WF_vars((\E t \in Threads : Step(t)) \/ NatPunchReturns \/ RtcpCheckerReturns \/ ReceiverReturns)

FairSpec == Spec /\ Fairness

-----------------------------------------------------------------------------
(* Types of the state. *)
TypeOK ==
    /\ call \in Call /\ ses \in Session
    /\ lock \in [{"call", "session"} -> Threads \cup {Nobody}]
    /\ starts \in 0..MaxStarts /\ past \subseteq Mishaps

AtRest == \A t \in Threads : Idle(t)

(* Whatever negotiations, holds, resumes and failures of either cross each *)
(* other, a call on hold neither sends the microphone nor plays the peer   *)
(* ("Keep audio stopped on local hold", SIPCall::startAllMedia), unless a  *)
(* device change that was decided before the hold restarts its sender.     *)
HeldIsSilent ==
    call.state = "HOLD" /\ Idle("api") /\ "stale" \notin past =>
        ses.input # "attached" /\ (Out(ses.receive) \/ ses.muted)

(* ... and keeps its NAT binding open: it has a sender on an open socket   *)
(* and a punch loop, or one that ended before ThreadLoop::start knew it.   *)
HeldKeepsBinding ==
    call.state = "HOLD" /\ AtRest /\ "stale" \notin past =>
        /\ ses.hold /\ ses.sender # "none" /\ ses.socket = "open"
        /\ ses.punch \in {[state |-> "RUNNING", at |-> "in"], [state |-> "STOPPING", at |-> "out"]}

(* At rest, an active call that was answered sends and receives exactly    *)
(* what was negotiated last, unless a hold or a resume failed since, or a  *)
(* device did (SIPCall::startAllMedia after SIPCall::stopAllMedia).        *)
ActiveMatchesSdp ==
    call.state = "ACTIVE" /\ call.connected /\ AtRest /\ call.tsx # "ours" /\ past = {} =>
        /\ (ses.input = "attached") = ~SendOnHold(call.sdp)
        /\ (ses.receive.state # "READY") = ~ReceiveOnHold(call.sdp)

(* Every worker of the session, and its sender, has a socket pair to work  *)
(* on: AudioRtpSession::stop joins them before it destroys the pair.       *)
WorkersHaveSockets ==
    ses.socket = "none" => Out(ses.receive) /\ Out(ses.rtcp) /\ ses.sender = "none"

(* Across restarts, holds, resumes and stops no sequence number is used    *)
(* again ("so the new sender continues the sequence space rather than      *)
(* restarting from a low value", audio_rtp_session.h), unless a stale      *)
(* device change dropped a sender whose number nobody kept.                *)
SequenceGoesOn == "stale" \notin past => ses.sender # "behind"

(* Every operation on the session ends, though the peer may send nothing   *)
(* more: AudioRtpSession::stop wakes and joins its workers while it holds  *)
(* the mutex they try.                                                     *)
OperationsEnd == ~AtRest ~> AtRest

(* A connected call that is ACTIVE, which clients are told is CURRENT      *)
(* (specs/SIP_CORE_ABI_russian.md: the active call, a conversation goes    *)
(* on), was not negotiated as held by us, whichever hold() or resume was   *)
(* rolled back (SIPCall::hold, SIPCall::internalOffHold).                  *)
ActiveIsOffHold ==
    call.state = "ACTIVE" /\ call.connected /\ AtRest /\ call.tsx # "ours" =>
        call.sdp \notin {"hold", "holdSend"}
=============================================================================
