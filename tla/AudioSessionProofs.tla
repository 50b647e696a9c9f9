-------------------------- MODULE AudioSessionProofs --------------------------
(***************************************************************************)
(* Proofs about the audio of a call, for any number of operations: its     *)
(* types, that no worker is left without a socket pair, that a held call   *)
(* is silent and that no sequence number is used again.                    *)
(***************************************************************************)
EXTENDS AudioSession, SequenceTheorems, TLAPS

(* A session whose workers and sender have a socket pair, whose microphone *)
(* feeds a sender, and which was configured before it got one.             *)
Sound(s) ==
    /\ s \in Session
    /\ s.socket = "none" => Out(s.receive) /\ Out(s.rtcp) /\ s.sender = "none"
    /\ s.input = "attached" => s.sender # "none"
    /\ s.dir = "off" => s.sender = "none"
    /\ ~Out(s.receive) => s.receive.state # "READY"

(* The number of the sender, or the one the next sender will take, was not *)
(* used yet.                                                               *)
InOrder(s) ==
    /\ s.sender # "behind"
    /\ s.sender = "none" => s.last # "behind" /\ (s.last = "none" => s.init = "ahead")

(* Neither the microphone nor the peer is heard. *)
Quiet(s) == s.input # "attached" /\ (Out(s.receive) \/ s.muted)

-----------------------------------------------------------------------------
(* The operators on sessions *)

(* The states a thread loop is put in. *)
LEMMA LoopTypes ==
    /\ Unstarted \in Loop /\ Out(Unstarted)
    /\ [state |-> "RUNNING", at |-> "in"] \in Loop
    /\ [state |-> "RUNNING", at |-> "setup"] \in Loop
    /\ [state |-> "STOPPING", at |-> "out"] \in Loop
BY DEF Loop, Unstarted, Out

(* ThreadLoop::stop leaves the worker where it is. *)
LEMMA StoppingProps ==
    ASSUME NEW l \in Loop
    PROVE  /\ Stopping(l) \in Loop /\ Stopping(l).at = l.at
           /\ l.state # "READY" => Stopping(l).state # "READY"
BY DEF Stopping, Loop

(* The end of a keepalive marks the punch loop and touches nothing else. *)
LEMMA PunchProps ==
    ASSUME NEW s, Sound(s), NEW l \in Loop
    PROVE  LET p == [s EXCEPT !.hold = FALSE, !.punch = l]
           IN  /\ Sound(p) /\ (InOrder(s) => InOrder(p)) /\ (Quiet(s) => Quiet(p))
               /\ p.dir = s.dir /\ p.sender = s.sender
<1> DEFINE p == [s EXCEPT !.hold = FALSE, !.punch = l]
<1>1. p \in Session
    BY DEF Sound, Session
<1>2. /\ p.dir = s.dir /\ p.sender = s.sender /\ p.receive = s.receive /\ p.rtcp = s.rtcp
      /\ p.muted = s.muted /\ p.input = s.input /\ p.socket = s.socket /\ p.init = s.init
      /\ p.last = s.last
    BY DEF Sound, Session
<1> HIDE DEF p
<1>3. Sound(p) /\ (InOrder(s) => InOrder(p)) /\ (Quiet(s) => Quiet(p))
    BY <1>1, <1>2 DEF Sound, InOrder, Quiet
<1> QED BY <1>2, <1>3 DEF p

(* A packet of a sender uses the sender's number and moves on. *)
LEMMA PacketProps ==
    ASSUME NEW s, Sound(s), s.sender # "none"
    PROVE  /\ Sound(Packet(s)) /\ Packet(s).sender # "none"
           /\ InOrder(s) => InOrder(Packet(s))
           /\ Packet(s).dir = s.dir
           /\ Quiet(s) => Quiet(Packet(s))
           /\ Packet(s).input = s.input
<1> DEFINE l == Passed(s.last)
           p == [s EXCEPT !.sender = "ahead", !.init = "behind", !.last = l]
<1>1. l \in Seqs
    BY DEF Sound, Session, Seqs, Places, Passed
<1>2. Packet(s) = IF s.socket = "open" THEN p ELSE s
    BY DEF Packet
<1> HIDE DEF l
<1>3. p \in Session
    BY <1>1 DEF Sound, Session, Seqs, Places
<1>4. /\ p.sender = "ahead" /\ p.dir = s.dir /\ p.input = s.input /\ p.receive = s.receive
      /\ p.muted = s.muted /\ p.socket = s.socket
    BY DEF Sound, Session
<1> HIDE DEF p
<1>5. s.socket = "open" => Sound(p)
    BY <1>3, <1>4 DEF Sound
<1> QED BY <1>2, <1>4, <1>5 DEF InOrder, Quiet

(* Making the socket pair touches nothing else. *)
LEMMA EnsureProps ==
    ASSUME NEW s, Sound(s)
    PROVE  /\ Sound(EnsureSocketPair(s))
           /\ InOrder(s) => InOrder(EnsureSocketPair(s))
           /\ Quiet(s) => Quiet(EnsureSocketPair(s))
           /\ EnsureSocketPair(s).dir = s.dir /\ EnsureSocketPair(s).sender = s.sender
           /\ EnsureSocketPair(s).receive = s.receive /\ EnsureSocketPair(s).muted = s.muted
           /\ EnsureSocketPair(s).input = s.input
<1> DEFINE p == [s EXCEPT !.socket = "open", !.reserved = FALSE, !.blocking = FALSE]
<1>1. EnsureSocketPair(s) = IF s.socket = "none" /\ s.reserved THEN p ELSE s
    BY DEF EnsureSocketPair
<1>2. p \in Session
    BY DEF Sound, Session
<1>3. /\ p.dir = s.dir /\ p.sender = s.sender /\ p.receive = s.receive /\ p.muted = s.muted
      /\ p.input = s.input /\ p.socket = "open" /\ p.init = s.init /\ p.last = s.last
    BY DEF Sound, Session
<1> HIDE DEF p
<1>4. Sound(p) /\ (InOrder(s) => InOrder(p)) /\ (Quiet(s) => Quiet(p))
    BY <1>2, <1>3 DEF Sound, InOrder, Quiet
<1> QED BY <1>1, <1>3, <1>4

(* A new sender goes on from the number that was kept. *)
LEMMA NewSenderProps ==
    ASSUME NEW s, Sound(s), s.socket # "none", s.dir # "off"
    PROVE  /\ Sound(NewSender(s)) /\ NewSender(s).sender # "none"
           /\ InOrder(s) => InOrder(NewSender(s))
           /\ Quiet(s) => Quiet(NewSender(s))
           /\ NewSender(s).dir = s.dir /\ NewSender(s).socket = s.socket
           /\ NewSender(s).input = s.input
<1> DEFINE i == IF s.sender # "none" THEN s.sender ELSE IF s.last # "none" THEN s.last ELSE s.init
           p == [s EXCEPT !.init = i, !.sender = i]
<1>1. NewSender(s) = p
    BY DEF NewSender
<1>2. i \in Places /\ (InOrder(s) => i # "behind")
    BY DEF Sound, Session, Seqs, Places, InOrder
<1> HIDE DEF i
<1>3. p \in Session
    BY <1>2 DEF Sound, Session, Seqs
<1>4. /\ p.sender = i /\ p.dir = s.dir /\ p.input = s.input /\ p.receive = s.receive
      /\ p.muted = s.muted /\ p.socket = s.socket
    BY DEF Sound, Session
<1>5. i # "none"
    BY <1>2 DEF Places
<1> HIDE DEF p
<1>6. Sound(p)
    BY <1>3, <1>4, <1>5 DEF Sound
<1> QED BY <1>1, <1>2, <1>4, <1>5, <1>6 DEF InOrder, Quiet

(* startSender makes a sender only in a direction that is not on hold, and *)
(* loses a number only in one that is.                                     *)
LEMMA StartSenderProps ==
    ASSUME NEW s, Sound(s), s.socket # "none", NEW k
    PROVE  /\ Sound(StartSender(s, k)) /\ StartSender(s, k).socket # "none"
           /\ StartSender(s, k).dir = s.dir
           /\ StartSender(s, k).receive = s.receive
           /\ SendOnHold(s.dir) => StartSender(s, k).sender = "none"
           /\ InOrder(s) /\ (SendOnHold(s.dir) => s.sender = "none") => InOrder(StartSender(s, k))
<1>1. CASE s.dir = "off" \/ SendOnHold(s.dir)
  <2> DEFINE d == [s EXCEPT !.socket = "interrupted", !.sender = "none",
                            !.input = IF @ = "attached" THEN "idle" ELSE @]
  <2>1. StartSender(s, k) = IF s.sender = "none" THEN s ELSE d
    BY <1>1 DEF StartSender
  <2>2. Sound(d) /\ d.socket # "none" /\ d.dir = s.dir /\ d.sender = "none" /\ d.receive = s.receive
    BY DEF Sound, Session, Out, Seqs
  <2>3. s.dir = "off" => s.sender = "none"
    BY DEF Sound
  <2> QED BY <1>1, <2>1, <2>2, <2>3
<1>2. CASE ~(s.dir = "off" \/ SendOnHold(s.dir)) /\ ~k.params
  <2> DEFINE d == [s EXCEPT !.input = "idle"]
  <2>1. StartSender(s, k) = d
    BY <1>2 DEF StartSender
  <2>2. /\ Sound(d) /\ d.socket # "none" /\ d.dir = s.dir /\ d.receive = s.receive
        /\ InOrder(s) => InOrder(d)
    BY DEF Sound, Session, Out, InOrder
  <2> QED BY <1>2, <2>1, <2>2
<1>3. CASE ~(s.dir = "off" \/ SendOnHold(s.dir)) /\ k.params
  <2> DEFINE n == NewSender(s)
             d == [n EXCEPT !.input = "attached",
                       !.rtcp = IF @.state = "RUNNING" THEN @ ELSE [state |-> "RUNNING", at |-> "in"]]
  <2>1. StartSender(s, k) = d
    BY <1>3 DEF StartSender
  <2>2. Sound(n) /\ n.sender # "none" /\ (InOrder(s) => InOrder(n)) /\ n.dir = s.dir
        /\ n.socket = s.socket
    BY <1>3, NewSenderProps
  <2>3. n.receive = s.receive
    BY DEF NewSender, Sound, Session
  <2> HIDE DEF n
  <2>4. /\ Sound(d) /\ d.socket = n.socket /\ d.dir = n.dir /\ d.receive = n.receive
        /\ InOrder(n) => InOrder(d)
    BY <2>2, LoopTypes DEF Sound, Session, Out, InOrder
  <2> QED BY <1>3, <2>1, <2>2, <2>3, <2>4
<1> QED BY <1>1, <1>2, <1>3

(* startReceiver touches the receive thread only. *)
LEMMA StartReceiverProps ==
    ASSUME NEW s, Sound(s), s.socket # "none"
    PROVE  /\ Sound(StartReceiver(s))
           /\ InOrder(s) => InOrder(StartReceiver(s))
           /\ StartReceiver(s).dir = s.dir /\ StartReceiver(s).sender = s.sender
BY LoopTypes DEF StartReceiver, Sound, Session, Out, InOrder

(* The punch loop starts with a packet of a sender that is there. *)
LEMMA StartNatPunchingProps ==
    ASSUME NEW s, Sound(s), NEW k
    PROVE  /\ Sound(StartNatPunching(s, k))
           /\ InOrder(s) => InOrder(StartNatPunching(s, k))
           /\ Quiet(s) => Quiet(StartNatPunching(s, k))
           /\ StartNatPunching(s, k).dir = s.dir
<1>1. CASE s.sender = "none"
    BY <1>1 DEF StartNatPunching
<1>2. CASE s.sender # "none"
  <2> DEFINE p == Packet(s)
             l == IF k.spawned THEN [state |-> "RUNNING", at |-> "in"]
                  ELSE [state |-> "STOPPING", at |-> "out"]
             d == [p EXCEPT !.punch = l]
  <2>1. StartNatPunching(s, k) = IF p.punch.state = "RUNNING" THEN p ELSE d
    BY <1>2 DEF StartNatPunching
  <2>2. Sound(p) /\ (InOrder(s) => InOrder(p)) /\ (Quiet(s) => Quiet(p)) /\ p.dir = s.dir
    BY <1>2, PacketProps
  <2>3. l \in Loop
    BY LoopTypes
  <2> HIDE DEF p, l
  <2>4. Sound(d) /\ (InOrder(p) => InOrder(d)) /\ (Quiet(p) => Quiet(d)) /\ d.dir = p.dir
    BY <2>2, <2>3 DEF Sound, Session, Out, InOrder, Quiet
  <2> QED BY <2>1, <2>2, <2>4
<1> QED BY <1>1, <1>2

(* The keepalive of a hold silences the session. *)
LEMMA HoldAudioProps ==
    ASSUME NEW s, Sound(s), NEW k
    PROVE  /\ Sound(HoldAudio(s, k)) /\ Quiet(HoldAudio(s, k))
           /\ InOrder(s) => InOrder(HoldAudio(s, k))
           /\ HoldAudio(s, k).dir = s.dir
<1> DEFINE m == [s EXCEPT !.muted = s.receive.state # "READY"]
           f == EnsureSocketPair(m)
           e == [f EXCEPT !.hold = TRUE, !.input = "none"]
           n == IF e.sender = "none" THEN NewSender(e) ELSE e
<1>1. /\ Sound(m) /\ (Out(m.receive) \/ m.muted) /\ (InOrder(s) => InOrder(m)) /\ m.dir = s.dir
      /\ m.socket = s.socket /\ m.input = s.input
  <2>1. (s.receive.state # "READY") \in BOOLEAN
    OBVIOUS
  <2> QED BY <2>1 DEF Sound, Session, Out, InOrder
<1>2. HoldAudio(s, k) = IF m.dir = "off" \/ e.socket = "none" THEN m ELSE StartNatPunching(n, k)
    BY DEF HoldAudio, StartHoldKeepalive
<1> HIDE DEF m
<1>3. /\ Sound(f) /\ (InOrder(m) => InOrder(f)) /\ f.dir = m.dir /\ f.sender = m.sender
      /\ f.receive = m.receive /\ f.muted = m.muted
    BY <1>1, EnsureProps
<1>4. f.socket = "none" => m.socket = "none"
    BY <1>1 DEF EnsureSocketPair, Sound, Session
<1> HIDE DEF f
<1>5. /\ Sound(e) /\ (InOrder(f) => InOrder(e)) /\ e.dir = f.dir /\ e.socket = f.socket
      /\ e.input = "none" /\ e.receive = f.receive /\ e.muted = f.muted
  <2>1. e \in Session
    BY <1>3 DEF Sound, Session
  <2>2. /\ e.dir = f.dir /\ e.socket = f.socket /\ e.input = "none" /\ e.receive = f.receive
        /\ e.muted = f.muted /\ e.sender = f.sender /\ e.rtcp = f.rtcp /\ e.init = f.init /\ e.last = f.last
    BY <1>3 DEF Sound, Session
  <2> HIDE DEF e
  <2> QED BY <1>3, <2>1, <2>2 DEF Sound, InOrder
<1> HIDE DEF e
<1>6. CASE m.dir = "off" \/ e.socket = "none"
  <2>1. m.sender = "none"
    BY <1>1, <1>4, <1>5, <1>6 DEF Sound
  <2>2. m.input # "attached"
    BY <1>1, <2>1 DEF Sound
  <2> QED BY <1>1, <1>2, <1>6, <2>2 DEF Quiet
<1>7. CASE ~(m.dir = "off" \/ e.socket = "none")
  <2>1. Quiet(e)
    BY <1>1, <1>3, <1>5 DEF Quiet
  <2>2. Sound(n) /\ (InOrder(e) => InOrder(n)) /\ Quiet(n) /\ n.dir = e.dir
    BY <1>3, <1>5, <1>7, <2>1, NewSenderProps
  <2> HIDE DEF n
  <2>3. /\ Sound(StartNatPunching(n, k)) /\ Quiet(StartNatPunching(n, k))
        /\ InOrder(n) => InOrder(StartNatPunching(n, k))
        /\ StartNatPunching(n, k).dir = n.dir
    BY <2>2, StartNatPunchingProps
  <2> QED BY <1>1, <1>2, <1>3, <1>5, <1>7, <2>2, <2>3
<1> QED BY <1>6, <1>7

-----------------------------------------------------------------------------
(* The programs of the threads, by what they are for (the end of the call, *)
(* its destruction, a negotiation, a start of the media, a hold, a resume, *)
(* the undoing of a hold, a new device) and by the step they are at.       *)
EndStop == <<"stop", "quiet", "clear", "ended">>
EndQuiet == <<"quiet", "clear", "ended">>
EndClear == <<"clear", "ended">>
EndEnded == <<"ended">>
GoneStop == <<"stop", "quiet", "clear", "gone">>
GoneQuiet == <<"quiet", "clear", "gone">>
GoneClear == <<"clear", "gone">>
GoneGone == <<"gone">>
NegConfigure == <<"configure", "stop", "quiet", "clear", "startAll", "unlock">>
NegStop == <<"stop", "quiet", "clear", "startAll", "unlock">>
NegQuiet == <<"quiet", "clear", "startAll", "unlock">>
NegClear == <<"clear", "startAll", "unlock">>
NegStartAll == <<"startAll", "unlock">>
NegUnlock == <<"unlock">>
RunStart == <<"start", "started", "unlock">>
RunStarted == <<"started", "unlock">>
HoldSetHold == <<"setHold", "keepalive", "sendHold">>
HoldKeepalive == <<"keepalive", "sendHold">>
HoldSendHold == <<"sendHold">>
ResSetActive == <<"setActive", "unapply", "unapplied", "sendResume">>
ResUnapply == <<"unapply", "unapplied", "sendResume">>
ResUnapplied == <<"unapplied", "sendResume">>
ResSendResume == <<"sendResume">>
UndoUnapply == <<"unapply", "unapplied", "backActive">>
UndoUnapplied == <<"unapplied", "backActive">>
UndoBackActive == <<"backActive">>
DevRestart == <<"restart">>

Ending == {EndStop, EndQuiet, EndClear, EndEnded}
Running == {RunStart, RunStarted}
Starting == {NegStartAll, RunStart, RunStarted}
Resuming == {ResUnapply, ResUnapplied, ResSendResume}

SipPrograms ==
    {<<>>, NegConfigure, NegStop, NegQuiet, NegClear, NegStartAll, NegUnlock} \cup Running \cup Ending
ApiPrograms ==
    {<<>>, HoldSetHold, HoldKeepalive, HoldSendHold, ResSetActive, UndoUnapply, UndoUnapplied, UndoBackActive}
        \cup Resuming \cup Ending
MainPrograms == {<<>>, DevRestart, GoneStop, GoneQuiet, GoneClear, GoneGone} \cup Ending

ProgInv ==
    /\ prog \in [Threads -> SipPrograms \cup ApiPrograms \cup MainPrograms]
    /\ prog["sip"] \in SipPrograms /\ prog["api"] \in ApiPrograms /\ prog["main"] \in MainPrograms

(* The step each program is at ... *)
LEMMA Heads ==
    /\ EndStop # <<>> /\ Head(EndStop) = "stop" /\ EndQuiet # <<>> /\ Head(EndQuiet) = "quiet"
    /\ EndClear # <<>> /\ Head(EndClear) = "clear" /\ EndEnded # <<>> /\ Head(EndEnded) = "ended"
    /\ GoneStop # <<>> /\ Head(GoneStop) = "stop" /\ GoneQuiet # <<>> /\ Head(GoneQuiet) = "quiet"
    /\ GoneClear # <<>> /\ Head(GoneClear) = "clear" /\ GoneGone # <<>> /\ Head(GoneGone) = "gone"
    /\ NegConfigure # <<>> /\ Head(NegConfigure) = "configure" /\ NegStop # <<>> /\ Head(NegStop) = "stop"
    /\ NegQuiet # <<>> /\ Head(NegQuiet) = "quiet" /\ NegClear # <<>> /\ Head(NegClear) = "clear"
    /\ NegStartAll # <<>> /\ Head(NegStartAll) = "startAll" /\ NegUnlock # <<>> /\ Head(NegUnlock) = "unlock"
    /\ RunStart # <<>> /\ Head(RunStart) = "start" /\ RunStarted # <<>> /\ Head(RunStarted) = "started"
    /\ HoldSetHold # <<>> /\ Head(HoldSetHold) = "setHold" /\ HoldKeepalive # <<>> /\ Head(HoldKeepalive) = "keepalive"
    /\ HoldSendHold # <<>> /\ Head(HoldSendHold) = "sendHold" /\ ResSetActive # <<>> /\ Head(ResSetActive) = "setActive"
    /\ ResUnapply # <<>> /\ Head(ResUnapply) = "unapply" /\ ResUnapplied # <<>> /\ Head(ResUnapplied) = "unapplied"
    /\ ResSendResume # <<>> /\ Head(ResSendResume) = "sendResume" /\ UndoUnapply # <<>> /\ Head(UndoUnapply) = "unapply"
    /\ UndoUnapplied # <<>> /\ Head(UndoUnapplied) = "unapplied" /\ UndoBackActive # <<>> /\ Head(UndoBackActive) = "backActive"
    /\ DevRestart # <<>> /\ Head(DevRestart) = "restart"
BY DEF
    EndStop, EndQuiet, EndClear, EndEnded, GoneStop, GoneQuiet, GoneClear, GoneGone,
    NegConfigure, NegStop, NegQuiet, NegClear, NegStartAll, NegUnlock, RunStart, RunStarted,
    HoldSetHold, HoldKeepalive, HoldSendHold, ResSetActive, ResUnapply, ResUnapplied,
    ResSendResume, UndoUnapply, UndoUnapplied, UndoBackActive, DevRestart

(* ... and what comes after it. *)
LEMMA Rests ==
    /\ Tail(EndStop) = EndQuiet /\ Tail(EndQuiet) = EndClear
    /\ Tail(EndClear) = EndEnded /\ Tail(EndEnded) = <<>>
    /\ Tail(GoneStop) = GoneQuiet /\ Tail(GoneQuiet) = GoneClear
    /\ Tail(GoneClear) = GoneGone /\ Tail(GoneGone) = <<>>
    /\ Tail(NegConfigure) = NegStop /\ Tail(NegStop) = NegQuiet
    /\ Tail(NegQuiet) = NegClear /\ Tail(NegClear) = NegStartAll
    /\ Tail(NegStartAll) = NegUnlock /\ Tail(NegUnlock) = <<>>
    /\ Tail(RunStart) = RunStarted /\ Tail(RunStarted) = NegUnlock
    /\ Tail(HoldSetHold) = HoldKeepalive /\ Tail(HoldKeepalive) = HoldSendHold
    /\ Tail(HoldSendHold) = <<>> /\ Tail(ResSetActive) = ResUnapply
    /\ Tail(ResUnapply) = ResUnapplied /\ Tail(ResUnapplied) = ResSendResume
    /\ Tail(ResSendResume) = <<>> /\ Tail(UndoUnapply) = UndoUnapplied
    /\ Tail(UndoUnapplied) = UndoBackActive /\ Tail(UndoBackActive) = <<>>
    /\ Tail(DevRestart) = <<>>
BY DEF
    EndStop, EndQuiet, EndClear, EndEnded, GoneStop, GoneQuiet, GoneClear, GoneGone,
    NegConfigure, NegStop, NegQuiet, NegClear, NegStartAll, NegUnlock, RunStart, RunStarted,
    HoldSetHold, HoldKeepalive, HoldSendHold, ResSetActive, ResUnapply, ResUnapplied,
    ResSendResume, UndoUnapply, UndoUnapplied, UndoBackActive, DevRestart

(* A concatenation, by its elements. *)
LEMMA Cat ==
    ASSUME NEW S, NEW p \in Seq(S), NEW q \in Seq(S), NEW r \in Seq(S),
           Len(r) = Len(p) + Len(q),
           \A i \in 1..Len(p) : r[i] = p[i],
           \A i \in 1..Len(q) : r[Len(p) + i] = q[i]
    PROVE  p \o q = r
<1>1. /\ p \o q \in Seq(S) /\ Len(p \o q) = Len(p) + Len(q)
      /\ \A i \in 1..Len(p) + Len(q) : (p \o q)[i] = IF i <= Len(p) THEN p[i] ELSE q[i - Len(p)]
    BY ConcatProperties
<1>2. Len(p) \in Nat /\ Len(q) \in Nat
    BY LenProperties
<1>3. \A i \in 1..Len(p) + Len(q) : (p \o q)[i] = r[i]
  <2> TAKE i \in 1..Len(p) + Len(q)
  <2>1. CASE i <= Len(p)
    BY <1>1, <1>2, <2>1
  <2>2. CASE ~(i <= Len(p))
    <3>1. i - Len(p) \in 1..Len(q) /\ Len(p) + (i - Len(p)) = i
        BY <1>2, <2>2
    <3> QED BY <1>1, <1>2, <2>2, <3>1
  <2> QED BY <2>1, <2>2
<1> QED BY <1>1, <1>3, SeqEqual

(* ... of 1 and 3. *)
LEMMA Cat13 ==
    ASSUME NEW a, NEW b, NEW c, NEW d
    PROVE  <<a>> \o <<b, c, d>> = <<a, b, c, d>>
<1> DEFINE S == {a, b, c, d}
           p == <<a>>
           q == <<b, c, d>>
           r == <<a, b, c, d>>
<1>1. a \in S /\ b \in S /\ c \in S /\ d \in S
    OBVIOUS
<1> HIDE DEF S
<1>2. p \in Seq(S) /\ q \in Seq(S) /\ r \in Seq(S)
    BY <1>1
<1>3. Len(p) = 1 /\ Len(q) = 3 /\ Len(r) = 4
    OBVIOUS
<1>4. (\A i \in 1..Len(p) : r[i] = p[i]) /\ (\A i \in 1..Len(q) : r[Len(p) + i] = q[i])
    BY <1>3
<1>5. Len(r) = Len(p) + Len(q)
    BY <1>3
<1> HIDE DEF p, q, r
<1>6. p \o q = r
    BY <1>2, <1>4, <1>5, Cat
<1> QED BY <1>6 DEF p, q, r

(* The program of a negotiation. *)
LEMMA NegProgram ==
    <<"configure", "stop", "quiet", "clear">> \o <<"startAll", "unlock">> = NegConfigure
<1> DEFINE S == {"configure", "stop", "quiet", "clear", "startAll", "unlock"}
           p == <<"configure", "stop", "quiet", "clear">>
           q == <<"startAll", "unlock">>
           r == NegConfigure
<1>1. /\ "configure" \in S /\ "stop" \in S /\ "quiet" \in S /\ "clear" \in S
      /\ "startAll" \in S /\ "unlock" \in S
    OBVIOUS
<1> HIDE DEF S
<1>2. p \in Seq(S) /\ q \in Seq(S) /\ r \in Seq(S)
    BY <1>1 DEF NegConfigure
<1>3. Len(p) = 4 /\ Len(q) = 2 /\ Len(r) = 6
    BY DEF NegConfigure
<1>4. (\A i \in 1..Len(p) : r[i] = p[i]) /\ (\A i \in 1..Len(q) : r[Len(p) + i] = q[i])
    BY <1>3 DEF NegConfigure
<1>5. Len(r) = Len(p) + Len(q)
    BY <1>3
<1> HIDE DEF p, q, r
<1>6. p \o q = r
    BY <1>2, <1>4, <1>5, Cat
<1> QED BY <1>6 DEF p, q, r

(* ... of 3 and 1. *)
LEMMA Cat31 ==
    ASSUME NEW a, NEW b, NEW c, NEW d
    PROVE  <<a, b, c>> \o <<d>> = <<a, b, c, d>>
<1> DEFINE S == {a, b, c, d}
           p == <<a, b, c>>
           q == <<d>>
           r == <<a, b, c, d>>
<1>1. a \in S /\ b \in S /\ c \in S /\ d \in S
    OBVIOUS
<1> HIDE DEF S
<1>2. p \in Seq(S) /\ q \in Seq(S) /\ r \in Seq(S)
    BY <1>1
<1>3. Len(p) = 3 /\ Len(q) = 1 /\ Len(r) = 4
    OBVIOUS
<1>4. (\A i \in 1..Len(p) : r[i] = p[i]) /\ (\A i \in 1..Len(q) : r[Len(p) + i] = q[i])
    BY <1>3
<1>5. Len(r) = Len(p) + Len(q)
    BY <1>3
<1> HIDE DEF p, q, r
<1>6. p \o q = r
    BY <1>2, <1>4, <1>5, Cat
<1> QED BY <1>6 DEF p, q, r

(* ... of 2 and 1. *)
LEMMA Cat21 ==
    ASSUME NEW a, NEW b, NEW c
    PROVE  <<a, b>> \o <<c>> = <<a, b, c>>
<1> DEFINE S == {a, b, c}
           p == <<a, b>>
           q == <<c>>
           r == <<a, b, c>>
<1>1. a \in S /\ b \in S /\ c \in S
    OBVIOUS
<1> HIDE DEF S
<1>2. p \in Seq(S) /\ q \in Seq(S) /\ r \in Seq(S)
    BY <1>1
<1>3. Len(p) = 2 /\ Len(q) = 1 /\ Len(r) = 3
    OBVIOUS
<1>4. (\A i \in 1..Len(p) : r[i] = p[i]) /\ (\A i \in 1..Len(q) : r[Len(p) + i] = q[i])
    BY <1>3
<1>5. Len(r) = Len(p) + Len(q)
    BY <1>3
<1> HIDE DEF p, q, r
<1>6. p \o q = r
    BY <1>2, <1>4, <1>5, Cat
<1> QED BY <1>6 DEF p, q, r

(* The programs that an operation begins with. *)
LEMMA Beginnings ==
    /\ Restart \o <<"startAll", "unlock">> = NegConfigure
    /\ StopMedia \o <<"ended">> = EndStop /\ StopMedia \o <<"gone">> = GoneStop
    /\ HoldCall = HoldSetHold /\ Resume = ResSetActive /\ <<"restart">> = DevRestart
    /\ <<"unapply", "unapplied", "backActive">> = UndoUnapply
    /\ <<"start", "started">> \o Tail(NegStartAll) = RunStart
<1>1. Restart = <<"configure", "stop", "quiet", "clear">>
    BY Cat13, Zenon DEF Restart, StopMedia
<1>2. Restart \o <<"startAll", "unlock">> = NegConfigure
    BY <1>1, NegProgram, Zenon
<1>3. StopMedia \o <<"ended">> = EndStop /\ StopMedia \o <<"gone">> = GoneStop
    BY Cat31, Zenon DEF StopMedia, EndStop, GoneStop
<1>4. HoldCall = HoldSetHold /\ Resume = ResSetActive /\ <<"restart">> = DevRestart
    BY DEF HoldCall, HoldSetHold, Resume, ResSetActive, DevRestart
<1>5. Tail(NegStartAll) = <<"unlock">>
    BY DEF NegStartAll
<1>6. <<"start", "started">> \o Tail(NegStartAll) = RunStart
    BY <1>5, Cat21, Zenon DEF RunStart
<1>7. <<"unapply", "unapplied", "backActive">> = UndoUnapply
    BY DEF UndoUnapply
<1> QED BY <1>2, <1>3, <1>4, <1>6, <1>7

-----------------------------------------------------------------------------
(* The invariant *)

Base ==
    /\ call \in Call
    /\ lock \in [{"call", "session"} -> Threads \cup {Nobody}]
    /\ starts \in 0..MaxStarts /\ past \subseteq Mishaps

(* A negotiation and the end of a call keep the call's mutex, and so the   *)
(* state of the call.  What the programs rely on:  a negotiation has a     *)
(* description, the keepalive of a hold comes after HOLD was set, a resume *)
(* goes on in a call that is not held, media start in an active call.      *)
CtlInv ==
    /\ prog["sip"] # <<>> => lock["call"] = "sip" /\ call.state # "OVER"
    /\ prog["api"] \in Ending => lock["call"] = "api"
    /\ prog["main"] \in Ending => lock["call"] = "main"
    /\ call.state = "OVER" <=> call.inv = "DISCONNECTED"
    /\ prog["sip"] = NegConfigure => call.sdp # "off"
    /\ prog["api"] = HoldKeepalive => call.state # "ACTIVE"
    /\ prog["api"] \in Resuming => call.state # "HOLD"
    /\ prog["sip"] \in Running => call.state = "ACTIVE"

(* Media are started anew without a sender that the peer does not want; no *)
(* number is behind; a held call is quiet once hold() made it so.          *)
SesInv ==
    /\ Sound(ses)
    /\ prog["sip"] \in Starting /\ call.state # "HOLD" /\ SendOnHold(ses.dir) => ses.sender = "none"
    /\ "stale" \notin past => InOrder(ses)
    /\ "stale" \notin past /\ call.state = "HOLD" /\ prog["api"] \in {<<>>, HoldSendHold} => Quiet(ses)

IInv == Base /\ ProgInv /\ CtlInv /\ SesInv

(* The mutexes of TypeOK. *)
LEMMA LockFields ==
    ASSUME Base
    PROVE  lock.call = lock["call"] /\ lock.session = lock["session"]
BY DEF Base

(* Where a thread can be when it is at a step. *)
LEMMA Ops ==
    ASSUME ProgInv, NEW t \in Threads, NEW op, At(t, op)
    PROVE  /\ prog[t] # <<>> /\ op = Head(prog[t])
           /\ op = "configure" => t = "sip" /\ prog[t] = NegConfigure
           /\ op = "stop" => \/ t = "sip" /\ prog[t] = NegStop
                             \/ t = "main" /\ prog[t] = GoneStop
                             \/ prog[t] = EndStop
           /\ op = "quiet" => \/ t = "sip" /\ prog[t] = NegQuiet
                              \/ t = "main" /\ prog[t] = GoneQuiet
                              \/ prog[t] = EndQuiet
           /\ op = "clear" => \/ t = "sip" /\ prog[t] = NegClear
                              \/ t = "main" /\ prog[t] = GoneClear
                              \/ prog[t] = EndClear
           /\ op = "ended" => prog[t] = EndEnded
           /\ op = "gone" => t = "main" /\ prog[t] = GoneGone
           /\ op = "restart" => t = "main" /\ prog[t] = DevRestart
           /\ op = "startAll" => t = "sip" /\ prog[t] = NegStartAll
           /\ op = "start" => t = "sip" /\ prog[t] = RunStart
           /\ op = "started" => t = "sip" /\ prog[t] = RunStarted
           /\ op = "unlock" => t = "sip" /\ prog[t] = NegUnlock
           /\ op = "setHold" => t = "api" /\ prog[t] = HoldSetHold
           /\ op = "keepalive" => t = "api" /\ prog[t] = HoldKeepalive
           /\ op = "sendHold" => t = "api" /\ prog[t] = HoldSendHold
           /\ op = "setActive" => t = "api" /\ prog[t] = ResSetActive
           /\ op = "unapply" => t = "api" /\ prog[t] \in {ResUnapply, UndoUnapply}
           /\ op = "unapplied" => t = "api" /\ prog[t] \in {ResUnapplied, UndoUnapplied}
           /\ op = "sendResume" => t = "api" /\ prog[t] = ResSendResume
           /\ op = "backActive" => t = "api" /\ prog[t] = UndoBackActive
<1>1. prog[t] # <<>> /\ op = Head(prog[t])
    BY DEF At, Idle
<1>2. CASE t = "sip"
    BY <1>1, <1>2, Heads DEF ProgInv, SipPrograms, Running, Ending
<1>3. CASE t = "api"
    BY <1>1, <1>3, Heads DEF ProgInv, ApiPrograms, Resuming, Ending
<1>4. CASE t = "main"
    BY <1>1, <1>4, Heads DEF ProgInv, MainPrograms, Ending
<1> QED BY <1>2, <1>3, <1>4 DEF Threads

Programs(t) ==
    IF t = "sip" THEN SipPrograms ELSE IF t = "api" THEN ApiPrograms ELSE MainPrograms

(* A thread that turns to another of its programs. *)
LEMMA Turns ==
    ASSUME ProgInv, NEW t \in Threads, NEW p \in Programs(t), Then(t, p)
    PROVE  ProgInv' /\ prog'[t] = p /\ \A u \in Threads : u # t => prog'[u] = prog[u]
<1>1. prog' = [prog EXCEPT ![t] = p]
    BY DEF Then
<1>2. p \in SipPrograms \cup ApiPrograms \cup MainPrograms
    BY DEF Programs
<1>3. prog'[t] = p /\ \A u \in Threads : u # t => prog'[u] = prog[u]
    BY <1>1 DEF ProgInv
<1>4. prog' \in [Threads -> SipPrograms \cup ApiPrograms \cup MainPrograms]
    BY <1>1, <1>2 DEF ProgInv
<1> QED BY <1>3, <1>4 DEF ProgInv, Programs, Threads

(* The rest of a program is a program of the same thread. *)
LEMMA Tails ==
    ASSUME ProgInv, NEW t \in Threads, prog[t] # <<>>
    PROVE  Tail(prog[t]) \in Programs(t)
<1>1. ASSUME NEW p \in SipPrograms, p # <<>> PROVE Tail(p) \in SipPrograms
    BY <1>1, Rests, ZenonT(60) DEF SipPrograms, Running, Ending
<1>2. ASSUME NEW p \in ApiPrograms, p # <<>> PROVE Tail(p) \in ApiPrograms
    BY <1>2, Rests, ZenonT(60) DEF ApiPrograms, Resuming, Ending
<1>3. ASSUME NEW p \in MainPrograms, p # <<>> PROVE Tail(p) \in MainPrograms
    BY <1>3, Rests, ZenonT(60) DEF MainPrograms, Ending
<1> QED BY <1>1, <1>2, <1>3 DEF Threads, Programs, ProgInv

(* Where a thread goes from a step. *)
LEMMA Moves ==
    ASSUME ProgInv, NEW t \in Threads, NEW op, At(t, op), Next1(t)
    PROVE  /\ ProgInv' /\ (\A u \in Threads : u # t => prog'[u] = prog[u])
           /\ op = "configure" => t = "sip" /\ prog[t] = NegConfigure /\ prog'[t] = NegStop
           /\ op = "stop" => \/ t = "sip" /\ prog[t] = NegStop /\ prog'[t] = NegQuiet
                             \/ t = "main" /\ prog[t] = GoneStop /\ prog'[t] = GoneQuiet
                             \/ prog[t] = EndStop /\ prog'[t] = EndQuiet
           /\ op = "quiet" => \/ t = "sip" /\ prog[t] = NegQuiet /\ prog'[t] = NegClear
                              \/ t = "main" /\ prog[t] = GoneQuiet /\ prog'[t] = GoneClear
                              \/ prog[t] = EndQuiet /\ prog'[t] = EndClear
           /\ op = "clear" => \/ t = "sip" /\ prog[t] = NegClear /\ prog'[t] = NegStartAll
                              \/ t = "main" /\ prog[t] = GoneClear /\ prog'[t] = GoneGone
                              \/ prog[t] = EndClear /\ prog'[t] = EndEnded
           /\ op = "ended" => prog[t] = EndEnded /\ prog'[t] = <<>>
           /\ op = "gone" => t = "main" /\ prog[t] = GoneGone /\ prog'[t] = <<>>
           /\ op = "restart" => t = "main" /\ prog[t] = DevRestart /\ prog'[t] = <<>>
           /\ op = "startAll" => t = "sip" /\ prog[t] = NegStartAll /\ prog'[t] = NegUnlock
           /\ op = "start" => t = "sip" /\ prog[t] = RunStart /\ prog'[t] = RunStarted
           /\ op = "started" => t = "sip" /\ prog[t] = RunStarted /\ prog'[t] = NegUnlock
           /\ op = "unlock" => t = "sip" /\ prog[t] = NegUnlock /\ prog'[t] = <<>>
           /\ op = "setHold" => t = "api" /\ prog[t] = HoldSetHold /\ prog'[t] = HoldKeepalive
           /\ op = "keepalive" => t = "api" /\ prog[t] = HoldKeepalive /\ prog'[t] = HoldSendHold
           /\ op = "sendHold" => t = "api" /\ prog[t] = HoldSendHold /\ prog'[t] = <<>>
           /\ op = "setActive" => t = "api" /\ prog[t] = ResSetActive /\ prog'[t] = ResUnapply
           /\ op = "unapply" => \/ t = "api" /\ prog[t] = ResUnapply /\ prog'[t] = ResUnapplied
                                \/ t = "api" /\ prog[t] = UndoUnapply /\ prog'[t] = UndoUnapplied
           /\ op = "unapplied" => \/ t = "api" /\ prog[t] = ResUnapplied /\ prog'[t] = ResSendResume
                                  \/ t = "api" /\ prog[t] = UndoUnapplied /\ prog'[t] = UndoBackActive
           /\ op = "sendResume" => t = "api" /\ prog[t] = ResSendResume /\ prog'[t] = <<>>
           /\ op = "backActive" => t = "api" /\ prog[t] = UndoBackActive /\ prog'[t] = <<>>
<1>1. prog[t] # <<>>
    BY DEF At, Idle
<1>2. /\ prog[t] # <<>> /\ op = Head(prog[t])
      /\ op = "configure" => t = "sip" /\ prog[t] = NegConfigure
      /\ op = "stop" => \/ t = "sip" /\ prog[t] = NegStop
                        \/ t = "main" /\ prog[t] = GoneStop
                        \/ prog[t] = EndStop
      /\ op = "quiet" => \/ t = "sip" /\ prog[t] = NegQuiet
                         \/ t = "main" /\ prog[t] = GoneQuiet
                         \/ prog[t] = EndQuiet
      /\ op = "clear" => \/ t = "sip" /\ prog[t] = NegClear
                         \/ t = "main" /\ prog[t] = GoneClear
                         \/ prog[t] = EndClear
      /\ op = "ended" => prog[t] = EndEnded
      /\ op = "gone" => t = "main" /\ prog[t] = GoneGone
      /\ op = "restart" => t = "main" /\ prog[t] = DevRestart
      /\ op = "startAll" => t = "sip" /\ prog[t] = NegStartAll
      /\ op = "start" => t = "sip" /\ prog[t] = RunStart
      /\ op = "started" => t = "sip" /\ prog[t] = RunStarted
      /\ op = "unlock" => t = "sip" /\ prog[t] = NegUnlock
      /\ op = "setHold" => t = "api" /\ prog[t] = HoldSetHold
      /\ op = "keepalive" => t = "api" /\ prog[t] = HoldKeepalive
      /\ op = "sendHold" => t = "api" /\ prog[t] = HoldSendHold
      /\ op = "setActive" => t = "api" /\ prog[t] = ResSetActive
      /\ op = "unapply" => t = "api" /\ prog[t] \in {ResUnapply, UndoUnapply}
      /\ op = "unapplied" => t = "api" /\ prog[t] \in {ResUnapplied, UndoUnapplied}
      /\ op = "sendResume" => t = "api" /\ prog[t] = ResSendResume
      /\ op = "backActive" => t = "api" /\ prog[t] = UndoBackActive
    BY Ops
<1>3. ProgInv' /\ prog'[t] = Tail(prog[t]) /\ \A u \in Threads : u # t => prog'[u] = prog[u]
  <2>1. Tail(prog[t]) \in Programs(t)
    BY <1>1, Tails
  <2> QED BY <2>1, Turns, Zenon DEF Next1
<1>4. (prog[t] = NegConfigure => prog'[t] = NegStop) /\ (prog[t] = NegStop => prog'[t] = NegQuiet)
    BY <1>3, Rests, Zenon
<1>5. (prog[t] = GoneStop => prog'[t] = GoneQuiet) /\ (prog[t] = EndStop => prog'[t] = EndQuiet)
    BY <1>3, Rests, Zenon
<1>6. (prog[t] = NegQuiet => prog'[t] = NegClear) /\ (prog[t] = GoneQuiet => prog'[t] = GoneClear)
    BY <1>3, Rests, Zenon
<1>7. (prog[t] = EndQuiet => prog'[t] = EndClear) /\ (prog[t] = NegClear => prog'[t] = NegStartAll)
    BY <1>3, Rests, Zenon
<1>8. (prog[t] = GoneClear => prog'[t] = GoneGone) /\ (prog[t] = EndClear => prog'[t] = EndEnded)
    BY <1>3, Rests, Zenon
<1>9. (prog[t] = EndEnded => prog'[t] = <<>>) /\ (prog[t] = GoneGone => prog'[t] = <<>>)
    BY <1>3, Rests, Zenon
<1>10. (prog[t] = DevRestart => prog'[t] = <<>>) /\ (prog[t] = NegStartAll => prog'[t] = NegUnlock)
    BY <1>3, Rests, Zenon
<1>11. (prog[t] = RunStart => prog'[t] = RunStarted) /\ (prog[t] = RunStarted => prog'[t] = NegUnlock)
    BY <1>3, Rests, Zenon
<1>12. (prog[t] = NegUnlock => prog'[t] = <<>>) /\ (prog[t] = HoldSetHold => prog'[t] = HoldKeepalive)
    BY <1>3, Rests, Zenon
<1>13. (prog[t] = HoldKeepalive => prog'[t] = HoldSendHold) /\ (prog[t] = HoldSendHold => prog'[t] = <<>>)
    BY <1>3, Rests, Zenon
<1>14. (prog[t] = ResSetActive => prog'[t] = ResUnapply) /\ (prog[t] = ResUnapply => prog'[t] = ResUnapplied)
    BY <1>3, Rests, Zenon
<1>15. (prog[t] = UndoUnapply => prog'[t] = UndoUnapplied) /\ (prog[t] = ResUnapplied => prog'[t] = ResSendResume)
    BY <1>3, Rests, Zenon
<1>16. (prog[t] = UndoUnapplied => prog'[t] = UndoBackActive) /\ (prog[t] = ResSendResume => prog'[t] = <<>>)
    BY <1>3, Rests, Zenon
<1>17. (prog[t] = UndoBackActive => prog'[t] = <<>>)
    BY <1>3, Rests, Zenon
<1>18. op = "configure" => t = "sip" /\ prog[t] = NegConfigure /\ prog'[t] = NegStop
    BY <1>2, <1>4
<1>19. op = "stop" => \/ t = "sip" /\ prog[t] = NegStop /\ prog'[t] = NegQuiet
                      \/ t = "main" /\ prog[t] = GoneStop /\ prog'[t] = GoneQuiet
                      \/ prog[t] = EndStop /\ prog'[t] = EndQuiet
    BY <1>2, <1>4, <1>5
<1>20. op = "quiet" => \/ t = "sip" /\ prog[t] = NegQuiet /\ prog'[t] = NegClear
                       \/ t = "main" /\ prog[t] = GoneQuiet /\ prog'[t] = GoneClear
                       \/ prog[t] = EndQuiet /\ prog'[t] = EndClear
    BY <1>2, <1>6, <1>7
<1>21. op = "clear" => \/ t = "sip" /\ prog[t] = NegClear /\ prog'[t] = NegStartAll
                       \/ t = "main" /\ prog[t] = GoneClear /\ prog'[t] = GoneGone
                       \/ prog[t] = EndClear /\ prog'[t] = EndEnded
    BY <1>2, <1>7, <1>8
<1>22. op = "ended" => prog[t] = EndEnded /\ prog'[t] = <<>>
    BY <1>2, <1>9
<1>23. op = "gone" => t = "main" /\ prog[t] = GoneGone /\ prog'[t] = <<>>
    BY <1>2, <1>9
<1>24. op = "restart" => t = "main" /\ prog[t] = DevRestart /\ prog'[t] = <<>>
    BY <1>2, <1>10
<1>25. op = "startAll" => t = "sip" /\ prog[t] = NegStartAll /\ prog'[t] = NegUnlock
    BY <1>2, <1>10
<1>26. op = "start" => t = "sip" /\ prog[t] = RunStart /\ prog'[t] = RunStarted
    BY <1>2, <1>11
<1>27. op = "started" => t = "sip" /\ prog[t] = RunStarted /\ prog'[t] = NegUnlock
    BY <1>2, <1>11
<1>28. op = "unlock" => t = "sip" /\ prog[t] = NegUnlock /\ prog'[t] = <<>>
    BY <1>2, <1>12
<1>29. op = "setHold" => t = "api" /\ prog[t] = HoldSetHold /\ prog'[t] = HoldKeepalive
    BY <1>2, <1>12
<1>30. op = "keepalive" => t = "api" /\ prog[t] = HoldKeepalive /\ prog'[t] = HoldSendHold
    BY <1>2, <1>13
<1>31. op = "sendHold" => t = "api" /\ prog[t] = HoldSendHold /\ prog'[t] = <<>>
    BY <1>2, <1>13
<1>32. op = "setActive" => t = "api" /\ prog[t] = ResSetActive /\ prog'[t] = ResUnapply
    BY <1>2, <1>14
<1>33. op = "unapply" => \/ t = "api" /\ prog[t] = ResUnapply /\ prog'[t] = ResUnapplied
                         \/ t = "api" /\ prog[t] = UndoUnapply /\ prog'[t] = UndoUnapplied
    BY <1>2, <1>14, <1>15
<1>34. op = "unapplied" => \/ t = "api" /\ prog[t] = ResUnapplied /\ prog'[t] = ResSendResume
                           \/ t = "api" /\ prog[t] = UndoUnapplied /\ prog'[t] = UndoBackActive
    BY <1>2, <1>15, <1>16
<1>35. op = "sendResume" => t = "api" /\ prog[t] = ResSendResume /\ prog'[t] = <<>>
    BY <1>2, <1>16
<1>36. op = "backActive" => t = "api" /\ prog[t] = UndoBackActive /\ prog'[t] = <<>>
    BY <1>2, <1>17
<1> QED BY <1>3, <1>18, <1>19, <1>20, <1>21, <1>22, <1>23, <1>24, <1>25, <1>26,
          <1>27, <1>28, <1>29, <1>30, <1>31, <1>32, <1>33, <1>34, <1>35, <1>36

(* Programs that begin alike are told apart by their ends. *)
LEMMA Distinct ==
    /\ {<<>>, GoneStop, GoneQuiet, GoneClear, GoneGone, DevRestart} \cap Ending = {}
    /\ {<<>>, UndoUnapply, UndoUnapplied, UndoBackActive} \cap Resuming = {}
    /\ {<<>>, NegConfigure, NegStop, NegQuiet, NegClear, NegUnlock} \cap Starting = {}
<1>1. EndEnded # GoneGone /\ ResSendResume # UndoBackActive
    BY Heads
<1>2. EndClear # GoneClear /\ ResUnapplied # UndoUnapplied
    BY <1>1, Rests, Zenon
<1>3. EndQuiet # GoneQuiet /\ ResUnapply # UndoUnapply
    BY <1>2, Rests, Zenon
<1>4. EndStop # GoneStop
    BY <1>3, Rests, Zenon
<1>5. {<<>>, GoneStop, GoneQuiet, GoneClear, GoneGone, DevRestart} \cap Ending = {}
    BY <1>1, <1>2, <1>3, <1>4, Heads DEF Ending
<1>6. {<<>>, UndoUnapply, UndoUnapplied, UndoBackActive} \cap Resuming = {}
    BY <1>1, <1>2, <1>3, Heads DEF Resuming
<1>7. {<<>>, NegConfigure, NegStop, NegQuiet, NegClear, NegUnlock} \cap Starting = {}
    BY Heads DEF Starting
<1> QED BY <1>5, <1>6, <1>7

-----------------------------------------------------------------------------
(* The steps of the programs *)

(* The mutexes are taken and given back one by one. *)
LEMMA Locks ==
    ASSUME Base, NEW m \in {"call", "session"}
    PROVE  /\ \A t \in Threads : Take(m, t) =>
                  /\ lock' \in [{"call", "session"} -> Threads \cup {Nobody}]
                  /\ lock'[m] = t /\ \A o \in {"call", "session"} : o # m => lock'[o] = lock[o]
           /\ Give(m) =>
                  /\ lock' \in [{"call", "session"} -> Threads \cup {Nobody}]
                  /\ lock'[m] = Nobody /\ \A o \in {"call", "session"} : o # m => lock'[o] = lock[o]
BY DEF Base, Take, Give

(* A thread that goes on without touching the call's state, mutex or       *)
(* description keeps what the programs rely on.                            *)
LEMMA Advance ==
    ASSUME ProgInv, CtlInv, NEW t \in Threads,
           NEW op \in {"configure", "stop", "quiet", "clear", "gone", "restart", "startAll", "start",
                       "started", "keepalive", "sendHold", "unapply", "unapplied", "sendResume"},
           At(t, op), Next1(t), lock'["call"] = lock["call"],
           call'.state = call.state, call'.inv = call.inv, call'.sdp = call.sdp
    PROVE  ProgInv' /\ CtlInv'
<1>1. ProgInv' /\ \A u \in Threads : u # t => prog'[u] = prog[u]
    BY Moves
<1>2. CASE t = "sip"
  <2>1. prog'["api"] = prog["api"] /\ prog'["main"] = prog["main"] /\ prog["sip"] # <<>>
    BY <1>1, <1>2 DEF Threads, At, Idle
  <2>2. \/ prog'["sip"] \in {NegStop, NegQuiet, EndQuiet, NegClear, EndClear, NegStartAll, EndEnded, NegUnlock}
        \/ prog["sip"] = RunStart /\ prog'["sip"] = RunStarted
    <3>1. CASE op = "configure"
        BY <1>2, <3>1, Moves
    <3>7. CASE op = "startAll"
        BY <1>2, <3>7, Moves
    <3>8. CASE op = "started"
        BY <1>2, <3>8, Moves
    <3>2. CASE op = "start"
        BY <1>2, <3>2, Moves
    <3>3. CASE op = "stop"
        BY <1>2, <3>3, Moves
    <3>4. CASE op = "quiet"
        BY <1>2, <3>4, Moves
    <3>5. CASE op = "clear"
        BY <1>2, <3>5, Moves
    <3>6. CASE op \in {"gone", "restart", "keepalive", "sendHold", "unapply", "unapplied", "sendResume"}
        BY <1>2, <3>6, Moves
    <3> QED BY <3>1, <3>2, <3>3, <3>4, <3>5, <3>6, <3>7, <3>8
  <2>3. /\ NegConfigure \notin {NegStop, NegQuiet, EndQuiet, NegClear, EndClear, NegStartAll, EndEnded,
                                NegUnlock, RunStarted}
        /\ {NegStop, NegQuiet, EndQuiet, NegClear, EndClear, NegStartAll, EndEnded, NegUnlock} \cap Running = {}
    BY Heads DEF Running
  <2>4. prog'["sip"] # NegConfigure /\ (prog'["sip"] \in Running => prog["sip"] \in Running)
    BY <2>2, <2>3 DEF Running
  <2> QED BY <1>1, <2>1, <2>4 DEF CtlInv
<1>3. CASE t = "api"
  <2>1. prog'["sip"] = prog["sip"] /\ prog'["main"] = prog["main"]
    BY <1>1, <1>3 DEF Threads
  <2>2. \/ prog["api"] \in Ending /\ prog'["api"] \in {EndQuiet, EndClear, EndEnded}
        \/ prog["api"] \in Resuming /\ prog'["api"] \in {ResUnapplied, ResSendResume}
        \/ prog'["api"] \in {HoldSendHold, UndoUnapplied, UndoBackActive, <<>>}
    BY <1>3, Moves DEF Ending, Resuming
  <2>3. prog'["api"] # HoldKeepalive
    BY <2>2, Heads
  <2>4. prog'["api"] \in Ending => prog["api"] \in Ending
    BY <2>2, Heads DEF Ending
  <2>5. HoldSendHold \notin Resuming /\ {EndQuiet, EndClear, EndEnded} \cap Resuming = {}
    BY Heads DEF Resuming
  <2>6. prog'["api"] \in Resuming => prog["api"] \in Resuming
    BY <2>2, <2>5, Distinct
  <2> QED BY <1>1, <2>1, <2>3, <2>4, <2>6 DEF CtlInv
<1>4. CASE t = "main"
  <2>1. prog'["sip"] = prog["sip"] /\ prog'["api"] = prog["api"]
    BY <1>1, <1>4 DEF Threads
  <2>2. prog["main"] \in Ending \/ prog'["main"] \in {GoneQuiet, GoneClear, GoneGone, <<>>}
    BY <1>4, Moves DEF Ending
  <2>3. prog'["main"] \in Ending => prog["main"] \in Ending
    BY <2>2, Distinct
  <2> QED BY <1>1, <2>1, <2>3 DEF CtlInv
<1> QED BY <1>2, <1>3, <1>4 DEF Threads

(* SIPCall::setupNegotiatedMedia *)
LEMMA ConfigureKeeps ==
    ASSUME IInv, NEW t \in Threads, Configure(t)
    PROVE  IInv'
<1>1. t = "sip" /\ prog["sip"] = NegConfigure /\ prog'["sip"] = NegStop /\ prog'["api"] = prog["api"]
    BY Moves DEF Configure, IInv, Threads
<1>2. Base' /\ ProgInv' /\ CtlInv'
    BY Advance DEF Configure, IInv, Base
<1>3. call.sdp \in Directions /\ call.sdp # "off"
    BY <1>1 DEF IInv, CtlInv, Base, Call
<1>4. Sound(ses') /\ (InOrder(ses) => InOrder(ses')) /\ (Quiet(ses) => Quiet(ses'))
    BY <1>3 DEF Configure, IInv, SesInv, Sound, Session, Out, InOrder, Quiet
<1>5. prog'["sip"] \notin Starting
    BY <1>1, Distinct
<1> QED BY <1>1, <1>2, <1>4, <1>5 DEF IInv, SesInv, Configure

(* AudioRtpSession::stop and AudioRtpSession::start, until they wait *)
LEMMA StopKeeps ==
    ASSUME IInv, NEW t \in Threads, Stop(t) \/ Start(t)
    PROVE  IInv'
<1> PICK op \in {"stop", "start"} : At(t, op)
    BY DEF Stop, Start
<1> Next1(t) /\ Take("session", t) /\ UNCHANGED <<call, starts, past>>
    BY DEF Stop, Start
<1>1. /\ prog'["api"] = prog["api"] \/ prog'["api"] = EndQuiet
      /\ prog'["sip"] \in Starting => prog["sip"] \in Starting
  <2>1. CASE t = "sip"
    <3>1. /\ prog'["api"] = prog["api"]
          /\ prog'["sip"] \in {NegQuiet, EndQuiet, RunStarted}
          /\ prog'["sip"] = RunStarted => prog["sip"] = RunStart
        <4>1. CASE op = "stop"
            <5>1. prog'["api"] = prog["api"] /\ prog'["sip"] \in {NegQuiet, EndQuiet}
                BY <2>1, <4>1, Moves DEF IInv, Threads
            <5>2. RunStarted \notin {NegQuiet, EndQuiet}
                BY Heads
            <5> QED BY <5>1, <5>2
        <4>2. CASE op = "start"
            BY <2>1, <4>2, Moves DEF IInv, Threads
        <4> QED BY <4>1, <4>2
    <3>2. NegQuiet \notin Starting /\ EndQuiet \notin Starting
        BY Heads DEF Starting
    <3> QED BY <3>1, <3>2 DEF Starting
  <2>2. CASE t # "sip"
    BY <2>2, Moves DEF IInv, Threads
  <2> QED BY <2>1, <2>2
<1>2. Base' /\ ProgInv' /\ CtlInv'
    BY Advance, Locks DEF IInv, Base
<1>3. Stopping(ses.punch) \in Loop
    BY StoppingProps DEF IInv, SesInv, Sound, Session
<1>4. ses' = [ses EXCEPT !.hold = FALSE, !.punch = Stopping(ses.punch)]
    BY DEF Stop, Start
<1>5. /\ Sound(ses') /\ (InOrder(ses) => InOrder(ses')) /\ (Quiet(ses) => Quiet(ses'))
      /\ ses'.dir = ses.dir /\ ses'.sender = ses.sender
    BY <1>3, <1>4, PunchProps DEF IInv, SesInv
<1>6. EndQuiet \notin {<<>>, HoldSendHold}
    BY Heads
<1> QED BY <1>1, <1>2, <1>5, <1>6 DEF IInv, SesInv

(* ... until stop waits for the workers *)
LEMMA StopReceiverKeeps ==
    ASSUME IInv, NEW t \in Threads, StopReceiver(t)
    PROVE  IInv'
<1>1. /\ prog'["api"] = prog["api"] \/ prog'["api"] = EndClear
      /\ prog'["sip"] \in Starting => prog["sip"] \in Starting
  <2>1. CASE t = "sip"
    <3>1. prog'["api"] = prog["api"] /\ prog'["sip"] \in {NegClear, EndClear}
        BY <2>1, Moves DEF IInv, Threads, StopReceiver
    <3>2. NegClear \notin Starting /\ EndClear \notin Starting
        BY Heads DEF Starting
    <3> QED BY <3>1, <3>2
  <2>2. CASE t # "sip"
    BY <2>2, Moves DEF IInv, Threads, StopReceiver
  <2> QED BY <2>1, <2>2
<1>2. Base' /\ ProgInv' /\ CtlInv'
    BY Advance DEF IInv, Base, StopReceiver
<1> DEFINE r == Stopping(ses.receive)
           c == Stopping(ses.rtcp)
           n == [ses EXCEPT !.blocking = FALSE, !.receive = r, !.rtcp = c,
                            !.input = IF @ = "attached" THEN "idle" ELSE @,
                            !.socket = IF @ = "open" THEN "interrupted" ELSE @]
<1>3. /\ r \in Loop /\ r.at = ses.receive.at /\ (ses.receive.state # "READY" => r.state # "READY")
      /\ c \in Loop /\ c.at = ses.rtcp.at
    BY StoppingProps DEF IInv, SesInv, Sound, Session
<1>4. ses' = n
    BY DEF StopReceiver
<1> HIDE DEF r, c
<1>5. n \in Session
    BY <1>3 DEF IInv, SesInv, Sound, Session
<1>6. /\ n.receive = r /\ n.rtcp = c /\ n.dir = ses.dir /\ n.sender = ses.sender /\ n.input # "attached"
      /\ n.muted = ses.muted /\ n.init = ses.init /\ n.last = ses.last
      /\ n.socket = "none" => ses.socket = "none"
    BY DEF IInv, SesInv, Sound, Session
<1> HIDE DEF n
<1>7. Sound(n) /\ (InOrder(ses) => InOrder(n)) /\ (Quiet(ses) => Quiet(n))
    BY <1>3, <1>5, <1>6 DEF IInv, SesInv, Sound, InOrder, Quiet, Out
<1>8. EndClear \notin {<<>>, HoldSendHold}
    BY Heads
<1> QED BY <1>1, <1>2, <1>4, <1>6, <1>7, <1>8 DEF IInv, SesInv, StopReceiver

(* ... and to its end *)
LEMMA StopSenderKeeps ==
    ASSUME IInv, NEW t \in Threads, StopSender(t)
    PROVE  IInv'
<1>1. prog'["api"] = prog["api"] \/ prog'["api"] = EndEnded
    BY Moves DEF IInv, Threads, StopSender
<1>2. Base' /\ ProgInv' /\ CtlInv'
    BY Advance, Locks DEF IInv, Base, StopSender
<1> DEFINE l == IF ses.sender # "none" THEN ses.sender ELSE ses.last
           b == ses.reserved \/ (ses.socket # "none" /\ ses.dir # "off")
           n == [ses EXCEPT !.receive = Unstarted, !.muted = FALSE, !.last = l,
                            !.sender = "none", !.input = "none", !.socket = "none", !.reserved = b]
<1>3. l \in Seqs /\ b \in BOOLEAN /\ (InOrder(ses) => l # "behind" /\ (l = "none" => ses.init = "ahead"))
    BY DEF IInv, SesInv, Sound, Session, InOrder
<1>4. ses' = n /\ Out(ses.rtcp)
    BY DEF StopSender
<1> HIDE DEF l, b
<1>5. n \in Session
    BY <1>3, LoopTypes DEF IInv, SesInv, Sound, Session, Seqs
<1>6. /\ n.receive = Unstarted /\ n.rtcp = ses.rtcp /\ n.sender = "none" /\ n.input = "none"
      /\ n.init = ses.init /\ n.last = l
    BY DEF IInv, SesInv, Sound, Session
<1> HIDE DEF n
<1>7. Sound(n) /\ (InOrder(ses) => InOrder(n)) /\ Quiet(n)
    BY <1>3, <1>4, <1>5, <1>6, LoopTypes DEF Sound, InOrder, Quiet
<1> QED BY <1>2, <1>4, <1>6, <1>7 DEF IInv, SesInv, StopSender

(* SIPCall::startAllMedia *)
LEMMA StartAllMediaKeeps ==
    ASSUME IInv, NEW t \in Threads, StartAllMedia(t)
    PROVE  IInv'
<1>1. t = "sip" /\ prog["sip"] = NegStartAll
    BY Ops DEF StartAllMedia, IInv
<1>2. Base' /\ ("stale" \notin past' => "stale" \notin past) /\ call' = call /\ lock' = lock
    BY DEF StartAllMedia, IInv, Base
<1>3. CASE call.state = "HOLD"
  <2>1. Next1(t)
    BY <1>3 DEF StartAllMedia
  <2>2. PICK k \in Luck : ses' = HoldAudio(ses, k)
    BY <1>3 DEF StartAllMedia
  <2>3. Sound(ses') /\ (InOrder(ses) => InOrder(ses')) /\ Quiet(ses')
    BY <2>2, HoldAudioProps DEF IInv, SesInv
  <2>4. ProgInv' /\ CtlInv'
    BY <1>2, <2>1, Advance DEF IInv, StartAllMedia
  <2> QED BY <1>2, <1>3, <2>3, <2>4 DEF IInv, SesInv
<1>4. CASE call.state # "HOLD"
  <2>1. Then("sip", RunStart) /\ UNCHANGED ses
    BY <1>1, <1>4, Beginnings, Zenon DEF StartAllMedia
  <2>2. RunStart \in Programs("sip")
    BY DEF Programs, SipPrograms, Running
  <2>3. /\ ProgInv' /\ prog'["sip"] = RunStart
        /\ prog'["api"] = prog["api"] /\ prog'["main"] = prog["main"]
    BY <2>1, <2>2, Turns DEF IInv, Threads
  <2>4. call.state = "ACTIVE" /\ prog["sip"] # <<>> /\ RunStart # NegConfigure
    BY <1>1, <1>4, Heads DEF IInv, CtlInv, Base, Call
  <2>5. CtlInv'
    BY <1>2, <2>3, <2>4 DEF IInv, CtlInv
  <2>6. SesInv'
    BY <1>1, <1>2, <2>1, <2>3 DEF IInv, SesInv, Starting
  <2> QED BY <1>2, <2>3, <2>5, <2>6 DEF IInv
<1> QED BY <1>3, <1>4

(* AudioRtpSession::start, its end *)
LEMMA StartedKeeps ==
    ASSUME IInv, NEW t \in Threads, Started(t)
    PROVE  IInv'
<1>1. t = "sip" /\ prog["sip"] = RunStarted /\ prog'["sip"] = NegUnlock /\ prog'["api"] = prog["api"]
    BY Moves DEF Started, IInv, Threads
<1>2. call.state = "ACTIVE" /\ call' = call /\ starts' = starts
    BY <1>1 DEF IInv, CtlInv, Running, Started
<1>3. PICK k \in Luck : /\ past' = past \cup Unfortunate(k)
                        /\ ses' = IF EnsureSocketPair(ses).socket = "none" THEN EnsureSocketPair(ses)
                                  ELSE StartReceiver(StartSender(EnsureSocketPair(ses), k))
    BY DEF Started
<1>4. past' \subseteq Mishaps /\ ("stale" \notin past' => "stale" \notin past)
    BY <1>3 DEF IInv, Base, Unfortunate, Mishaps
<1>5. Base' /\ ProgInv' /\ CtlInv'
    BY <1>2, <1>4, Advance, Locks DEF IInv, Base, Started
<1> DEFINE e == EnsureSocketPair(ses)
           s == StartSender(e, k)
<1>6. /\ Sound(e) /\ (InOrder(ses) => InOrder(e)) /\ e.dir = ses.dir /\ e.sender = ses.sender
    BY EnsureProps DEF IInv, SesInv
<1>7. SendOnHold(e.dir) => e.sender = "none"
    BY <1>1, <1>2, <1>6 DEF IInv, SesInv, Starting
<1>8. ses' = IF e.socket = "none" THEN e ELSE StartReceiver(s)
    BY <1>3
<1> HIDE DEF e
<1>9. e.socket # "none" => Sound(s) /\ s.socket # "none" /\ (InOrder(e) => InOrder(s))
    BY <1>6, <1>7, StartSenderProps
<1> HIDE DEF s
<1>10. e.socket # "none" => Sound(StartReceiver(s)) /\ (InOrder(s) => InOrder(StartReceiver(s)))
    BY <1>9, StartReceiverProps
<1>11. Sound(ses') /\ (InOrder(ses) => InOrder(ses'))
    BY <1>6, <1>8, <1>9, <1>10
<1>12. prog'["sip"] \notin Starting
    BY <1>1, Distinct
<1> QED BY <1>2, <1>4, <1>5, <1>11, <1>12 DEF IInv, SesInv

(* The end of SIPCall::onMediaNegotiationComplete *)
LEMMA UnlockKeeps ==
    ASSUME IInv, NEW t \in Threads, Unlock(t)
    PROVE  IInv'
<1>1. /\ t = "sip" /\ prog["sip"] = NegUnlock /\ prog'["sip"] = <<>> /\ prog'["api"] = prog["api"]
      /\ prog'["main"] = prog["main"] /\ ProgInv'
    BY Moves DEF Unlock, IInv, Threads
<1>2. lock["call"] = "sip"
    BY <1>1, Heads DEF IInv, CtlInv
<1>3. Base'
    BY Locks DEF IInv, Base, Unlock
<1>4. <<>> \notin Starting /\ <<>> \notin Running /\ <<>> # NegConfigure
    BY Heads DEF Starting, Running
<1>5. CtlInv'
    BY <1>1, <1>2, <1>4 DEF IInv, CtlInv, Unlock
<1> QED BY <1>1, <1>3, <1>4, <1>5 DEF IInv, SesInv, Unlock

(* While the call's mutex is free the sip thread is idle and nobody ends   *)
(* the call.                                                               *)
LEMMA FreeCall ==
    ASSUME IInv, CallFree
    PROVE  prog["sip"] = <<>> /\ prog["api"] \notin Ending /\ prog["main"] \notin Ending
BY LockFields DEF IInv, CtlInv, CallFree, Nobody

(* A step of the api thread that needs the call's mutex and may change the *)
(* state of the call.                                                      *)
LEMMA ApiTurns ==
    ASSUME IInv, CallFree, NEW p \in ApiPrograms \ Ending, Then("api", p),
           call' \in Call, call'.inv = call.inv, call'.state = "OVER" <=> call.state = "OVER",
           p = HoldKeepalive => call'.state # "ACTIVE",
           p \in Resuming => call'.state # "HOLD",
           past' \subseteq Mishaps, past \subseteq past', UNCHANGED <<ses, lock, starts>>,
           call'.state = "HOLD" /\ p \in {<<>>, HoldSendHold} =>
               call.state = "HOLD" /\ prog["api"] \in {<<>>, HoldSendHold}
    PROVE  IInv'
<1>1. /\ ProgInv' /\ prog'["api"] = p /\ prog'["sip"] = prog["sip"] /\ prog'["main"] = prog["main"]
    BY Turns DEF IInv, Threads, Programs
<1>2. prog["sip"] = <<>> /\ prog["main"] \notin Ending
    BY FreeCall
<1>3. <<>> \notin Starting /\ <<>> \notin Running /\ <<>> # NegConfigure
    BY Heads DEF Starting, Running
<1>4. Base'
    BY DEF IInv, Base
<1>5. CtlInv'
    BY <1>1, <1>2, <1>3 DEF IInv, CtlInv
<1>6. SesInv'
    BY <1>1, <1>2, <1>3 DEF IInv, SesInv
<1> QED BY <1>1, <1>4, <1>5, <1>6 DEF IInv

(* The programs of a hold, a resume and its undoing end nothing. *)
LEMMA ApiOwn ==
    /\ {<<>>, HoldSetHold, HoldKeepalive, ResUnapply, UndoUnapply} \subseteq ApiPrograms \ Ending
    /\ {<<>>, HoldSetHold, HoldKeepalive, UndoUnapply} \cap Resuming = {}
    /\ HoldKeepalive \notin {<<>>, HoldSetHold, ResUnapply, UndoUnapply}
    /\ {HoldSetHold, HoldKeepalive, ResUnapply, UndoUnapply} \cap {<<>>, HoldSendHold} = {}
<1>1. {<<>>, HoldSetHold, HoldKeepalive, ResUnapply, UndoUnapply} \subseteq ApiPrograms
    BY DEF ApiPrograms, Resuming
<1>2. {<<>>, HoldSetHold, HoldKeepalive, ResUnapply, UndoUnapply} \cap Ending = {}
    BY Heads DEF Ending
<1>3. HoldSetHold \notin Resuming /\ HoldKeepalive \notin Resuming
    BY Heads DEF Resuming
<1>4. {<<>>, HoldSetHold, HoldKeepalive, UndoUnapply} \cap Resuming = {}
    BY <1>3, Distinct
<1>5. /\ HoldKeepalive \notin {<<>>, HoldSetHold, ResUnapply, UndoUnapply}
      /\ {HoldSetHold, HoldKeepalive, ResUnapply, UndoUnapply} \cap {<<>>, HoldSendHold} = {}
    BY Heads
<1> QED BY <1>1, <1>2, <1>4, <1>5

(* SIPCall::hold, its first step *)
LEMMA SetHoldKeeps ==
    ASSUME IInv, NEW t \in Threads, SetHold(t)
    PROVE  IInv'
<1>1. t = "api" /\ prog["api"] = HoldSetHold /\ Tail(prog["api"]) = HoldKeepalive
  <2>1. t = "api" /\ prog["api"] = HoldSetHold
    BY Ops DEF SetHold, IInv
  <2> QED BY <2>1, Rests, Zenon
<1>2. CASE call.state = "OVER"
  <2>1. Then("api", <<>>) /\ call' = call
    BY <1>1, <1>2 DEF SetHold
  <2> QED BY <1>2, <2>1, ApiTurns, ApiOwn DEF SetHold, IInv, Base
<1>3. CASE call.state # "OVER"
  <2>1. Then("api", HoldKeepalive) /\ call' = [call EXCEPT !.state = "HOLD"]
    BY <1>1, <1>3, Zenon DEF SetHold, Next1
  <2>2. call' \in Call /\ call'.state = "HOLD" /\ call'.inv = call.inv
    BY <2>1 DEF IInv, Base, Call
  <2> QED BY <1>3, <2>1, <2>2, ApiTurns, ApiOwn DEF SetHold, IInv, Base
<1> QED BY <1>2, <1>3

(* SIPCall::internalOffHold, its first step *)
LEMMA SetActiveKeeps ==
    ASSUME IInv, NEW t \in Threads, SetActive(t)
    PROVE  IInv'
<1>1. t = "api" /\ prog["api"] = ResSetActive /\ Tail(prog["api"]) = ResUnapply
  <2>1. t = "api" /\ prog["api"] = ResSetActive
    BY Ops DEF SetActive, IInv
  <2> QED BY <2>1, Rests, Zenon
<1>2. CASE call.state = "OVER"
  <2>1. Then("api", <<>>) /\ call' = call
    BY <1>1, <1>2 DEF SetActive
  <2> QED BY <1>2, <2>1, ApiTurns, ApiOwn DEF SetActive, IInv, Base
<1>3. CASE call.state # "OVER"
  <2>1. Then("api", ResUnapply) /\ call' = [call EXCEPT !.state = "ACTIVE"]
    BY <1>1, <1>3, Zenon DEF SetActive, Next1
  <2>2. call' \in Call /\ call'.state = "ACTIVE" /\ call'.inv = call.inv
    BY <2>1 DEF IInv, Base, Call
  <2> QED BY <1>3, <2>1, <2>2, ApiTurns, ApiOwn DEF SetActive, IInv, Base
<1> QED BY <1>2, <1>3

(* ... and the step that ends its undoing *)
LEMMA BackToActiveKeeps ==
    ASSUME IInv, NEW t \in Threads, BackToActive(t)
    PROVE  IInv'
<1>1. t = "api" /\ Tail(prog["api"]) = <<>>
  <2>1. t = "api" /\ prog["api"] = UndoBackActive
    BY Ops DEF BackToActive, IInv
  <2> QED BY <2>1, Rests, Zenon
<1>2. Then("api", <<>>)
    BY <1>1, Zenon DEF BackToActive, Next1
<1>3. /\ call' \in Call /\ call'.state \in {"ACTIVE", "OVER"} /\ call'.inv = call.inv
      /\ call'.state = "OVER" <=> call.state = "OVER"
    BY DEF BackToActive, IInv, Base, Call
<1>4. past' \subseteq Mishaps /\ past \subseteq past'
    BY DEF BackToActive, IInv, Base, Mishaps
<1> QED BY <1>2, <1>3, <1>4, ApiTurns, ApiOwn DEF BackToActive

(* SIPCall::SIPSessionReinvite *)
LEMMA SendKeeps ==
    ASSUME IInv, NEW t \in Threads, SendHold(t) \/ SendResume(t)
    PROVE  IInv'
<1>1. /\ t = "api" /\ prog["api"] \in {HoldSendHold, ResSendResume} /\ Tail(prog["api"]) = <<>>
      /\ prog["api"] = ResSendResume => call.state # "HOLD"
  <2>1. t = "api" /\ prog["api"] \in {HoldSendHold, ResSendResume}
    BY Ops DEF SendHold, SendResume, IInv
  <2>2. Tail(prog["api"]) = <<>>
    BY <2>1, Rests, Zenon
  <2> QED BY <2>1, <2>2 DEF IInv, CtlInv, Resuming
<1>2. PICK p \in {UndoUnapply, HoldSetHold, <<>>} :
         /\ Reinvite("api", p)
         /\ p = <<>> => prog["api"] = ResSendResume
  <2>1. CASE SendHold(t)
    BY <1>1, <2>1, Beginnings, Zenon DEF SendHold
  <2>2. CASE SendResume(t)
    <3>1. prog["api"] = ResSendResume
        BY <2>2, Ops DEF SendResume, IInv
    <3> QED BY <1>1, <2>2, <3>1, Beginnings, Zenon DEF SendResume
  <2> QED BY <2>1, <2>2
<1>3. CASE Then("api", p) /\ UNCHANGED call /\ past' = past \cup {"failed"}
  <2>1. past' \subseteq Mishaps /\ past \subseteq past' /\ call' \in Call
    BY <1>3 DEF IInv, Base, Mishaps
  <2>2. p \in ApiPrograms \ Ending /\ p # HoldKeepalive /\ p \notin Resuming
    BY ApiOwn
  <2>3. p = <<>> \/ p \notin {<<>>, HoldSendHold}
    BY ApiOwn
  <2> QED BY <1>1, <1>2, <1>3, <2>1, <2>2, <2>3, ApiTurns DEF Reinvite
<1>4. CASE Next1("api") /\ call' = [call EXCEPT !.tsx = "ours", !.offered = call.onHold] /\ UNCHANGED past
  <2>1. Then("api", <<>>)
    BY <1>1, <1>4, Zenon DEF Next1
  <2>2. call' \in Call /\ call'.state = call.state /\ call'.inv = call.inv
    BY <1>4 DEF IInv, Base, Call
  <2>3. past' \subseteq Mishaps /\ past \subseteq past'
    BY <1>4 DEF IInv, Base
  <2>4. CallFree /\ UNCHANGED <<ses, lock, starts>>
    BY <1>2 DEF Reinvite
  <2> QED BY <1>1, <2>1, <2>2, <2>3, <2>4, ApiTurns, ApiOwn
<1> QED BY <1>2, <1>3, <1>4 DEF Reinvite

(* applyLocalHoldAudioKeepalive(true, _) of a hold *)
LEMMA KeepaliveKeeps ==
    ASSUME IInv, NEW t \in Threads, Keepalive(t)
    PROVE  IInv'
<1>1. t = "api" /\ prog["api"] = HoldKeepalive /\ prog'["sip"] = prog["sip"]
    BY Moves DEF Keepalive, IInv, Threads
<1>2. /\ call' \in Call /\ call'.state = call.state /\ call'.inv = call.inv /\ call'.sdp = call.sdp
    BY DEF Keepalive, IInv, Base, Call
<1>3. Base' /\ ProgInv' /\ CtlInv'
    BY <1>2, Advance DEF Keepalive, IInv, Base
<1>4. PICK k \in Luck : ses' = HoldAudio(ses, k)
    BY DEF Keepalive
<1>5. Sound(ses') /\ (InOrder(ses) => InOrder(ses')) /\ Quiet(ses')
    BY <1>4, HoldAudioProps DEF IInv, SesInv
<1>6. prog["sip"] \in Starting => call.state = "HOLD"
  <2>1. prog["sip"] \in Starting => prog["sip"] # <<>>
    BY Heads DEF Starting
  <2> QED BY <1>1, <2>1 DEF IInv, CtlInv, Base, Call
<1> QED BY <1>1, <1>2, <1>3, <1>5, <1>6 DEF IInv, SesInv, Keepalive

(* The rest of a hold's undoing, and of a resume, is not the end of them. *)
LEMMA Unapplied ==
    {ResUnapplied, UndoUnapplied, ResSendResume, UndoBackActive} \cap {<<>>, HoldSendHold} = {}
BY Heads

(* AudioRtpSession::stopHoldKeepalive, until it waits *)
LEMMA StopHoldKeepaliveKeeps ==
    ASSUME IInv, NEW t \in Threads, StopHoldKeepalive(t)
    PROVE  IInv'
<1>1. t = "api" /\ prog'["api"] \in {ResUnapplied, UndoUnapplied} /\ prog'["sip"] = prog["sip"]
    BY Moves DEF StopHoldKeepalive, IInv, Threads
<1>2. /\ call' \in Call /\ call'.state = call.state /\ call'.inv = call.inv /\ call'.sdp = call.sdp
    BY DEF StopHoldKeepalive, IInv, Base, Call
<1>3. Base' /\ ProgInv' /\ CtlInv'
    BY <1>2, Advance, Locks DEF StopHoldKeepalive, IInv, Base
<1>4. Stopping(ses.punch) \in Loop
    BY StoppingProps DEF IInv, SesInv, Sound, Session
<1>5. ses' = [ses EXCEPT !.hold = FALSE, !.punch = Stopping(ses.punch)]
    BY DEF StopHoldKeepalive
<1>6. /\ Sound(ses') /\ (InOrder(ses) => InOrder(ses'))
      /\ ses'.dir = ses.dir /\ ses'.sender = ses.sender
    BY <1>4, <1>5, PunchProps DEF IInv, SesInv
<1> QED BY <1>1, <1>2, <1>3, <1>6, Unapplied DEF IInv, SesInv, StopHoldKeepalive

(* ... and its end *)
LEMMA StoppedHoldKeepaliveKeeps ==
    ASSUME IInv, NEW t \in Threads, StoppedHoldKeepalive(t)
    PROVE  IInv'
<1>1. t = "api" /\ prog'["api"] \in {ResSendResume, UndoBackActive} /\ prog'["sip"] = prog["sip"]
    BY Moves DEF StoppedHoldKeepalive, IInv, Threads
<1> DEFINE e == EnsureSocketPair(ses)
<1>2. PICK k \in Luck :
         /\ past' = past \cup Unfortunate(k)
         /\ ses' = [(IF ses.dir = "off" \/ SendOnHold(ses.dir) THEN ses
                     ELSE IF e.socket = "none" THEN e ELSE StartSender(e, k)) EXCEPT !.muted = FALSE]
    BY DEF StoppedHoldKeepalive
<1>3. past' \subseteq Mishaps /\ ("stale" \notin past' => "stale" \notin past)
    BY <1>2 DEF IInv, Base, Unfortunate, Mishaps
<1>4. Base' /\ ProgInv' /\ CtlInv'
    BY <1>3, Advance, Locks DEF StoppedHoldKeepalive, IInv, Base
<1> DEFINE r == IF ses.dir = "off" \/ SendOnHold(ses.dir) THEN ses
                ELSE IF e.socket = "none" THEN e ELSE StartSender(e, k)
<1>5. ses' = [r EXCEPT !.muted = FALSE]
    BY <1>2
<1>6. Sound(e) /\ (InOrder(ses) => InOrder(e)) /\ e.dir = ses.dir /\ e.sender = ses.sender
    BY EnsureProps DEF IInv, SesInv
<1> HIDE DEF e
<1>7. /\ Sound(r) /\ (InOrder(ses) => InOrder(r)) /\ r.dir = ses.dir
      /\ SendOnHold(ses.dir) => r.sender = ses.sender
    BY <1>6, StartSenderProps DEF IInv, SesInv
<1> HIDE DEF r
<1>8. /\ Sound(ses') /\ (InOrder(r) => InOrder(ses'))
      /\ ses'.dir = r.dir /\ ses'.sender = r.sender
    BY <1>5, <1>7 DEF Sound, Session, Out, InOrder
<1>9. SesInv'
    BY <1>1, <1>3, <1>7, <1>8, Unapplied DEF IInv, SesInv, StoppedHoldKeepalive
<1> QED BY <1>4, <1>9 DEF IInv

(* SIPCall::restartMediaSender *)
LEMMA RestartSenderKeeps ==
    ASSUME IInv, NEW t \in Threads, RestartSender(t)
    PROVE  IInv'
<1>1. t = "main" /\ prog'["sip"] = prog["sip"] /\ prog'["api"] = prog["api"]
    BY Moves DEF RestartSender, IInv, Threads
<1>2. CASE ses.socket = "none"
  <2>1. UNCHANGED <<ses, past>>
    BY <1>2 DEF RestartSender
  <2>2. Base' /\ ProgInv' /\ CtlInv'
    BY <2>1, Advance DEF RestartSender, IInv, Base
  <2> QED BY <1>1, <2>1, <2>2 DEF IInv, SesInv, RestartSender
<1>3. CASE ses.socket # "none"
  <2>1. PICK k \in Luck : ses' = StartSender(ses, k) /\ past' = past \cup Unfortunate(k) \cup Stale
    BY <1>3 DEF RestartSender
  <2>2. past' \subseteq Mishaps /\ past \subseteq past'
    BY <2>1 DEF IInv, Base, Unfortunate, Stale, Mishaps
  <2>3. "stale" \notin past' => call.state = "ACTIVE" /\ (SendOnHold(ses.dir) => ses.sender = "none")
    BY <2>1 DEF Stale
  <2>4. Base' /\ ProgInv' /\ CtlInv'
    BY <2>2, Advance DEF RestartSender, IInv, Base
  <2>5. /\ Sound(ses') /\ ses'.dir = ses.dir /\ (SendOnHold(ses.dir) => ses'.sender = "none")
        /\ InOrder(ses) /\ (SendOnHold(ses.dir) => ses.sender = "none") => InOrder(ses')
    BY <1>3, <2>1, StartSenderProps DEF IInv, SesInv
  <2>6. SesInv'
    BY <1>1, <2>2, <2>3, <2>5 DEF IInv, SesInv, RestartSender
  <2> QED BY <2>4, <2>6 DEF IInv
<1> QED BY <1>2, <1>3

(* The end of SIPCall::hangup and of SIPCall::peerHungup *)
LEMMA EndedKeeps ==
    ASSUME IInv, NEW t \in Threads, Ended(t)
    PROVE  IInv'
<1>1. /\ prog[t] = EndEnded /\ prog'[t] = <<>> /\ ProgInv'
      /\ \A u \in Threads : u # t => prog'[u] = prog[u]
    BY Moves DEF Ended, IInv
<1>2. EndEnded \in Ending /\ EndEnded # <<>>
    BY Heads DEF Ending
<1>3. lock["call"] = t
    BY <1>1, <1>2 DEF IInv, CtlInv, Threads
<1>4. prog'["sip"] = <<>>
    BY <1>1, <1>3 DEF IInv, CtlInv, Threads
<1>5. prog'["api"] \notin Ending /\ prog'["main"] \notin Ending
    BY <1>1, <1>3, Distinct DEF IInv, CtlInv, Threads
<1>6. call' \in Call /\ call'.state = "OVER" /\ call'.inv = "DISCONNECTED"
    BY DEF Ended, IInv, Base, Call
<1>7. Base'
    BY <1>6, Locks DEF Ended, IInv, Base
<1>8. <<>> \notin Starting /\ <<>> \notin Running /\ <<>> # NegConfigure
    BY Heads DEF Starting, Running
<1>9. CtlInv'
    BY <1>4, <1>5, <1>6, <1>8 DEF CtlInv
<1> QED BY <1>1, <1>4, <1>6, <1>7, <1>8, <1>9 DEF IInv, SesInv, Ended

(* The call is destroyed. *)
LEMMA DestroyedKeeps ==
    ASSUME IInv, NEW t \in Threads, Destroyed(t)
    PROVE  IInv'
<1>1. t = "main" /\ prog'["sip"] = prog["sip"] /\ prog'["api"] = prog["api"]
    BY Moves DEF Destroyed, IInv, Threads
<1>2. /\ call' \in Call /\ call'.state = call.state /\ call'.inv = call.inv /\ call'.sdp = call.sdp
    BY DEF Destroyed, IInv, Base, Call
<1>3. Base' /\ ProgInv' /\ CtlInv'
    BY <1>2, Advance DEF Destroyed, IInv, Base
<1> QED BY <1>1, <1>2, <1>3 DEF IInv, SesInv, Destroyed

(* Every step of a program keeps the invariant. *)
LEMMA StepKeeps ==
    ASSUME IInv, NEW t \in Threads, Step(t)
    PROVE  IInv'
BY ConfigureKeeps, StopKeeps, StopReceiverKeeps, StopSenderKeeps, StartAllMediaKeeps, StartedKeeps,
   UnlockKeeps, SetHoldKeeps, KeepaliveKeeps, SendKeeps, SetActiveKeeps, BackToActiveKeeps,
   StopHoldKeepaliveKeeps, StoppedHoldKeepaliveKeeps, RestartSenderKeeps, EndedKeeps, DestroyedKeeps
   DEF Step

-----------------------------------------------------------------------------
(* What begins the programs *)

(* A program begun with the call's mutex: a negotiation of the sip thread, *)
(* or the end of the call by any thread.                                   *)
LEMMA LockedBegins ==
    ASSUME IInv, CallFree, NEW t \in Threads, NEW p \in {NegConfigure, EndStop}, Idle(t),
           p = NegConfigure => t = "sip", call'.sdp # "off" \/ p = EndStop,
           Take("call", t), Then(t, p),
           call' \in Call, call'.state = call.state, call.state # "OVER", call'.inv # "DISCONNECTED",
           starts' \in 0..MaxStarts, UNCHANGED <<ses, past>>
    PROVE  IInv'
<1>1. p \in Programs(t)
    BY DEF Programs, SipPrograms, ApiPrograms, MainPrograms, Ending
<1>2. /\ ProgInv' /\ prog'[t] = p /\ \A u \in Threads : u # t => prog'[u] = prog[u]
    BY <1>1, Turns DEF IInv
<1>3. prog["sip"] = <<>> /\ prog["api"] \notin Ending /\ prog["main"] \notin Ending
    BY FreeCall
<1>4. Base' /\ lock'["call"] = t
    BY Locks DEF IInv, Base
<1>5. {<<>>, NegConfigure, EndStop} \cap Starting = {} /\ {<<>>, NegConfigure, EndStop} \cap Running = {}
    BY Heads DEF Starting, Running
<1>6. EndStop \notin Resuming /\ EndStop \notin {<<>>, HoldSendHold, HoldKeepalive, NegConfigure}
    BY Heads DEF Resuming
<1>7. CASE t = "sip"
  <2>1. prog'["sip"] = p /\ prog'["api"] = prog["api"] /\ prog'["main"] = prog["main"]
    BY <1>2, <1>7 DEF Threads
  <2>2. CtlInv'
    BY <1>3, <1>4, <1>5, <1>6, <1>7, <2>1 DEF IInv, CtlInv
  <2> QED BY <1>2, <1>4, <1>5, <2>1, <2>2 DEF IInv, SesInv
<1>8. CASE t # "sip"
  <2>1. prog'["sip"] = <<>> /\ p = EndStop
    BY <1>2, <1>3, <1>8 DEF Threads
  <2>2. \/ prog'["api"] = prog["api"] /\ t = "main"
        \/ prog'["api"] = EndStop /\ t = "api" /\ prog'["main"] = prog["main"]
    BY <1>2, <1>8, <2>1 DEF Threads
  <2>3. CtlInv'
    BY <1>3, <1>4, <1>5, <1>6, <2>1, <2>2, Heads DEF IInv, CtlInv
  <2>4. SesInv'
    BY <1>5, <1>6, <2>1, <2>2 DEF IInv, SesInv
  <2> QED BY <1>2, <1>4, <2>3, <2>4 DEF IInv
<1> QED BY <1>7, <1>8

(* A change of the call that leaves its state, and its description while   *)
(* the sip thread works, as they are.                                      *)
LEMMA CallChanges ==
    ASSUME IInv, call' \in Call, call'.state = call.state, call'.sdp = call.sdp,
           call'.inv = call.inv \/ (call.inv # "DISCONNECTED" /\ call'.inv # "DISCONNECTED"),
           past' \subseteq Mishaps, past \subseteq past', UNCHANGED <<ses, lock, prog, starts>>
    PROVE  IInv'
<1>1. Base' /\ ProgInv'
    BY DEF IInv, Base, ProgInv
<1>2. CtlInv'
    BY DEF IInv, CtlInv
<1>3. SesInv'
    BY DEF IInv, SesInv
<1> QED BY <1>1, <1>2, <1>3 DEF IInv

(* A step of a worker, which changes the session only. *)
LEMMA WorkerChanges ==
    ASSUME IInv, Works, Sound(ses'), InOrder(ses) => InOrder(ses'), Quiet(ses) => Quiet(ses'),
           ses'.dir = ses.dir, ses.sender = "none" => ses'.sender = "none"
    PROVE  IInv'
<1>1. Base' /\ ProgInv' /\ CtlInv'
    BY DEF IInv, Base, ProgInv, CtlInv, Works
<1>2. SesInv'
    BY DEF IInv, SesInv, Works
<1> QED BY <1>1, <1>2 DEF IInv

(* The answers, the offers and the refusals of the peer. *)
LEMMA SipKeeps ==
    ASSUME IInv, Sip
    PROVE  IInv'
<1> USE DEF IInv, Base
<1>1. ASSUME NEW d \in Directions, EarlyMedia(d) \/ Answered(d) \/ ReinviteAnswered(d) \/ PeerReinvites(d)
      PROVE  IInv'
  <2>1. /\ Idle("sip") /\ CallFree /\ Take("call", "sip") /\ Then("sip", NegConfigure)
        /\ UNCHANGED <<ses, past>>
    BY <1>1, Beginnings, Zenon DEF EarlyMedia, Answered, ReinviteAnswered, PeerReinvites, Negotiated
  <2>2. d # "off"
    BY <1>1 DEF EarlyMedia, Answered, ReinviteAnswered, PeerReinvites, Outcomes
  <2>3. call.inv # "DISCONNECTED" /\ call.state # "OVER"
    BY <1>1 DEF EarlyMedia, Answered, ReinviteAnswered, PeerReinvites, CtlInv
  <2>4. /\ call' \in Call /\ call'.state = call.state /\ call'.sdp = d /\ call'.inv # "DISCONNECTED"
    BY <1>1, <2>3 DEF EarlyMedia, Answered, ReinviteAnswered, PeerReinvites, Call
  <2>5. starts' \in 0..MaxStarts
    <3>1. starts' = starts \/ (starts < MaxStarts /\ starts' = starts + 1)
        BY <1>1, Zenon DEF EarlyMedia, Answered, ReinviteAnswered, PeerReinvites
    <3> QED BY <3>1, StartBound
  <2> QED BY <2>1, <2>2, <2>3, <2>4, <2>5, LockedBegins DEF Threads
<1>2. ASSUME AnsweredAfterEarly \/ ReinviteRefused \/ TransactionOver
      PROVE  IInv'
  <2>1. /\ call' \in Call /\ call'.state = call.state /\ call'.sdp = call.sdp
        /\ call'.inv = call.inv \/ (call.inv # "DISCONNECTED" /\ call'.inv # "DISCONNECTED")
    BY <1>2 DEF AnsweredAfterEarly, ReinviteRefused, TransactionOver, Call
  <2>2. past' \subseteq Mishaps /\ past \subseteq past' /\ UNCHANGED <<ses, lock, prog, starts>>
    BY <1>2 DEF AnsweredAfterEarly, ReinviteRefused, TransactionOver, Mishaps
  <2> QED BY <2>1, <2>2, CallChanges
<1> QED BY <1>1, <1>2 DEF Sip

(* A program begun without the call's mutex. *)
LEMMA FreeBegins ==
    ASSUME IInv, NEW t \in {"api", "main"}, NEW p, Then(t, p),
           t = "api" => p \in {HoldSetHold, ResSetActive},
           t = "main" => p \in {DevRestart, GoneStop},
           starts' \in 0..MaxStarts, UNCHANGED <<call, ses, lock, past>>
    PROVE  IInv'
<1>1. p \in Programs(t)
    BY DEF Programs, ApiPrograms, MainPrograms
<1>2. /\ ProgInv' /\ prog'[t] = p /\ \A u \in Threads : u # t => prog'[u] = prog[u]
    BY <1>1, Turns DEF IInv, Threads
<1>3. Base'
    BY DEF IInv, Base
<1>4. /\ {HoldSetHold, ResSetActive} \cap Ending = {}
      /\ {HoldSetHold, ResSetActive} \cap Resuming = {}
      /\ {HoldSetHold, ResSetActive} \cap {<<>>, HoldKeepalive, HoldSendHold} = {}
    BY Heads DEF Ending, Resuming
<1>5. DevRestart \notin Ending /\ GoneStop \notin Ending
    BY Distinct
<1>6. prog'["sip"] = prog["sip"]
    BY <1>2 DEF Threads
<1>7. CASE t = "api"
  <2>1. prog'["api"] = p /\ prog'["main"] = prog["main"]
    BY <1>2, <1>7 DEF Threads
  <2>2. CtlInv'
    BY <1>4, <1>6, <1>7, <2>1 DEF IInv, CtlInv
  <2>3. SesInv'
    BY <1>4, <1>6, <1>7, <2>1 DEF IInv, SesInv
  <2> QED BY <1>2, <1>3, <2>2, <2>3 DEF IInv
<1>8. CASE t = "main"
  <2>1. prog'["main"] = p /\ prog'["api"] = prog["api"]
    BY <1>2, <1>8 DEF Threads
  <2>2. CtlInv'
    BY <1>5, <1>6, <1>8, <2>1 DEF IInv, CtlInv
  <2>3. SesInv'
    BY <1>6, <2>1 DEF IInv, SesInv
  <2> QED BY <1>2, <1>3, <2>2, <2>3 DEF IInv
<1> QED BY <1>7, <1>8

(* The clients, and the end of the call. *)
LEMMA ClientsKeep ==
    ASSUME IInv, Clients
    PROVE  IInv'
<1>1. ASSUME Hold \/ Unhold PROVE IInv'
  <2>1. \E p \in {HoldSetHold, ResSetActive} : Begin("api", p)
    BY <1>1, Beginnings, Zenon DEF Hold, Unhold
  <2> QED BY <2>1, FreeBegins, StartBound DEF Begin, IInv, Base
<1>2. ASSUME AudioDevicesChanged PROVE IInv'
  <2>1. Begin("main", DevRestart)
    BY <1>2, Beginnings, Zenon DEF AudioDevicesChanged
  <2> QED BY <2>1, FreeBegins, StartBound DEF Begin, IInv, Base
<1>3. ASSUME Connected PROVE IInv'
  <2>1. call' \in Call /\ call'.state = call.state /\ call'.sdp = call.sdp /\ call'.inv = call.inv
    BY <1>3 DEF Connected, IInv, Base, Call
  <2> QED BY <1>3, <2>1, CallChanges DEF Connected, IInv, Base
<1>4. ASSUME NEW t \in Threads, Hangup(t) PROVE IInv'
  <2>1. Then(t, EndStop) /\ Take("call", t) /\ CallFree /\ Idle(t) /\ UNCHANGED <<call, ses, starts, past>>
    BY <1>4, Beginnings, Zenon DEF Hangup
  <2>2. EndStop # NegConfigure
    BY Heads
  <2>3. call.inv # "DISCONNECTED" /\ call.state # "OVER"
    BY <1>4 DEF Hangup, IInv, CtlInv
  <2> QED BY <2>1, <2>2, <2>3, LockedBegins DEF IInv, Base
<1>5. ASSUME Destroy PROVE IInv'
  <2>1. Then("main", GoneStop) /\ UNCHANGED <<call, ses, lock, starts, past>>
    BY <1>5, Beginnings, Zenon DEF Destroy
  <2> QED BY <2>1, FreeBegins DEF IInv, Base
<1> QED BY <1>1, <1>2, <1>3, <1>4, <1>5 DEF Clients, NegotiationFails, Threads

(* The workers. *)
LEMMA WorkersKeep ==
    ASSUME IInv, Workers
    PROVE  IInv'
<1>1. Sound(ses)
    BY DEF IInv, SesInv
<1>2. ASSUME Microphone \/ ProcessNatPunch PROVE IInv'
  <2>1. ses.sender # "none" /\ ses' = Packet(ses) /\ Works
    BY <1>1, <1>2 DEF Microphone, ProcessNatPunch, Sound
  <2> QED BY <1>1, <2>1, PacketProps, WorkerChanges
<1>3. ses.punch \in Loop /\ ses.rtcp \in Loop /\ ses.receive \in Loop
    BY <1>1 DEF Sound, Session
<1>4. ASSUME NatPunchReturns PROVE IInv'
  <2> DEFINE l == [ses.punch EXCEPT !.at = "out"]
  <2>1. l \in Loop /\ ses' = [ses EXCEPT !.punch = l] /\ Works
    BY <1>3, <1>4 DEF NatPunchReturns, Loop
  <2> HIDE DEF l
  <2>2. /\ Sound(ses') /\ (InOrder(ses) => InOrder(ses')) /\ (Quiet(ses) => Quiet(ses'))
        /\ ses'.dir = ses.dir /\ ses'.sender = ses.sender
    BY <1>1, <2>1 DEF Sound, Session, InOrder, Quiet, Out
  <2> QED BY <2>1, <2>2, WorkerChanges
<1>5. ASSUME RtcpCheckerReturns PROVE IInv'
  <2> DEFINE l == [ses.rtcp EXCEPT !.at = "out"]
  <2>1. l \in Loop /\ Out(l) /\ ses' = [ses EXCEPT !.rtcp = l] /\ Works
    BY <1>3, <1>5 DEF RtcpCheckerReturns, Loop, Out
  <2> HIDE DEF l
  <2>2. /\ Sound(ses') /\ (InOrder(ses) => InOrder(ses')) /\ (Quiet(ses) => Quiet(ses'))
        /\ ses'.dir = ses.dir /\ ses'.sender = ses.sender
    BY <1>1, <2>1 DEF Sound, Session, InOrder, Quiet, Out
  <2> QED BY <2>1, <2>2, WorkerChanges
<1>6. ASSUME ReceiverSetUp \/ ReceiverReturns PROVE IInv'
  <2> DEFINE l == IF ReceiverSetUp THEN [ses.receive EXCEPT !.at = "in"]
                  ELSE [state |-> "STOPPING", at |-> "out"]
  <2>1. ~Out(ses.receive) /\ ses' = [ses EXCEPT !.receive = l] /\ Works
    BY <1>6 DEF ReceiverSetUp, ReceiverReturns, Out
  <2>2. l \in Loop /\ l.state # "READY"
    BY <1>1, <1>3, <2>1 DEF Loop, Sound
  <2> HIDE DEF l
  <2>3. /\ Sound(ses') /\ (InOrder(ses) => InOrder(ses')) /\ (Quiet(ses) => Quiet(ses'))
        /\ ses'.dir = ses.dir /\ ses'.sender = ses.sender
    BY <1>1, <2>1, <2>2 DEF Sound, Session, InOrder, Quiet, Out
  <2> QED BY <2>1, <2>3, WorkerChanges
<1> QED BY <1>2, <1>4, <1>5, <1>6 DEF Workers

-----------------------------------------------------------------------------
(* The theorems *)

(* The invariant holds of a call that rings, and every step keeps it: a    *)
(* negotiation, a hold, a resume, a device change and the end of the call, *)
(* however their steps and those of the workers interleave.                *)
THEOREM Inductive == Init /\ [][Next]_vars => []IInv
<1>1. Init => IInv
  <2> SUFFICES ASSUME Init PROVE IInv
    OBVIOUS
  <2>1. Base
    <3>1. call \in Call
        BY DEF Init, Call, Directions
    <3>2. lock \in [{"call", "session"} -> Threads \cup {Nobody}]
        <4>1. lock = [call |-> Nobody, session |-> Nobody]
            BY Zenon DEF Init
        <4> QED BY <4>1
    <3>3. starts \in 0..MaxStarts /\ past \subseteq Mishaps
        <4>1. starts = 0 /\ past = {}
            BY Zenon DEF Init
        <4> QED BY <4>1, StartBound
    <3> QED BY <3>1, <3>2, <3>3 DEF Base
  <2>2. prog["sip"] = <<>> /\ prog["api"] = <<>> /\ prog["main"] = <<>>
    BY DEF Init, Threads
  <2>3. ProgInv
    BY <2>2 DEF Init, ProgInv, SipPrograms, ApiPrograms, MainPrograms
  <2>4. <<>> \notin Starting \cup Running \cup Ending \cup Resuming \cup {NegConfigure, HoldKeepalive}
    BY Heads DEF Starting, Running, Ending, Resuming
  <2>5. CtlInv
    BY <2>2, <2>4 DEF Init, CtlInv
  <2>6. Sound(ses) /\ InOrder(ses)
    BY LoopTypes DEF Init, Sound, Session, InOrder, Directions, Places, Seqs, Out
  <2>7. SesInv
    BY <2>2, <2>4, <2>6 DEF SesInv, Init
  <2> QED BY <2>1, <2>3, <2>5, <2>7 DEF IInv
<1>2. IInv /\ [Next]_vars => IInv'
  <2> SUFFICES ASSUME IInv, [Next]_vars PROVE IInv'
    OBVIOUS
  <2>1. CASE UNCHANGED vars
    <3>1. Base' /\ ProgInv'
        BY <2>1 DEF vars, IInv, Base, ProgInv
    <3>2. CtlInv'
        BY <2>1 DEF vars, IInv, CtlInv
    <3>3. SesInv'
        BY <2>1 DEF vars, IInv, SesInv
    <3> QED BY <3>1, <3>2, <3>3 DEF IInv
  <2> QED BY <2>1, SipKeeps, ClientsKeep, StepKeeps, WorkersKeep DEF Next
<1> QED BY <1>1, <1>2, PTL

(* The state has its types. *)
THEOREM TypeCorrect == Spec => []TypeOK
<1>1. IInv => TypeOK
    BY DEF IInv, Base, SesInv, Sound, TypeOK
<1> QED BY <1>1, Inductive, PTL DEF Spec

(* No worker and no sender is ever left without a socket pair:             *)
(* AudioRtpSession::stop joins them before it destroys the pair.           *)
THEOREM NoWorkerWithoutSockets == Spec => []WorkersHaveSockets
<1>1. IInv => WorkersHaveSockets
    BY DEF IInv, SesInv, Sound, WorkersHaveSockets
<1> QED BY <1>1, Inductive, PTL DEF Spec

(* A call on hold neither sends the microphone nor plays the peer, after   *)
(* any number of holds, resumes and negotiations (SIPCall::hold,           *)
(* SIPCall::startAllMedia).                                                *)
THEOREM HeldCallsAreSilent == Spec => []HeldIsSilent
<1>1. IInv => HeldIsSilent
    BY DEF IInv, SesInv, HeldIsSilent, Quiet, Idle
<1> QED BY <1>1, Inductive, PTL DEF Spec

(* No sequence number is used again, after any number of restarts          *)
(* (AudioRtpSession::startSender, AudioRtpSession::stop).                  *)
THEOREM NumbersGoOn == Spec => []SequenceGoesOn
<1>1. IInv => SequenceGoesOn
    BY DEF IInv, SesInv, SequenceGoesOn, InOrder
<1> QED BY <1>1, Inductive, PTL DEF Spec
=============================================================================
