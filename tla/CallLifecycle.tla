---------------------------- MODULE CallLifecycle ----------------------------
(***************************************************************************)
(* The life of SIP calls: Call and SIPCall (src/src/call.cpp,              *)
(* src/src/sip/sipcall.cpp), CallFactory, the session callbacks of         *)
(* SIPVoIPLink and Manager's call functions.  Three threads run them:      *)
(*   sip   SIPVoIPLink::sipThread_, inside PJSIP's callbacks;              *)
(*   main  the ScheduledExecutor: closures posted by runOnMainThread, in   *)
(*         the order they were posted;                                     *)
(*   api   a client thread inside a Manager function.                      *)
(* A section under callMutex_ is one step, and so is a stretch that shares *)
(* nothing.  Call::setState with three arguments does not take the mutex:  *)
(* where it is called outside the lock, its test and its assignment are    *)
(* two steps.                                                              *)
(*                                                                         *)
(* A posted closure holds a weak pointer: it does nothing once the call is *)
(* out of the factory and no thread works on it.                           *)
(*                                                                         *)
(* Left to other modules or out: connectivity recovery, conferences,       *)
(* ringtone choice, the Replaces header and two calls with the same peer.  *)
(***************************************************************************)
EXTENDS CallState, Naturals, Sequences, FiniteSets

CONSTANTS
    Calls,      \* call identities
    Incoming,   \* those whose type is INCOMING; the others are OUTGOING
    NoCall,     \* the empty call id
    MaxCalls,   \* bound: how many calls there ever are
    MaxQueue,   \* bound: length of the main thread's queue for new events
    Requests,   \* bound: what clients ask for, of "dial", "answer", "hangup", "refuse", "hold"
    Events      \* bound: what happens to calls, of SessionEvents and "transport"

SessionEvents == {"ringing", "early", "confirmed", "media", "mediaFail", "closed", "busy", "failure"}

ASSUME CallsAssumption == Incoming \subseteq Calls /\ NoCall \notin Calls
ASSUME BoundsAssumption == MaxQueue \in Nat /\ MaxCalls \in Nat

VARIABLES
    call,       \* the members of each SIPCall and the state of its PJSIP session
    created,    \* calls that were ever made by CallFactory::newSipCall
    registered, \* CallFactory::callMaps_, and the account's call set
    queue,      \* closures waiting for the main thread
    sip,        \* what the SIP thread is doing
    main,       \* what the main thread is doing
    api,        \* what the client thread is doing
    current,    \* currentCall_
    waiting,    \* waitingCalls_
    audio,      \* calls bound to the main ring buffer, with their guards
    tone        \* a ringback or ringing tone plays

vars == <<call, created, registered, queue, sip, main, api, current, waiting, audio, tone>>
managerVars == <<current, waiting, audio, tone>>

(* The PJSIP session: CALLING, INCOMING and EARLY are EARLY here.          *)
(* CONNECTING is a 200 OK sent and not acknowledged yet.                   *)
Sessions == {"NULL", "EARLY", "CONNECTING", "CONFIRMED", "DISCONNECTED"}

Call ==
    [st : CallStates, cnx : ConnectionStates, over : BOOLEAN,
     sess : Sessions,      \* inv->state, external
     inv : BOOLEAN,        \* inviteSession_ is set, and its mod_data points back
     trans : BOOLEAN,      \* sipTransport_ is set, and listened to
     hup : BOOLEAN,        \* localHangupInProgress_
     media : BOOLEAN]      \* RTP sessions run

NewCall == [st |-> "INACTIVE", cnx |-> "DISCONNECTED", over |-> FALSE, sess |-> "NULL",
            inv |-> FALSE, trans |-> FALSE, hup |-> FALSE, media |-> FALSE]

Idle == [op |-> "idle", c |-> NoCall]
Doing(op, c) == [op |-> op, c |-> c]

SipOps == {"invite", "incoming", "incomingRing", "ringing", "early", "confirmed", "media",
           "mediaFail", "closed", "busy", "busyCommit", "failure", "failureCommit"}
Closures == {"start", "audio", "early", "answered", "closed", "busy", "failure"}
MainOps == Closures \cup {"startSend", "startState", "startCommit", "answeredCommit",
                          "answeredAudio", "closedTeardown", "remove"}
ApiOps == {"dialled", "answer", "answered", "hangup", "refused",
           "hold", "holdOther", "rehold", "holding", "holdingOther", "reholding", "resuming"}

Init ==
    /\ call = [c \in Calls |-> NewCall]
    /\ created = {} /\ registered = {}
    /\ queue = <<>>
    /\ sip = Idle /\ main = Idle /\ api = Idle
    /\ current = NoCall /\ waiting = {} /\ audio = {} /\ tone = FALSE

-----------------------------------------------------------------------------
(* Helpers. *)

Str(c) == StateStr(call[c], c \in Incoming)

Alive(c) == c \in registered \/ c \in {sip.c, main.c, api.c}

Room == Len(queue) < MaxQueue

Fresh == {c \in Calls \ created : Cardinality(created) < MaxCalls}

(* Every accepted change of state posts checkAudio. *)
Notices(k, k2, c) ==
    IF <<k.st, k.cnx>> # <<k2.st, k2.cnx>> THEN <<Doing("audio", c)>> ELSE <<>>

(* call c becomes k, what its listeners post is queued, then `posts` *)
Become(c, k, posts) ==
    /\ call' = [call EXCEPT ![c] = k]
    /\ queue' = queue \o Notices(call[c], k, c) \o posts

(* SIPCall::removeCall, with Call::removeCall: the call also leaves the     *)
(* factory and the account.                                                *)
Removed(k) == [SetState(k, "OVER", k.cnx) EXCEPT !.inv = FALSE, !.trans = FALSE]

(* PJSIP calls back at once when the final response to an INVITE that is   *)
(* still unanswered is sent; ending any other session calls back later,    *)
(* when the session no longer knows the call.                              *)
EndsAtOnce(k, c) == k.inv /\ k.sess = "EARLY" /\ c \in Incoming

(* SIPCall::terminateSipSession; s is the state the immediate callback     *)
(* asks for (onBusyHere, onFailure).                                       *)
Terminated(k, c, s) ==
    LET ended == IF k.inv /\ k.sess # "DISCONNECTED"
                    THEN [k EXCEPT !.sess = "DISCONNECTED"] ELSE k
    IN  [IF EndsAtOnce(k, c) THEN SetState(ended, s, "DISCONNECTED") ELSE ended
         EXCEPT !.inv = FALSE]

TerminationPosts(k, c, s) ==
    IF EndsAtOnce(k, c) /\ (s = "BUSY" \/ Accepted(k, s))
       THEN <<Doing(IF s = "BUSY" THEN "busy" ELSE "failure", c)>> ELSE <<>>

(* The dialog is locked while PJSIP calls back about its session: a thread *)
(* that has to end a live session waits for the SIP thread to leave it.    *)
(* transaction_request_cb unlocks it before it makes the call known.       *)
DialogFree(c) ==
    call[c].inv /\ call[c].sess # "DISCONNECTED" =>
        sip.c # c \/ sip.op \in {"invite", "incoming", "incomingRing"}

(* Seeded bug: the destructor leaves mod_data pointing at the call. *)
DroppedKeepsSession(c, k, others) == k

(* ~SIPCall, once the factory and the other threads let go of the call. *)
Dropped(c, k, others) ==
    IF c \in registered \cup others THEN k ELSE [k EXCEPT !.inv = FALSE, !.trans = FALSE]

(* SIPCall::hangup under callMutex_.  localHangupInProgress_ lets only the  *)
(* first one through.                                                      *)
HungUp(k, c) ==
    Removed(SetConnection([Terminated(k, c, "MERROR") EXCEPT !.hup = TRUE, !.media = FALSE],
                          "DISCONNECTED"))

HangUp(c, Ends(_, _)) ==
    IF call[c].hup
       THEN Ends(call[c], <<>>) /\ UNCHANGED registered
       ELSE /\ Ends(HungUp(call[c], c), TerminationPosts(call[c], c, "MERROR"))
            /\ registered' = registered \ {c}

-----------------------------------------------------------------------------
(* Client thread: Manager's functions. *)

ApiGoes(a) == api' = a /\ UNCHANGED <<sip, main>>

ApiEnds(k, posts) ==
    /\ Become(api.c, Dropped(api.c, k, {sip.c, main.c}), posts)
    /\ ApiGoes(Idle)

(* Manager::outgoingCall up to newOutgoingCall's return.  The offer may     *)
(* fail after the call is registered: the exception leaves it there.       *)
NewOutgoingCall(c, t) ==
    /\ c \in Fresh \ Incoming
    /\ created' = created \cup {c}
    /\ registered' = registered \cup {c}
    /\ LET k == [NewCall EXCEPT !.trans = t] IN
        \/ Become(c, k, <<Doing("start", c)>>)
        \/ Become(c, SetState(k, "MERROR", "DISCONNECTED"), <<Doing("failure", c)>>)

OutgoingCall(c, t) ==
    /\ api = Idle /\ Room
    /\ NewOutgoingCall(c, t)
    /\ ApiGoes(Doing("dialled", c))
    /\ UNCHANGED managerVars

OutgoingCallNoOffer(c, t) ==
    /\ api = Idle
    /\ c \in Fresh \ Incoming
    /\ created' = created \cup {c}
    /\ registered' = registered \cup {c}
    /\ call' = [call EXCEPT ![c] = [NewCall EXCEPT !.trans = t]]
    /\ UNCHANGED <<queue, sip, main, api, current, waiting, audio, tone>>

OutgoingCallReturns ==
    /\ api.op = "dialled"
    /\ current' = api.c
    /\ tone' = FALSE
    /\ ApiEnds(call[api.c], <<>>)
    /\ UNCHANGED <<created, registered, waiting, audio>>

AnswerCall(c) ==
    /\ api = Idle
    /\ c \in registered \cap Incoming
    /\ call[c].cnx = "RINGING"
    /\ tone' = FALSE
    /\ waiting' = waiting \ {c}
    /\ ApiGoes(Doing("answer", c))
    /\ UNCHANGED <<call, created, registered, queue, current, audio>>

(* SIPCall::answer(mediaList): the 200 OK goes out on a session that still  *)
(* waits for it.  Unless the INVITE came without an offer, PJSIP           *)
(* negotiates before it goes, in this thread: the media start, or the call *)
(* is hung up.  A missing session or an unusable media list returns        *)
(* silently; PJSIP's refusal throws, which ends answerCall.                *)
Answer ==
    /\ api.op = "answer"
    /\ LET c == api.c
           k == call[c]
       IN  \/ /\ k.inv /\ k.sess = "EARLY" /\ DialogFree(c)
              /\ \E m \in {k.media, k.trans} :
                    Become(c, SetState([k EXCEPT !.sess = "CONNECTING", !.media = m],
                                       "ACTIVE", "CONNECTED"), <<>>)
              /\ ApiGoes(Doing("answered", c)) /\ UNCHANGED registered
           \/ k.inv /\ k.sess = "EARLY" /\ DialogFree(c) /\ HangUp(c, ApiEnds)
           \/ UNCHANGED <<call, queue, registered>> /\ ApiGoes(Doing("answered", c))
           \/ k.inv /\ ApiEnds(k, <<>>) /\ UNCHANGED registered
           \/ /\ k.inv /\ k.sess = "EARLY" /\ DialogFree(c)
              /\ ApiEnds([k EXCEPT !.inv = FALSE], <<>>) /\ UNCHANGED registered
    /\ UNCHANGED <<created, current, waiting, audio, tone>>

AnswerCallReturns ==
    /\ api.op = "answered"
    /\ current' = api.c
    /\ audio' = audio \cup {api.c}
    /\ ApiEnds(call[api.c], <<>>)
    /\ UNCHANGED <<created, registered, waiting, tone>>

HangupCall(c) ==
    /\ api = Idle
    /\ c \in registered
    /\ tone' = FALSE
    /\ waiting' = waiting \ {c}
    /\ audio' = audio \ {c}
    /\ current' = IF current = c THEN NoCall ELSE current
    /\ ApiGoes(Doing("hangup", c))
    /\ UNCHANGED <<call, created, registered, queue>>

HangupCallEnds ==
    /\ api.op = "hangup"
    /\ DialogFree(api.c)
    /\ HangUp(api.c, ApiEnds)
    /\ UNCHANGED <<created, current, waiting, audio, tone>>

(* SIPCall::refuse *)
Refusable(c) == c \in Incoming /\ call[c].cnx # "CONNECTED" /\ call[c].inv

Refused(k, c) ==
    Removed(SetConnection([Terminated(k, c, "BUSY") EXCEPT !.media = FALSE], "DISCONNECTED"))

RefuseCall(c) ==
    /\ api = Idle
    /\ c \in registered
    /\ IF Refusable(c)
          THEN /\ DialogFree(c)
               /\ Become(c, Refused(call[c], c), TerminationPosts(call[c], c, "BUSY"))
               /\ registered' = registered \ {c}
          ELSE UNCHANGED <<call, queue, registered>>
    /\ tone' = FALSE
    /\ ApiGoes(Doing("refused", c))
    /\ UNCHANGED <<created, current, waiting, audio>>

RefuseCallReturns ==
    /\ api.op = "refused"
    /\ waiting' = waiting \ {api.c}
    /\ audio' = audio \ {api.c}
    /\ ApiEnds(call[api.c], <<>>)
    /\ UNCHANGED <<created, registered, current, tone>>

(* Manager::onHoldCall and SIPCall::hold: the connection state is read,     *)
(* the state is set, and 150 ms later the re-INVITE is sent, each under a  *)
(* lock of its own.  Whether the call was the current one is read first.   *)
HoldOps == {"hold", "holdOther", "rehold"}
Holding == [hold |-> "holding", holdOther |-> "holdingOther", rehold |-> "reholding"]

OnHoldCall(c) ==
    /\ api = Idle /\ Room
    /\ c \in registered
    /\ tone' = FALSE
    /\ ApiGoes(IF call[c].cnx = "CONNECTED"
                  THEN Doing(IF current = c THEN "hold" ELSE "holdOther", c) ELSE Idle)
    /\ UNCHANGED <<call, created, registered, queue, current, waiting, audio>>

HoldSetsState ==
    /\ api.op \in HoldOps
    /\ IF Accepted(call[api.c], "HOLD")
          THEN /\ Become(api.c, SetState(call[api.c], "HOLD", call[api.c].cnx), <<>>)
               /\ ApiGoes(Doing(Holding[api.op], api.c))
          ELSE ApiEnds(call[api.c], <<>>)
    /\ UNCHANGED <<created, registered, current, waiting, audio, tone>>

(* SIPSessionReinvite needs the session; with it, it may still fail. *)
CanReinvite(c) == call[c].inv /\ call[c].sess = "CONFIRMED"

HoldReinvites ==
    /\ api.op \in {"holding", "holdingOther", "reholding"}
    /\ CanReinvite(api.c)
    /\ IF api.op = "reholding"
          THEN UNCHANGED <<audio, waiting, current>>
          ELSE /\ audio' = audio \ {api.c}
               /\ waiting' = waiting \ {api.c}
               /\ current' = IF api.op = "holding" THEN NoCall ELSE current
    /\ ApiEnds(call[api.c], <<>>)
    /\ UNCHANGED <<created, registered, tone>>

HoldFails ==
    /\ api.op \in {"holding", "holdingOther", "reholding"}
    /\ ApiEnds(SetState(call[api.c], "ACTIVE", call[api.c].cnx), <<>>)
    /\ UNCHANGED <<created, registered, current, waiting, audio, tone>>

(* Manager::offHoldCall and SIPCall::internalOffHold *)
OffHoldCall(c) ==
    /\ api = Idle /\ Room
    /\ c \in registered
    /\ tone' = FALSE
    /\ Become(c, SetState(call[c], "ACTIVE", call[c].cnx), <<>>)
    /\ ApiGoes(IF Accepted(call[c], "ACTIVE") THEN Doing("resuming", c) ELSE Idle)
    /\ UNCHANGED <<created, registered, current, waiting, audio>>

OffHoldReinvites ==
    /\ api.op = "resuming"
    /\ CanReinvite(api.c)
    /\ current' = api.c
    /\ audio' = audio \cup {api.c}
    /\ ApiEnds(call[api.c], <<>>)
    /\ UNCHANGED <<created, registered, waiting, tone>>

OffHoldFails ==
    /\ api.op = "resuming"
    /\ IF call[api.c].cnx = "CONNECTED"
          THEN ApiGoes(Doing("rehold", api.c)) /\ UNCHANGED <<call, queue>>
          ELSE ApiEnds(call[api.c], <<>>)
    /\ UNCHANGED <<created, registered, current, waiting, audio, tone>>

-----------------------------------------------------------------------------
(* SIP thread: the callbacks of SIPVoIPLink. *)

SipGoes(a) == sip' = a /\ UNCHANGED <<main, api>>

SipEnds(k, posts) ==
    /\ Become(sip.c, Dropped(sip.c, k, {main.c, api.c}), posts)
    /\ SipGoes(Idle)

(* transaction_request_cb.  Past newIncomingCall, several failures return   *)
(* with the call registered, some before the session knows it.             *)
IncomingInvite(c) ==
    /\ sip = Idle /\ Room
    /\ c \in Fresh \cap Incoming
    /\ created' = created \cup {c}
    /\ registered' = registered \cup {c}
    /\ LET k == [NewCall EXCEPT !.trans = TRUE]
           s == [k EXCEPT !.inv = TRUE, !.sess = "EARLY"]
       IN  \/ Become(c, SetConnection(s, "TRYING"), <<>>) /\ SipGoes(Doing("invite", c))
           \/ Become(c, k, <<>>) /\ SipGoes(Idle)
           \/ Become(c, s, <<>>) /\ SipGoes(Idle)
    /\ UNCHANGED managerVars

(* The account is in do-not-disturb: the 603 is sent, PJSIP calls back at   *)
(* once with cause DECLINE, and that callback ignores it for an incoming   *)
(* call.                                                                   *)
IncomingInviteDND(c) ==
    /\ sip = Idle
    /\ c \in Fresh \cap Incoming
    /\ created' = created \cup {c}
    /\ registered' = registered \cup {c}
    /\ call' = [call EXCEPT ![c] = [NewCall EXCEPT !.trans = TRUE, !.inv = TRUE,
                                                    !.sess = "DISCONNECTED"]]
    /\ UNCHANGED <<queue, sip, main, api, current, waiting, audio, tone>>

(* The 180 is sent on inviteSession_, which a client that saw the call may  *)
(* have ended; it may fail besides.                                        *)
IncomingRings ==
    /\ sip.op = "invite"
    /\ \/ /\ call[sip.c].inv /\ call[sip.c].sess = "EARLY"
          /\ Become(sip.c, SetConnection(call[sip.c], "RINGING"), <<>>)
          /\ SipGoes(Doing("incoming", sip.c))
       \/ SipEnds(call[sip.c], <<>>)
    /\ UNCHANGED <<created, registered, current, waiting, audio, tone>>

HasCurrentCall == \E c \in registered : Str(c) = "CURRENT"

(* processIncomingCall: the IncomingCall signal, then a look for a call in  *)
(* conversation,                                                           *)
ProcessIncomingCall ==
    /\ sip.op = "incoming"
    /\ tone' = FALSE
    /\ IF HasCurrentCall
          THEN waiting' = waiting \cup {sip.c} /\ SipEnds(call[sip.c], <<>>)
          ELSE SipGoes(Doing("incomingRing", sip.c)) /\ UNCHANGED <<call, queue, waiting>>
    /\ UNCHANGED <<created, registered, current, audio>>

(* and without one the call rings; `rings` says whether the account, the    *)
(* peer's number and the headers let the ringtone play at once.            *)
RingIncomingCall(rings) ==
    /\ sip.op = "incomingRing"
    /\ SipEnds(SetConnection(call[sip.c], "RINGING"), <<>>)
    /\ tone' = (tone \/ rings)
    /\ waiting' = waiting \cup {sip.c}
    /\ UNCHANGED <<created, registered, current, audio>>

(* The current call is in a conference: the new one is refused. *)
ProcessIncomingCallRefuses ==
    /\ sip.op = "incoming"
    /\ current \in registered /\ current # sip.c
    /\ IF Refusable(sip.c)
          THEN /\ SipEnds(Refused(call[sip.c], sip.c), TerminationPosts(call[sip.c], sip.c, "BUSY"))
               /\ registered' = registered \ {sip.c}
          ELSE SipEnds(call[sip.c], <<>>) /\ UNCHANGED registered
    /\ tone' = FALSE
    /\ UNCHANGED <<created, current, waiting, audio>>

(* What PJSIP may report next on the session of c (external): the states   *)
(* in which it reports e, and the state that follows.                      *)
ReportedIn(c, e) ==
    CASE e \in {"ringing", "early", "busy"} -> IF c \in Incoming THEN {} ELSE {"EARLY"}
      [] e = "confirmed" -> IF c \in Incoming THEN {"CONNECTING"} ELSE {"EARLY"}
      [] e \in {"media", "mediaFail"} ->
            IF c \in Incoming THEN {"CONNECTING", "CONFIRMED"} ELSE {"EARLY", "CONFIRMED"}
      [] OTHER -> {"EARLY", "CONNECTING", "CONFIRMED"}

SessionAfter(k, e) ==
    CASE e = "confirmed" -> "CONFIRMED"
      [] e \in {"busy", "closed", "failure"} -> "DISCONNECTED"
      [] OTHER -> k.sess

(* A callback starts: getCallFromInvite finds the call through mod_data. *)
SessionEvent(c, e) ==
    /\ sip = Idle /\ Room
    /\ call[c].sess \in ReportedIn(c, e)
    /\ call' = [call EXCEPT ![c].sess = SessionAfter(call[c], e)]
    /\ SipGoes(IF call[c].inv THEN Doing(e, c) ELSE Idle)
    /\ UNCHANGED <<created, registered, queue, current, waiting, audio, tone>>

(* REQUEST_TIMEOUT or SERVICE_UNAVAILABLE with a service route: the number *)
(* is dialled again as a new call before the old one fails.                *)
RetryOnRoute(c, d, t) ==
    /\ sip = Idle /\ Room
    /\ call[c].inv /\ c \notin Incoming /\ d # c
    /\ call[c].sess \in ReportedIn(c, "failure")
    /\ d \in Fresh \ Incoming
    /\ created' = created \cup {d}
    /\ registered' = registered \cup {d}
    /\ \/ /\ call' = [call EXCEPT ![c].sess = "DISCONNECTED", ![d] = [NewCall EXCEPT !.trans = t]]
          /\ queue' = Append(queue, Doing("start", d))
       \/ /\ call' = [call EXCEPT ![c].sess = "DISCONNECTED",
                       ![d] = SetState([NewCall EXCEPT !.trans = t], "MERROR", "DISCONNECTED")]
          /\ queue' = queue \o <<Doing("audio", d), Doing("failure", d)>>
    /\ SipGoes(Doing("failure", c))
    /\ UNCHANGED managerVars

(* The transport's state listener; it stops the media and fails the call. *)
TransportLost(c) ==
    /\ sip = Idle /\ Room
    /\ c \in registered /\ call[c].trans
    /\ call[c].cnx # "DISCONNECTED"
    /\ call' = [call EXCEPT ![c].media = FALSE]
    /\ SipGoes(Doing("failure", c))
    /\ UNCHANGED <<created, registered, queue, current, waiting, audio, tone>>

OnPeerRinging ==
    /\ sip.op = "ringing"
    /\ SipEnds(SetConnection(call[sip.c], "RINGING"), <<>>)
    /\ UNCHANGED <<created, registered, current, waiting, audio, tone>>

(* Seeded bug: onAnswered sets the state in the callback. *)
OnAnsweredAtOnce ==
    /\ sip.op \in {"early", "confirmed"}
    /\ SipEnds(IF sip.op = "early" THEN call[sip.c] ELSE SetState(call[sip.c], "ACTIVE", "CONNECTED"),
               <<Doing(IF sip.op = "early" THEN "early" ELSE "answered", sip.c)>>)
    /\ UNCHANGED <<created, registered, current, waiting, audio, tone>>

(* onEarlyAnswered, onAnswered: only the closure is posted. *)
OnAnswered ==
    /\ sip.op \in {"early", "confirmed"}
    /\ SipEnds(call[sip.c], <<Doing(IF sip.op = "early" THEN "early" ELSE "answered", sip.c)>>)
    /\ UNCHANGED <<created, registered, current, waiting, audio, tone>>

(* Seeded bug: the media start without a look at the transport. *)
OnMediaNegotiationStarts ==
    /\ sip.op = "media"
    /\ SipEnds([call[sip.c] EXCEPT !.media = TRUE], <<>>)
    /\ UNCHANGED <<created, registered, current, waiting, audio, tone>>

(* sdp_media_update_cb and onMediaNegotiationComplete: the media restart,   *)
(* and startAllMedia needs the transport.                                  *)
OnMediaNegotiationComplete ==
    /\ sip.op = "media"
    /\ LET k == call[sip.c] IN
        SipEnds([k EXCEPT !.media = IF k.inv /\ k.sess # "DISCONNECTED" THEN k.trans ELSE @], <<>>)
    /\ UNCHANGED <<created, registered, current, waiting, audio, tone>>

(* The negotiation failed or left no usable media. *)
MediaNegotiationFails ==
    /\ sip.op = "mediaFail"
    /\ HangUp(sip.c, SipEnds)
    /\ UNCHANGED <<created, current, waiting, audio, tone>>

OnClosed ==
    /\ sip.op = "closed"
    /\ SipEnds(call[sip.c], IF call[sip.c].hup THEN <<>> ELSE <<Doing("closed", sip.c)>>)
    /\ UNCHANGED <<created, registered, current, waiting, audio, tone>>

(* onBusyHere and onFailure: setState without the lock, then the closure.   *)
(* onBusyHere posts it whatever setState answered.                         *)
BusyState(c) == IF c \in Incoming THEN "BUSY" ELSE "PEER_BUSY"
EndState(c, op) == IF op \in {"busy", "busyCommit"} THEN BusyState(c) ELSE "MERROR"

OnEndTests ==
    /\ sip.op \in {"busy", "failure"}
    /\ IF Accepted(call[sip.c], EndState(sip.c, sip.op))
          THEN /\ SipGoes(Doing(IF sip.op = "busy" THEN "busyCommit" ELSE "failureCommit", sip.c))
               /\ UNCHANGED <<call, queue>>
          ELSE SipEnds(call[sip.c], IF sip.op = "busy" THEN <<Doing("busy", sip.c)>> ELSE <<>>)
    /\ UNCHANGED <<created, registered, current, waiting, audio, tone>>

OnEndCommits ==
    /\ sip.op \in {"busyCommit", "failureCommit"}
    /\ SipEnds(Assign(call[sip.c], EndState(sip.c, sip.op), "DISCONNECTED"),
               <<Doing(IF sip.op = "busyCommit" THEN "busy" ELSE "failure", sip.c)>>)
    /\ UNCHANGED <<created, registered, current, waiting, audio, tone>>

-----------------------------------------------------------------------------
(* Main thread: the posted closures. *)

MainGoes(a) == main' = a /\ UNCHANGED <<sip, api>>

MainEnds(k, posts) ==
    /\ Become(main.c, Dropped(main.c, k, {sip.c, api.c}), posts)
    /\ MainGoes(Idle)

(* The next closure locks its weak pointer, or finds the call gone. *)
RunClosure ==
    /\ main = Idle /\ queue # <<>>
    /\ queue' = Tail(queue)
    /\ MainGoes(IF Alive(Head(queue).c) THEN Head(queue) ELSE Idle)
    /\ UNCHANGED <<call, created, registered, current, waiting, audio, tone>>

(* onFailure on the main thread, as when SIPStartCall fails *)
StartFails(k) ==
    MainEnds(SetState(k, "MERROR", "DISCONNECTED"),
             IF Accepted(k, "MERROR") THEN <<Doing("failure", main.c)>> ELSE <<>>)

(* SIPStartCall, first the transport is looked up, *)
StartCall ==
    /\ main.op = "start"
    /\ IF call[main.c].trans
          THEN MainGoes(Doing("startSend", main.c)) /\ UNCHANGED <<call, queue>>
          ELSE StartFails(call[main.c])
    /\ UNCHANGED <<created, registered, current, waiting, audio, tone>>

(* then the session is made and the INVITE sent, *)
SendInvite ==
    /\ main.op = "startSend"
    /\ \/ /\ Become(main.c, [call[main.c] EXCEPT !.inv = TRUE, !.sess = "EARLY"], <<>>)
          /\ MainGoes(Doing("startState", main.c))
       \/ StartFails(call[main.c])
       \/ StartFails([call[main.c] EXCEPT !.inv = TRUE])
    /\ UNCHANGED <<created, registered, current, waiting, audio, tone>>

(* and the state is set, unlocked. *)
StartTestsState ==
    /\ main.op = "startState"
    /\ IF Accepted(call[main.c], "ACTIVE")
          THEN MainGoes(Doing("startCommit", main.c)) /\ UNCHANGED <<call, queue>>
          ELSE MainEnds(call[main.c], <<>>)
    /\ UNCHANGED <<created, registered, current, waiting, audio, tone>>

StartSetsState ==
    /\ main.op = "startCommit"
    /\ MainEnds(Assign(call[main.c], "ACTIVE", "PROGRESSING"), <<>>)
    /\ UNCHANGED <<created, registered, current, waiting, audio, tone>>

(* Manager::callBusy, and the same lines of callFailure and peerHungupCall *)
CallEnded(c) ==
    /\ current' = IF current = c THEN NoCall ELSE current
    /\ waiting' = waiting \ {c}
    /\ tone' = (tone /\ waiting \ {c} # {})

CheckAudio ==
    /\ main.op = "audio"
    /\ IF Str(main.c) = "BUSY" THEN CallEnded(main.c)
       ELSE tone' = (tone \/ Str(main.c) = "RINGING") /\ UNCHANGED <<current, waiting>>
    /\ MainEnds(call[main.c], <<>>)
    /\ UNCHANGED <<created, registered, audio>>

(* Seeded bug: the ringback goes on when the peer answers. *)
PeerAnsweredCallRings ==
    /\ main.op \in {"early", "answeredAudio"}
    /\ audio' = IF main.op = "early" /\ call[main.c].cnx = "CONNECTED" THEN audio
                ELSE audio \cup {main.c}
    /\ MainEnds(call[main.c], <<>>)
    /\ UNCHANGED <<created, registered, current, waiting, tone>>

(* Manager::peerAnsweredCall *)
PeerAnsweredCall ==
    /\ main.op \in {"early", "answeredAudio"}
    /\ IF main.op = "early" /\ call[main.c].cnx = "CONNECTED"
          THEN UNCHANGED <<tone, audio>>
          ELSE tone' = FALSE /\ audio' = audio \cup {main.c}
    /\ MainEnds(call[main.c], <<>>)
    /\ UNCHANGED <<created, registered, current, waiting>>

AnsweredTestsState ==
    /\ main.op = "answered"
    /\ IF call[main.c].cnx = "CONNECTED"
          THEN MainEnds(call[main.c], <<>>)
          ELSE /\ MainGoes(Doing(IF Accepted(call[main.c], "ACTIVE") THEN "answeredCommit"
                                 ELSE "answeredAudio", main.c))
               /\ UNCHANGED <<call, queue>>
    /\ UNCHANGED <<created, registered, current, waiting, audio, tone>>

AnsweredSetsState ==
    /\ main.op = "answeredCommit"
    /\ Become(main.c, Assign(call[main.c], "ACTIVE", "CONNECTED"), <<>>)
    /\ MainGoes(Doing("answeredAudio", main.c))
    /\ UNCHANGED <<created, registered, current, waiting, audio, tone>>

(* Seeded bug: the end of a call that was never answered is ignored. *)
ClosedTestsUnanswered ==
    /\ main.op = "closed"
    /\ IF call[main.c].hup \/ call[main.c].cnx # "CONNECTED"
          THEN MainEnds(call[main.c], <<>>)
          ELSE MainGoes(Doing("closedTeardown", main.c)) /\ UNCHANGED <<call, queue>>
    /\ UNCHANGED <<created, registered, current, waiting, audio, tone>>

(* Seeded bug: the early return tests the wrong connection state. *)
ClosedTestsConnected ==
    /\ main.op = "closed"
    /\ IF call[main.c].hup \/ call[main.c].cnx = "CONNECTED"
          THEN MainEnds(call[main.c], <<>>)
          ELSE MainGoes(Doing("closedTeardown", main.c)) /\ UNCHANGED <<call, queue>>
    /\ UNCHANGED <<created, registered, current, waiting, audio, tone>>

ClosedTests ==
    /\ main.op = "closed"
    /\ IF call[main.c].hup \/ call[main.c].cnx = "DISCONNECTED"
          THEN MainEnds(call[main.c], <<>>)
          ELSE MainGoes(Doing("closedTeardown", main.c)) /\ UNCHANGED <<call, queue>>
    /\ UNCHANGED <<created, registered, current, waiting, audio, tone>>

(* Manager::peerHungupCall; stopTone also when it was the current call *)
PeerHungupCall ==
    /\ main.op = "closedTeardown"
    /\ DialogFree(main.c)
    /\ LET k == call[main.c] IN
        Become(main.c, SetConnection([Terminated(k, main.c, "MERROR") EXCEPT !.media = FALSE],
                                     "DISCONNECTED"), TerminationPosts(k, main.c, "MERROR"))
    /\ current' = IF current = main.c THEN NoCall ELSE current
    /\ waiting' = waiting \ {main.c}
    /\ tone' = (tone /\ current # main.c /\ waiting \ {main.c} # {})
    /\ audio' = audio \ {main.c}
    /\ MainGoes(Doing("remove", main.c))
    /\ UNCHANGED <<created, registered>>

(* Manager::callFailure and callBusy; only the first unbinds the audio *)
CallFails ==
    /\ main.op \in {"failure", "busy"}
    /\ CallEnded(main.c)
    /\ audio' = IF main.op = "failure" THEN audio \ {main.c} ELSE audio
    /\ MainGoes(Doing("remove", main.c))
    /\ UNCHANGED <<call, created, registered, queue>>

RemoveCall ==
    /\ main.op = "remove"
    /\ MainEnds(Removed(call[main.c]), <<>>)
    /\ registered' = registered \ {main.c}
    /\ UNCHANGED <<created, current, waiting, audio, tone>>
-----------------------------------------------------------------------------
SipStep ==
    \/ IncomingRings \/ ProcessIncomingCall \/ ProcessIncomingCallRefuses
    \/ \E rings \in BOOLEAN : RingIncomingCall(rings)
    \/ OnPeerRinging \/ OnAnswered \/ OnMediaNegotiationComplete \/ MediaNegotiationFails
    \/ OnClosed \/ OnEndTests \/ OnEndCommits

MainStep ==
    \/ RunClosure \/ StartCall \/ SendInvite \/ StartTestsState \/ StartSetsState
    \/ CheckAudio \/ PeerAnsweredCall \/ AnsweredTestsState \/ AnsweredSetsState
    \/ ClosedTests \/ PeerHungupCall \/ CallFails \/ RemoveCall

ApiStep ==
    \/ OutgoingCallReturns \/ Answer \/ AnswerCallReturns \/ HangupCallEnds
    \/ RefuseCallReturns \/ HoldSetsState \/ HoldReinvites \/ HoldFails
    \/ OffHoldReinvites \/ OffHoldFails

(* What the network and the clients begin *)
NetworkBegins(c) ==
    \/ IncomingInvite(c) \/ IncomingInviteDND(c)
    \/ "transport" \in Events /\ TransportLost(c)
    \/ \E e \in Events \cap SessionEvents : SessionEvent(c, e)
    \/ "failure" \in Events /\ \E d \in Calls, t \in BOOLEAN : RetryOnRoute(c, d, t)

ClientBegins(c) ==
    \/ "dial" \in Requests /\ \E t \in BOOLEAN : OutgoingCall(c, t) \/ OutgoingCallNoOffer(c, t)
    \/ "answer" \in Requests /\ AnswerCall(c)
    \/ "hangup" \in Requests /\ HangupCall(c)
    \/ "refuse" \in Requests /\ RefuseCall(c)
    \/ "hold" \in Requests /\ (OnHoldCall(c) \/ OffHoldCall(c))

Begin == \E c \in Calls : NetworkBegins(c) \/ ClientBegins(c)

Next == SipStep \/ MainStep \/ ApiStep \/ Begin

Spec == Init /\ [][Next]_vars

(* Each thread goes on with what it began; nothing forces an event. *)
FairSpec == Spec /\ WF_vars(SipStep) /\ WF_vars(MainStep) /\ WF_vars(ApiStep)

-----------------------------------------------------------------------------
(* Types of the variables. *)
TypeOK ==
    /\ call \in [Calls -> Call]
    /\ registered \subseteq created /\ created \subseteq Calls
    /\ queue \in Seq([op : Closures, c : Calls])
    /\ sip \in {Idle} \cup [op : SipOps, c : Calls]
    /\ main \in {Idle} \cup [op : MainOps, c : Calls]
    /\ api \in {Idle} \cup [op : ApiOps, c : Calls]
    /\ current \in Calls \cup {NoCall} /\ waiting \subseteq Calls /\ audio \subseteq Calls
    /\ tone \in BOOLEAN

(* A call that is out of the factory holds no transport.  SIPStartCall      *)
(* relies on it: it is the one thing that stops a start task that was      *)
(* still queued when the client hung up.                                   *)
TransportMeansRegistered == \A c \in Calls : call[c].trans => c \in registered

(* The session's mod_data is a raw pointer that getCallFromInvite turns     *)
(* into a shared one: while it is set, the call exists.                    *)
SessionPointsToLiveCall == \A c \in Calls : call[c].inv => Alive(c)

(* RTP never runs on a call this side hung up, even when the INVITE went    *)
(* out after the hangup and the peer's answer is then negotiated.          *)
NoMediaAfterHangup == \A c \in Calls : call[c].hup => ~ call[c].media

Quiet == sip = Idle /\ main = Idle /\ api = Idle /\ queue = <<>>

(* While an outgoing call is the only one there has been, its ringback is   *)
(* off once it is answered: peerAnsweredCall's stopTone comes after any    *)
(* ringback of checkAudio.                                                 *)
AnsweredIsSilent ==
    \A c \in Calls \ Incoming : Quiet /\ created = {c} /\ Str(c) = "CURRENT" => ~ tone

(* No phantom: when nothing is left to run, a call shown as in conversation *)
(* or on hold has a live session, though failures, hangups and    *)
(* answers set the state from three threads and one of them unlocked.      *)
NoPhantomCall ==
    Quiet => \A c \in registered :
        Str(c) \in {"CURRENT", "HOLD"} =>
            call[c].inv /\ call[c].sess # "DISCONNECTED"

(* Once answered, an outgoing call never looks unanswered again, though     *)
(* SIPStartCall, onPeerRinging and onAnswered set its state from two       *)
(* threads.                                                                *)
NeverRingsAgain ==
    [][\A c \in Calls \ Incoming :
        Str(c) \in {"CURRENT", "HOLD"} => Str(c)' \notin {"INACTIVE", "CONNECTING", "RINGING"}]_vars

(* A call that ended is not left behind, whichever thread was changing it:  *)
(* one whose session the peer ended leaves the factory, and one in a failed *)
(* state is told OVER as well.                                             *)
EndedIsRemoved ==
    \A c \in Calls :
        /\ (/\ c \in registered /\ call[c].inv
            /\ call[c].sess = "DISCONNECTED" /\ call[c].cnx # "DISCONNECTED") ~> c \notin registered
        /\ call[c].st \in {"MERROR", "BUSY", "PEER_BUSY"} ~> call[c].over /\ c \notin registered

-----------------------------------------------------------------------------
(* What the documentation says and the code does not keep.                 *)

(* "OVER: the call is ended, all streams are closed" (the ABI document): a  *)
(* call that was told OVER, and that no thread still works on, has no RTP   *)
(* session and no place in the audio mix.  callBusy does not unbind what   *)
(* early media bound.                                                      *)
OverStreamsClosed ==
    Quiet => \A c \in Calls : call[c].over => ~ call[c].media /\ c \notin audio

(* The same line: its session has ended.  SIPStartCall sends the INVITE     *)
(* without the lock, after a hangup found no session to end.               *)
OverSessionEnded ==
    \A c \in Calls : call[c].over => call[c].sess \in {"NULL", "DISCONNECTED"}
=============================================================================
