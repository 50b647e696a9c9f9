----------------------------- MODULE DialogRefresh -----------------------------
(***************************************************************************)
(* What becomes of one call when the transport of its account is replaced: *)
(* the connectivity re-INVITE that refreshes its dialog, and the timers    *)
(* that repeat it or give the call up.  src/src/sip/sipcall.cpp (members   *)
(* connectivity...), reinviteActiveCalls and the two schedulers of         *)
(* src/src/sip/sipaccount.cpp, and the PJSIP callbacks of                  *)
(* src/src/sip/sipvoiplink.cpp.                                            *)
(*                                                                         *)
(* Threads: sip (answers to INVITEs, reinviteActiveCalls) and main (timers *)
(* and closures); a client thread answers and hangs up.  What runs under   *)
(* callMutex_ is one step; the retry count and the flags are read and      *)
(* written outside it, so each test of them is a step apart from what is   *)
(* done about it.  Timers never get cancelled: only the generation tells a *)
(* watchdog that the refresh it guarded is over.                           *)
(*                                                                         *)
(* That the account eventually calls reinviteActiveCalls is the subject of *)
(* module TransportRecovery (OwedIsArmed); here it is the field owed.      *)
(***************************************************************************)
EXTENDS Naturals, FiniteSets

CONSTANTS
    MaxRetries,  \* MAX_CONNECTIVITY_REINVITE_RETRIES
    MaxChanges,  \* bound: connectivity changes, and re-INVITEs in the middle of one
    MaxOthers    \* bound: re-INVITEs for other reasons, by either side

ASSUME RefreshBounds ==
    /\ MaxRetries \in Nat /\ MaxChanges \in Nat /\ MaxOthers \in Nat

VARIABLES
    call,      \* the members of the SIPCall
    pc,        \* where each thread is
    account,   \* what the call sees of its account
    cut,       \* the peer does not know this side's current address
    redialled, \* the application states in which the call was found to be in setup
    changes, others

vars == <<call, pc, account, cut, redialled, changes, others>>

Threads == {"sip", "main"}

(* Watchdogs by how their generation compares with                         *)
(* connectivityDialogRefreshGeneration_.                                   *)
Watchdogs == SUBSET {"current", "old"}

Call ==
    [outgoing : BOOLEAN,    \* the call was placed by this side
     app : {"setup", "connected", "over"},  \* state and connection state; over: OVER or DISCONNECTED
     session : {"early", "confirmed", "ended", "none"}, \* inviteSession_ and its state
     tsx : {"none", "own", "past", "other"}, \* invite_tsx: a connectivity re-INVITE, one sent
                                             \* before the latest change, or another INVITE
     lingering : BOOLEAN,  \* a refused client INVITE transaction has yet to reach TERMINATED
     rebind : BOOLEAN,     \* connectivityTransportRebindPending_
     exposed : BOOLEAN,    \* ... was cleared by an answer while a recovery was being prepared
     deferred : BOOLEAN,   \* pendingConnectivityReinvite_
     pending : BOOLEAN,    \* connectivityDialogRefreshPending_
     awaiting : BOOLEAN,   \* connectivityDialogRefreshAwaitingResponse_
     count : Nat,          \* connectivityReinviteRetryCount_
     listener : BOOLEAN,   \* the state listener of reinviteActiveCalls is registered
     dogs : Watchdogs,     \* the watchdogs scheduled
     followups : Nat, retries : Nat, \* timers of the two schedulers
     answered : BOOLEAN,   \* the closure of onAnswered waits for the main thread,
     closing : BOOLEAN]    \* ... that of onClosed, onBusyHere or onFailure

Account ==
    [transport : {"new", "old", "none"}, \* transport_; old: about to be replaced
     preparing : BOOLEAN, \* a client thread is in prepareConnectivityRecovery
     owed : BOOLEAN]      \* reinviteActiveCalls has yet to be called

Places == {"idle", "reach", "bind", "accepted", "settle", "refused", "fail",
           "lateRefusal", "lateFail", "followup", "retry", "followupTimer", "retryTimer", "force", "hangup"}

Init ==
    /\ \E outgoing \in BOOLEAN :
        call = [outgoing |-> outgoing, app |-> "setup", session |-> "early", tsx |-> "other",
                lingering |-> FALSE, rebind |-> FALSE, exposed |-> FALSE, deferred |-> FALSE,
                pending |-> FALSE, awaiting |-> FALSE, count |-> 0, listener |-> FALSE, dogs |-> {},
                followups |-> 0, retries |-> 0, answered |-> FALSE, closing |-> FALSE]
    /\ pc = [t \in Threads |-> "idle"]
    /\ account = [transport |-> "new", preparing |-> FALSE, owed |-> FALSE]
    /\ cut = FALSE
    /\ redialled = {}
    /\ changes = 0 /\ others = 0

Goes(t, p) == pc' = [pc EXCEPT ![t] = p]

----------------------------------------------------------------------------
(* Operations on the call that take effect at once.                        *)

(* The generation advances: every watchdog scheduled so far is now old. *)
Aged(dogs) == IF dogs = {} THEN {} ELSE {"old"}

Clear(k) == [k EXCEPT !.pending = FALSE, !.awaiting = FALSE, !.dogs = Aged(@)]

(* Seeded bug: the watchdog is given the generation before the increment. *)
BeginOldGeneration(k, awaitsResponse) ==
    IF k.app = "over" THEN k
    ELSE [k EXCEPT !.pending = TRUE, !.awaiting = awaitsResponse, !.dogs = {"old"}]

Begin(k, awaitsResponse) ==
    IF k.app = "over" THEN k
    ELSE [k EXCEPT !.pending = TRUE, !.awaiting = awaitsResponse,
                   !.dogs = Aged(@) \cup {"current"}]

Reset(k) == [Clear(k) EXCEPT !.count = 0, !.deferred = FALSE]

(* What is still scheduled for a removed call finds it over and returns:   *)
(* it is left out.                                                         *)
Removed(k) ==
    [k EXCEPT !.app = "over", !.session = "none", !.tsx = "none", !.lingering = FALSE,
              !.pending = FALSE, !.awaiting = FALSE, !.deferred = FALSE, !.rebind = FALSE,
              !.exposed = FALSE, !.listener = FALSE, !.answered = FALSE, !.closing = FALSE,
              !.dogs = {}, !.followups = 0, !.retries = 0]

(* The outcomes of reinviteOnConnectivityChange.  Whether the SDP can be   *)
(* refreshed, and whether PJSIP sends the request, depends on the network. *)
Outcome(k, result) == [call |-> k, result |-> result]
Deferred(k) == Outcome(Begin([k EXCEPT !.deferred = TRUE], FALSE), "pending")

ReinviteOnConnectivityChange(k) ==
    IF k.session = "none" THEN {Outcome(k, "error")}
    ELSE IF k.session # "confirmed" \/ k.tsx # "none" THEN {Deferred(k)}
    ELSE {Deferred(k), Outcome(k, "error"),
          Outcome(Begin([k EXCEPT !.deferred = FALSE, !.tsx = "own"], TRUE), "sent")}

(* tryDeferredConnectivityReinvite: what came of the attempt is not looked at. *)
TryDeferred(k) ==
    IF k.deferred /\ k.app = "connected" /\ k.session = "confirmed" /\ k.tsx = "none"
       THEN {o.call : o \in ReinviteOnConnectivityChange([k EXCEPT !.deferred = FALSE])}
       ELSE {k}

----------------------------------------------------------------------------
(* The account: a connectivity change, and the re-INVITEs it leads to.     *)

(* The dialog is cut off: what has been sent so far does not refresh it. *)
CutOff(k) == [k EXCEPT !.tsx = IF @ = "own" THEN "past" ELSE @]

(* Counts what would otherwise go on without end. *)
CountedUnless(free) ==
    IF free THEN changes' = changes ELSE changes < MaxChanges /\ changes' = changes + 1

Changed(free) ==
    /\ call.session # "none"
    /\ CountedUnless(free)
    /\ cut' = TRUE

(* prepareConnectivityRecovery marks the calls first ... *)
PrepareConnectivityRecovery ==
    /\ ~account.preparing
    /\ Changed(FALSE)
    /\ call' = [CutOff(call) EXCEPT !.rebind = TRUE, !.exposed = FALSE]
    /\ account' = [account EXCEPT !.preparing = TRUE, !.owed = TRUE,
                                  !.transport = IF @ = "new" THEN "old" ELSE @]
    /\ UNCHANGED <<pc, redialled, others>>

(* ... and takes the transport from the account after that. *)
PrepareTransportReset ==
    /\ account.preparing
    /\ call' = CutOff(call) /\ cut' = TRUE
    /\ account' = [account EXCEPT !.preparing = FALSE, !.transport = "none"]
    /\ UNCHANGED <<pc, redialled, changes, others>>

(* recoverTransport got a transport; a recovery that was not prepared cuts *)
(* the call off only now.                                                  *)
RebindCalls ==
    /\ Changed(account.owed)
    /\ call' = [CutOff(call) EXCEPT !.rebind = TRUE, !.exposed = FALSE]
    /\ account' = [account EXCEPT !.transport = "new", !.owed = TRUE]
    /\ UNCHANGED <<pc, redialled, others>>

(* recoverTransport found no transport. *)
RecoverFails ==
    /\ Changed(account.owed)
    /\ call' = [CutOff(call) EXCEPT !.rebind = TRUE, !.exposed = FALSE, !.deferred = TRUE]
    /\ account' = [account EXCEPT !.transport = "none", !.owed = TRUE]
    /\ UNCHANGED <<pc, redialled, others>>

(* reinviteActiveCalls, as far as the reset of this call's retry state.    *)
(* The account may have got its transport by registering; a change that is *)
(* being prepared will have it called once more.                           *)
ReinviteActiveCalls ==
    /\ pc["sip"] = "idle" /\ account.owed
    /\ call.session # "none"
    /\ CountedUnless(~account.preparing)
    /\ \E ready \in BOOLEAN :
        IF ready
           THEN /\ call' = Reset(IF account.transport = "none" THEN CutOff(call) ELSE call)
                /\ cut' = (cut \/ account.transport = "none")
                /\ account' = [account EXCEPT !.owed = account.preparing,
                                              !.transport = IF @ = "none" THEN "new" ELSE @]
                /\ Goes("sip", "reach")
           ELSE /\ call' = [call EXCEPT !.rebind = TRUE, !.exposed = FALSE, !.deferred = TRUE]
                /\ UNCHANGED <<account, pc, cut>>
    /\ UNCHANGED <<redialled, others>>

(* ... then what it does depends on the state the call is in: a call that  *)
(* is not CONNECTED and was placed from here is taken to be in setup, and  *)
(* is dialled again; an incoming one waits to be answered.                 *)
ReachCall ==
    /\ pc["sip"] = "reach"
    /\ IF call.app = "connected"
          THEN Goes("sip", "bind") /\ UNCHANGED <<call, redialled>>
          ELSE /\ Goes("sip", "idle")
               /\ IF call.outgoing
                     THEN call' = Removed(call) /\ redialled' = redialled \cup {call.app}
                     ELSE /\ call' = [call EXCEPT !.deferred = TRUE, !.rebind = FALSE,
                                                  !.listener = call.app = "setup"]
                          /\ UNCHANGED redialled
    /\ UNCHANGED <<account, cut, changes, others>>

After(result, onPending) ==
    CASE result = "sent" -> "idle" [] result = "pending" -> onPending [] result = "error" -> "retry"

(* Seeded bug: the rebinding is taken to be over when the transport is set. *)
BindCallAndUnmark ==
    /\ pc["sip"] = "bind"
    /\ \E o \in ReinviteOnConnectivityChange([call EXCEPT !.rebind = FALSE]) :
        call' = o.call /\ Goes("sip", After(o.result, "followup"))
    /\ UNCHANGED <<account, cut, redialled, changes, others>>

(* setSipTransport with keepRebindPending, and the re-INVITE *)
BindCall ==
    /\ pc["sip"] = "bind"
    /\ \E o \in ReinviteOnConnectivityChange([call EXCEPT !.rebind = TRUE]) :
        call' = o.call /\ Goes("sip", After(o.result, "followup"))
    /\ UNCHANGED <<account, cut, redialled, changes, others>>

----------------------------------------------------------------------------
(* The schedulers of sipaccount.cpp and the end they put to the call; t is *)
(* the thread that runs them.                                              *)

ScheduleFollowup(t) ==
    /\ pc[t] = "followup"
    /\ Goes(t, IF call.count >= MaxRetries THEN "force" ELSE "followupTimer")
    /\ UNCHANGED <<call, account, cut, redialled, changes, others>>

FollowupTimer(t) ==
    /\ pc[t] = "followupTimer"
    /\ call' = [call EXCEPT !.count = @ + 1, !.followups = @ + 1]
    /\ Goes(t, "idle")
    /\ UNCHANGED <<account, cut, redialled, changes, others>>

ScheduleRetry(t) ==
    /\ pc[t] = "retry"
    /\ Goes(t, IF call.count >= MaxRetries THEN "force" ELSE "retryTimer")
    /\ UNCHANGED <<call, account, cut, redialled, changes, others>>

(* Seeded bug: the retry is scheduled but not counted. *)
RetryTimerUncounted(t) ==
    /\ pc[t] = "retryTimer"
    /\ call' = [call EXCEPT !.retries = @ + 1]
    /\ Goes(t, "idle")
    /\ UNCHANGED <<account, cut, redialled, changes, others>>

RetryTimer(t) ==
    /\ pc[t] = "retryTimer"
    /\ call' = [call EXCEPT !.count = @ + 1, !.retries = @ + 1]
    /\ Goes(t, "idle")
    /\ UNCHANGED <<account, cut, redialled, changes, others>>

(* forceConnectivityDialogRefreshFailure *)
ForceFailure(t) ==
    /\ pc[t] = "force"
    /\ call' = [Clear(call) EXCEPT !.deferred = FALSE]
    /\ Goes(t, IF call.app = "over" THEN "idle" ELSE "hangup")
    /\ UNCHANGED <<account, cut, redialled, changes, others>>

ForceHangup(t) ==
    /\ pc[t] = "hangup"
    /\ call' = Removed(call)
    /\ Goes(t, "idle")
    /\ UNCHANGED <<account, cut, redialled, changes, others>>

----------------------------------------------------------------------------
(* The main thread.                                                        *)

Followup ==
    /\ pc["main"] = "idle" /\ call.followups > 0
    /\ LET k == [call EXCEPT !.followups = @ - 1] IN
        IF call.app = "over" \/ ~call.deferred
           THEN call' = k /\ UNCHANGED pc
           ELSE \E o \in ReinviteOnConnectivityChange(k) :
                    call' = o.call /\ Goes("main", After(o.result, "followup"))
    /\ UNCHANGED <<account, cut, redialled, changes, others>>

Retry ==
    /\ pc["main"] = "idle" /\ call.retries > 0
    /\ LET k == [call EXCEPT !.retries = @ - 1] IN
        IF call.app = "over"
           THEN call' = k /\ UNCHANGED pc
           ELSE \E o \in ReinviteOnConnectivityChange(k) :
                    call' = o.call /\ Goes("main", After(o.result, "idle"))
    /\ UNCHANGED <<account, cut, redialled, changes, others>>

Watchdog(g) ==
    /\ pc["main"] = "idle" /\ g \in call.dogs
    /\ call' = [call EXCEPT !.dogs = @ \ {g}]
    /\ Goes("main", IF call.pending /\ g = "current" /\ call.app # "over" THEN "force" ELSE "idle")
    /\ UNCHANGED <<account, cut, redialled, changes, others>>

(* the closure of onAnswered *)
Answered ==
    /\ pc["main"] = "idle" /\ call.answered
    /\ LET k == [call EXCEPT !.answered = FALSE,
                             !.app = IF @ = "setup" THEN "connected" ELSE @] IN
        call' \in TryDeferred(k)
    /\ UNCHANGED <<pc, account, cut, redialled, changes, others>>

(* the closure of onClosed, onBusyHere or onFailure *)
CloseCall ==
    /\ pc["main"] = "idle" /\ call.closing
    /\ call' = Removed(call)
    /\ UNCHANGED <<pc, account, cut, redialled, changes, others>>

----------------------------------------------------------------------------
(* The SIP thread: what PJSIP reports.                                     *)

(* The dialog is confirmed: the initial INVITE has been answered and acknowledged. *)
Confirmed ==
    /\ pc["sip"] = "idle"
    /\ call.session = "early" /\ (call.outgoing \/ call.app = "connected")
    /\ call' = [call EXCEPT !.session = "confirmed", !.tsx = "none", !.answered = TRUE]
    /\ UNCHANGED <<pc, account, cut, redialled, changes, others>>

(* A 2xx to a connectivity re-INVITE.  PJSIP calls back twice, for the     *)
(* media and for the transaction, and drops the transaction afterwards: the *)
(* media callback finds it in the session and sends nothing that was       *)
(* deferred.                                                               *)
ReinviteAccepted ==
    /\ pc["sip"] = "idle" /\ call.tsx \in {"own", "past"}
    /\ cut' = (cut /\ call.tsx # "own")
    /\ Goes("sip", "accepted")
    /\ UNCHANGED <<call, account, redialled, changes, others>>

(* The media of the answer cannot be agreed on, or applying them throws. *)
ReinviteUnacceptable ==
    /\ pc["sip"] = "idle" /\ call.tsx \in {"own", "past", "other"} /\ call.session = "confirmed"
    /\ call' = Removed(call)
    /\ UNCHANGED <<pc, account, cut, redialled, changes, others>>

ReinviteRefused ==
    /\ pc["sip"] = "idle" /\ call.tsx \in {"own", "past"}
    /\ Goes("sip", "refused")
    /\ UNCHANGED <<call, account, cut, redialled, changes, others>>

(* A refused transaction reaches TERMINATED some time after COMPLETED and  *)
(* is reported once more, whatever has been sent since.                    *)
RefusedTerminates ==
    /\ pc["sip"] = "idle" /\ call.lingering
    /\ call' = [call EXCEPT !.lingering = FALSE]
    /\ Goes("sip", "lateRefusal")
    /\ UNCHANGED <<account, cut, redialled, changes, others>>

Awaited == call.pending /\ call.awaiting

(* PJSIP drops the transaction that the thread has reported. *)
Dropped(k, at) ==
    CASE at \in {"accepted", "settle"} -> [k EXCEPT !.tsx = "none"]
      [] at \in {"refused", "fail"} -> [k EXCEPT !.tsx = "none", !.lingering = TRUE]
      [] OTHER -> k

(* onConnectivityReinviteFinalResponse: the test ... *)
FinalResponse ==
    /\ pc["sip"] \in {"accepted", "refused", "lateRefusal"}
    /\ IF Awaited
          THEN /\ Goes("sip", CASE pc["sip"] = "accepted" -> "settle"
                                [] pc["sip"] = "refused" -> "fail"
                                [] pc["sip"] = "lateRefusal" -> "lateFail")
               /\ UNCHANGED call
          ELSE Goes("sip", "idle") /\ call' = Dropped(call, pc["sip"])
    /\ UNCHANGED <<account, cut, redialled, changes, others>>

(* ... and what follows from it *)
Settle ==
    /\ pc["sip"] = "settle"
    /\ call' = Dropped(Reset(call), "settle")
    /\ Goes("sip", "idle")
    /\ UNCHANGED <<account, cut, redialled, changes, others>>

(* Seeded bug: the refused re-INVITE is left to the watchdog, which the    *)
(* cleared generation has disarmed.                                        *)
FailForgets ==
    /\ pc["sip"] \in {"fail", "lateFail"}
    /\ call' = Dropped(Clear(call), pc["sip"])
    /\ Goes("sip", IF call.count < MaxRetries THEN "idle" ELSE "force")
    /\ UNCHANGED <<account, cut, redialled, changes, others>>

Fail ==
    /\ pc["sip"] \in {"fail", "lateFail"}
    /\ call' = Dropped(Clear(call), pc["sip"])
    /\ Goes("sip", IF call.count < MaxRetries THEN "retry" ELSE "force")
    /\ UNCHANGED <<account, cut, redialled, changes, others>>

(* Another re-INVITE: a hold or a media change from here, or the peer's.   *)
(* Its media update may come before or after PJSIP drops the transaction.  *)
OtherStarts ==
    /\ call.session = "confirmed" /\ call.app = "connected" /\ call.tsx = "none"
    /\ others < MaxOthers /\ others' = others + 1
    /\ call' = [call EXCEPT !.tsx = "other"]
    /\ UNCHANGED <<pc, account, cut, redialled, changes>>

OtherAccepted ==
    /\ pc["sip"] = "idle" /\ call.tsx = "other" /\ call.session = "confirmed"
    /\ \E gone \in BOOLEAN :
        call' \in IF gone THEN TryDeferred([call EXCEPT !.tsx = "none"])
                          ELSE {[call EXCEPT !.tsx = "none"]}
    /\ UNCHANGED <<pc, account, cut, redialled, changes, others>>

OtherRefused ==
    /\ pc["sip"] = "idle" /\ call.tsx = "other" /\ call.session = "confirmed"
    /\ \E ours \in BOOLEAN : call' = [call EXCEPT !.tsx = "none", !.lingering = @ \/ ours]
    /\ UNCHANGED <<pc, account, cut, redialled, changes, others>>

(* The peer ends the call, or PJSIP gives it up.  onFailure and onBusyHere *)
(* set the state at once, onClosed leaves it to its closure.               *)
PeerEnds ==
    /\ pc["sip"] = "idle" /\ call.session \in {"early", "confirmed"}
    /\ \E app \in {"over", call.app} :
        call' = [call EXCEPT !.app = app, !.session = "ended", !.tsx = "none", !.closing = TRUE,
                             !.listener = @ /\ app # "over"]
    /\ UNCHANGED <<pc, account, cut, redialled, changes, others>>

(* The transport of the call is shut down (the listener of setSipTransport). *)
TransportClosed ==
    /\ pc["sip"] = "idle" /\ call.app # "over"
    /\ call' = IF call.rebind THEN call
               ELSE [call EXCEPT !.app = "over", !.listener = FALSE, !.closing = TRUE]
    /\ UNCHANGED <<pc, account, cut, redialled, changes, others>>

----------------------------------------------------------------------------
(* A client thread.                                                        *)

(* answer: the call is rebound to the account's transport, over which the  *)
(* 200 OK then goes out; without one, the answer is put off.  setState     *)
(* runs the listener.                                                      *)
Answer ==
    /\ ~call.outgoing /\ call.app = "setup" /\ call.session = "early"
    /\ account.transport # "none"
    /\ LET k == [call EXCEPT !.app = "connected", !.listener = FALSE, !.rebind = FALSE,
                             !.exposed = account.preparing] IN
        call' \in IF call.listener THEN TryDeferred(k) ELSE {k}
    /\ cut' = (account.transport = "old")
    /\ UNCHANGED <<pc, account, redialled, changes, others>>

Hangup ==
    /\ call.session # "none"
    /\ call' = Removed(call)
    /\ UNCHANGED <<pc, account, cut, redialled, changes, others>>

----------------------------------------------------------------------------
Scheduling(t) ==
    \/ ScheduleFollowup(t) \/ FollowupTimer(t) \/ ScheduleRetry(t) \/ RetryTimer(t)
    \/ ForceFailure(t) \/ ForceHangup(t)

SipSteps == ReachCall \/ BindCall \/ FinalResponse \/ Settle \/ Fail \/ Scheduling("sip")
Timers == Followup \/ Retry \/ (\E g \in {"current", "old"} : Watchdog(g))
MainSteps == Scheduling("main") \/ Timers \/ Answered \/ CloseCall

Next ==
    \/ PrepareConnectivityRecovery \/ PrepareTransportReset \/ RebindCalls \/ RecoverFails
    \/ ReinviteActiveCalls
    \/ SipSteps \/ MainSteps
    \/ Confirmed \/ ReinviteAccepted \/ ReinviteUnacceptable \/ ReinviteRefused \/ RefusedTerminates
    \/ OtherStarts \/ OtherAccepted \/ OtherRefused
    \/ PeerEnds \/ TransportClosed \/ Answer \/ Hangup

Spec == Init /\ [][Next]_vars

(* A thread that has begun a handler goes on with it, and the executor's   *)
(* thread does something as long as a task waits for it.  Which task it    *)
(* takes is left open.  Nothing is assumed of the peer or the client.      *)
Fairness == WF_vars(SipSteps) /\ WF_vars(MainSteps)

FairSpec == Spec /\ Fairness

----------------------------------------------------------------------------
(* The members keep their types.  The count may pass the limit by one: the *)
(* two threads test it and increment it without a lock.                    *)
TypeOK ==
    /\ call \in Call
    /\ call.count <= MaxRetries + 1
    /\ pc \in [Threads -> Places]
    /\ account \in Account /\ cut \in BOOLEAN
    /\ redialled \subseteq {"setup", "over"}
    /\ changes \in 0..MaxChanges /\ others \in 0..MaxOthers

(* A pending refresh is never without the watchdog that ends it: one of    *)
(* the current generation is scheduled, or it has fired and the call is    *)
(* being given up (beginConnectivityDialogRefresh).                        *)
RefreshIsWatched ==
    call.pending /\ call.app # "over" => "current" \in call.dogs \/ pc["main"] = "force"

(* An established call that is cut off from its peer is never forgotten:   *)
(* the account owes it a re-INVITE, a refresh is pending, a timer that     *)
(* will repeat the re-INVITE is scheduled, or a thread is at it.           *)
CutIsDriven ==
    cut /\ call.app = "connected" /\ call.session = "confirmed" =>
        \/ account.owed \/ call.pending
        \/ call.retries > 0 \/ (call.followups > 0 /\ call.deferred)
        \/ \E t \in Threads : pc[t] # "idle"

(* A connected call outlives the closing of its transport for as long as   *)
(* its dialog is not refreshed (the listener of setSipTransport), unless   *)
(* it was answered while a recovery was being prepared.                    *)
CutIsShielded ==
    cut /\ call.app = "connected" => call.rebind \/ call.exposed

(* A final response is awaited only while a connectivity re-INVITE is      *)
(* unanswered or its answer is being looked at; otherwise the call would   *)
(* be ended by the watchdog for want of an answer nobody will send.        *)
AwaitedIsUnanswered ==
    Awaited /\ call.session = "confirmed" => call.tsx \in {"own", "past"}

(* A cut-off call does not stay so: it is refreshed or ended, unless the   *)
(* account is again without a transport and owes it a re-INVITE.  The peer *)
(* need not answer.                                                        *)
CutIsSettled ==
    (cut /\ call.app = "connected" /\ ~account.owed) ~> (~cut \/ call.app = "over" \/ account.owed)

(* What the comment of reinviteActiveCalls says of the calls it dials      *)
(* again: they are "still in setup (TRYING/PROGRESSING/RINGING)".          *)
OnlySetupIsRedialled == redialled \subseteq {"setup"}

(* What the comment of rebindCallsToCurrentTransportForConnectivityChange  *)
(* says of connectivityTransportRebindPending_: it is cleared with the     *)
(* final response to the re-INVITE.                                        *)
RebindEndsWithRefresh ==
    [][pc["sip"] = "settle" /\ pc'["sip"] = "idle" => ~call'.rebind]_vars
============================================================================
