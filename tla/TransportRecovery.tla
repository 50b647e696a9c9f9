--------------------------- MODULE TransportRecovery ---------------------------
(***************************************************************************)
(* How a SIPAccount keeps its registration while transports come and go:   *)
(* src/src/sip/sipaccount.cpp (recovery, registration and its retry        *)
(* timer), connectivityChanged of src/src/client/configurationmanager.cpp  *)
(* and SipTransportBroker (src/src/sip/siptransport.cpp).                  *)
(*                                                                         *)
(* Threads: api (connectivityChanged, a client call), main (the executor:  *)
(* recoverTransport and transport events, in posting order) and sip        *)
(* (answers to REGISTER, the retry timer).  A name is resolved by PJSIP,   *)
(* whose callback holds configurationMutex_ and runs on whichever thread   *)
(* PJSIP likes: an actor of its own.  The flags are atomics: every stretch *)
(* between two flags that another thread may change is a step.             *)
(*                                                                         *)
(* One account without service routes (they are a component of their own)  *)
(* that uses UDP, one local address.  A transport is live while the broker *)
(* has it; after that it is dead to everyone who still holds it.           *)
(***************************************************************************)
EXTENDS Naturals, Sequences

CONSTANTS
    MaxQueue,     \* bound: transport events waiting for the main thread
    MaxResolves,  \* bound: name resolutions under way
    MaxEvents     \* bound: how often the network or a client intervenes

ASSUME RecoveryBounds == MaxQueue \in Nat /\ MaxResolves \in Nat \ {0} /\ MaxEvents \in Nat

VARIABLES
    acc,     \* the members of SIPAccount
    cached,  \* SipTransportBroker has a transport for the local address
    tasks,   \* closures waiting for the main thread
    main,    \* where the main thread is in recoverTransport
    api,     \* where the client thread is in connectivityChanged
    sip,     \* where the SIP thread is in onRegister
    owed,    \* dialogs of calls were cut off and no re-INVITE has been sent since
    given,   \* a prepared recovery was given up: the account became unusable
    failed,  \* since the last REGISTER, an attempt to recover or to register came to nothing
    events   \* interventions so far

vars == <<acc, cached, tasks, main, api, sip, owed, given, failed, events>>

Transports == {"none", "live", "dead"}

(* ERROR stands for the states a connectivity change may mend: GENERIC,    *)
(* HOST and SERVICE_UNAVAILABLE; ERROR_AUTH for AUTH and FAKE.             *)
RegistrationStates == {"UNREGISTERED", "TRYING", "REGISTERED", "ERROR", "ERROR_AUTH"}

Account ==
    [usable : BOOLEAN,       \* enabled and active_
     transport : Transports, \* transport_
     pending : BOOLEAN,      \* transportRecoveryPending_
     requested : BOOLEAN,    \* connectivityRecoveryRequested_
     inProgress : BOOLEAN,   \* connectivityRecoveryInProgress_
     resetDone : BOOLEAN,    \* prepareTransportResetDone_
     afterReg : BOOLEAN,     \* pendingReinviteAfterRegister_
     rebind : BOOLEAN,       \* pendingTransportRebind_, needsResubscribe_, needsRepublish_
     recent : BOOLEAN,       \* lastTransportRecoveryMs_ is less than the debounce ago
     reg : RegistrationStates,
     bRegister : BOOLEAN,
     regc : {"none", "waiting", "idle", "leaving"}, \* regc_ and what it waits for
     sending : {"none", "sent", "missed"}, \* a regc sent and not yet stored in regc_
     via : Transports,       \* the transport of the last REGISTER
     resolving : 0..MaxResolves,
     timer : BOOLEAN,        \* auto_rereg_.timer is in PJSIP's heap
     active : BOOLEAN,       \* auto_rereg_.active
     owner : BOOLEAN]        \* auto_rereg_.timer.user_data is set

TypeOK ==
    /\ acc \in Account
    /\ cached \in BOOLEAN
    /\ tasks \in Seq({"recover", "down"})
    /\ main \in {"idle", "switch", "finish", "again", "dispatch", "failAgain", "failDispatch"}
    /\ api \in {"idle", "prepare", "reset", "dispatch"}
    /\ sip \in {"idle", "reinvite"}
    /\ owed \in BOOLEAN /\ given \in BOOLEAN /\ failed \in BOOLEAN
    /\ events \in 0..MaxEvents

(* An account that is enabled and has not been registered yet. *)
Init ==
    /\ acc = [usable |-> TRUE, transport |-> "none", pending |-> FALSE, requested |-> FALSE,
              inProgress |-> FALSE, resetDone |-> FALSE, afterReg |-> FALSE, rebind |-> FALSE,
              recent |-> FALSE, reg |-> "UNREGISTERED", bRegister |-> FALSE, regc |-> "none",
              sending |-> "none", via |-> "none", resolving |-> 0,
              timer |-> FALSE, active |-> FALSE, owner |-> FALSE]
    /\ cached = FALSE
    /\ tasks = <<>>
    /\ main = "idle" /\ api = "idle" /\ sip = "idle"
    /\ owed = FALSE /\ given = FALSE /\ failed = FALSE /\ events = 0

Intervene == events < MaxEvents /\ events' = events + 1

----------------------------------------------------------------------------
(* What the functions do to the account *)

DoRegister(a) ==
    IF a.usable
    THEN [a EXCEPT !.reg = "TRYING",
                   !.resolving = IF @ < MaxResolves THEN @ + 1 ELSE @]
    ELSE a

CancelAutoReregistrationTimer(a) == [a EXCEPT !.active = FALSE, !.timer = FALSE]

(* The timer is left alone. *)
ResetAutoRegistration(a) == [a EXCEPT !.active = FALSE, !.owner = FALSE]

ScheduleReregistration(a) ==
    IF a.usable THEN [a EXCEPT !.timer = TRUE, !.active = TRUE, !.owner = TRUE] ELSE a

PrepareTransportReset(a) ==
    [ResetAutoRegistration(CancelAutoReregistrationTimer(a))
        EXCEPT !.rebind = TRUE, !.regc = "none", !.transport = "none"]

(* prepareConnectivityRecovery, for an account that is usable. *)
PrepareConnectivityRecovery(a) ==
    [PrepareTransportReset(a) EXCEPT !.requested = TRUE, !.inProgress = TRUE, !.resetDone = TRUE]

HasRunningTransport(a) == a.usable /\ a.transport # "none" /\ ~a.pending

ShouldHandleConnectivityChange(a) ==
    /\ a.usable
    /\ a.bRegister \/ a.reg # "UNREGISTERED" \/ a.transport # "none"
    /\ \/ HasRunningTransport(a)
       \/ a.reg = "ERROR"
       \/ a.reg = "TRYING" /\ ~a.pending

(* scheduleRecoveryInternal takes the recovery on: its result. *)
Schedules(a, debounced) == a.usable /\ ~(debounced /\ a.recent) /\ ~a.pending

Scheduled(a) == [a EXCEPT !.pending = TRUE, !.recent = TRUE]

(* scheduleRecoveryInternal from account state a; on FALSE it leaves `otherwise`. *)
ScheduleRecovery(a, debounced, otherwise) ==
    IF Schedules(a, debounced)
    THEN acc' = Scheduled(a) /\ tasks' = Append(tasks, "recover")
    ELSE acc' = otherwise /\ tasks' = tasks

(* switchTransportInternal: the broker's transport or a new one becomes the *)
(* account's.                                                               *)
Switched(a) == [a EXCEPT !.transport = "live"]

(* Every holder of the broker's transport finds it dead. *)
Fade(t) == IF t = "live" THEN "dead" ELSE t
Faded(a) == [a EXCEPT !.transport = Fade(@), !.via = Fade(@)]

----------------------------------------------------------------------------
(* connectivityChanged, on a client thread *)

(* The account is chosen if it is eligible; nothing keeps it so. *)
ConnectivityChanged ==
    /\ api = "idle" /\ Intervene
    /\ ShouldHandleConnectivityChange(acc)
    /\ api' = "prepare"
    /\ UNCHANGED <<acc, cached, tasks, main, sip, owed, given, failed>>

ApiPrepare ==
    /\ api = "prepare"
    /\ api' = "reset"
    /\ acc' = IF acc.usable THEN PrepareConnectivityRecovery(acc) ELSE acc
    /\ owed' = (owed \/ acc.usable)
    /\ UNCHANGED <<cached, tasks, main, sip, given, failed, events>>

(* resetForConnectivityChange: the maps are emptied before the transports   *)
(* are shut down, so no listener hears of it.                               *)
ApiResetBroker ==
    /\ api = "reset"
    /\ api' = "dispatch"
    /\ cached' = FALSE
    /\ acc' = Faded(acc)
    /\ UNCHANGED <<tasks, main, sip, owed, given, failed, events>>

(* Seeded bug: the request is debounced like a loss of the transport. *)
ApiDispatchDebounced ==
    /\ api = "dispatch"
    /\ api' = "idle"
    /\ ScheduleRecovery(acc, TRUE, acc)
    /\ given' = (given \/ ~acc.usable)
    /\ UNCHANGED <<cached, main, sip, owed, failed, events>>

ApiDispatch ==
    /\ api = "dispatch"
    /\ api' = "idle"
    /\ ScheduleRecovery(acc, FALSE, acc)
    /\ given' = (given \/ ~acc.usable)
    /\ UNCHANGED <<cached, main, sip, owed, failed, events>>

----------------------------------------------------------------------------
(* The main thread *)

NextTask(t) == main = "idle" /\ tasks # <<>> /\ Head(tasks) = t

(* recoverTransport up to switchTransportInternal. *)
RecoverTransport ==
    /\ NextTask("recover")
    /\ tasks' = Tail(tasks)
    /\ LET a == [acc EXCEPT !.pending = FALSE, !.requested = FALSE]
       IN  IF acc.usable
           THEN /\ main' = "switch"
                /\ acc' = IF a.resetDone
                          THEN [a EXCEPT !.resetDone = FALSE, !.inProgress = TRUE]
                          ELSE [PrepareTransportReset(a) EXCEPT !.inProgress = TRUE]
                /\ given' = given
           ELSE /\ main' = main
                /\ acc' = [a EXCEPT !.inProgress = FALSE]
                /\ given' = TRUE
    /\ UNCHANGED <<cached, api, sip, owed, failed, events>>

(* The switch succeeds: calls are bound to the new transport, and their     *)
(* re-INVITEs wait for the registration that doRegister begins.             *)
RecoverSwitches ==
    /\ main = "switch"
    /\ main' = "finish"
    /\ cached' = TRUE
    /\ acc' = DoRegister([Switched(acc) EXCEPT !.afterReg = TRUE])
    /\ UNCHANGED <<tasks, api, sip, owed, given, failed, events>>

(* No transport can be had. *)
RecoverFails ==
    /\ main = "switch"
    /\ main' = "failAgain"
    /\ acc' = [acc EXCEPT !.inProgress = FALSE, !.afterReg = TRUE, !.reg = "ERROR"]
    /\ owed' = TRUE
    /\ failed' = TRUE
    /\ UNCHANGED <<cached, tasks, api, sip, given, events>>

RecoverFinishes ==
    /\ main = "finish"
    /\ main' = "again"
    /\ acc' = [acc EXCEPT !.inProgress = FALSE]
    /\ UNCHANGED <<cached, tasks, api, sip, owed, given, failed, events>>

(* recoverTransport returns; after a failure it sets the retry timer first. *)
Return(a, failing) == IF failing THEN ScheduleReregistration(a) ELSE a

(* schedulePendingConnectivityRecovery: a connectivity change came while    *)
(* this recovery ran.                                                       *)
RecoverAgain ==
    \E failing \in BOOLEAN :
        LET a == IF acc.usable THEN [acc EXCEPT !.requested = FALSE] ELSE acc
            redo == acc.usable /\ acc.requested /\ ShouldHandleConnectivityChange(a)
        IN  /\ main = IF failing THEN "failAgain" ELSE "again"
            /\ main' = IF ~redo THEN "idle" ELSE IF failing THEN "failDispatch" ELSE "dispatch"
            /\ acc' = IF redo THEN PrepareConnectivityRecovery(a) ELSE Return(a, failing)
            /\ owed' = (owed \/ redo)
            /\ UNCHANGED <<cached, tasks, api, sip, given, failed, events>>

RecoverDispatches ==
    \E failing \in BOOLEAN :
        /\ main = IF failing THEN "failDispatch" ELSE "dispatch"
        /\ main' = "idle"
        /\ IF Schedules(acc, FALSE)
           THEN acc' = Return(Scheduled(acc), failing) /\ tasks' = Append(tasks, "recover")
           ELSE acc' = Return(acc, failing) /\ tasks' = tasks
        /\ given' = (given \/ ~acc.usable)
        /\ UNCHANGED <<cached, api, sip, owed, failed, events>>

(* Seeded bug: a loss that is debounced leaves the account as it is. *)
OnTransportDownIgnored ==
    /\ NextTask("down")
    /\ main' = main
    /\ LET rest == Tail(tasks)
       IN  IF Schedules(acc, TRUE)
           THEN acc' = Scheduled(acc) /\ tasks' = Append(rest, "recover")
           ELSE acc' = acc /\ tasks' = rest
    /\ UNCHANGED <<cached, api, sip, owed, given, failed, events>>

(* onTransportStateChanged: DISCONNECTED with an error.  The event does not *)
(* say which transport it is about.                                         *)
OnTransportDown ==
    /\ NextTask("down")
    /\ main' = main
    /\ LET rest == Tail(tasks)
       IN  IF Schedules(acc, TRUE)
           THEN acc' = Scheduled(acc) /\ tasks' = Append(rest, "recover")
           ELSE acc' = [acc EXCEPT !.reg = "ERROR"] /\ tasks' = rest
    /\ failed' = (failed \/ ~Schedules(acc, TRUE))
    /\ UNCHANGED <<cached, api, sip, owed, given, events>>

----------------------------------------------------------------------------
(* Registration *)

(* doRegister2_ after a name was resolved, up to pjsip_regc_send. *)
ResolveFails ==
    /\ acc.resolving > 0 /\ acc.sending = "none"
    /\ acc' = [acc EXCEPT !.resolving = @ - 1, !.reg = "ERROR"]
    /\ failed' = TRUE
    /\ UNCHANGED <<cached, tasks, main, api, sip, owed, given, events>>

(* No transport, or PJSIP refuses the request: no retry is scheduled. *)
RegisterThrows ==
    /\ acc.resolving > 0 /\ acc.sending = "none"
    /\ \E got \in BOOLEAN :
          LET a == [acc EXCEPT !.resolving = @ - 1]
          IN  /\ cached' = (cached \/ got)
              /\ acc' = IF ~got THEN [a EXCEPT !.reg = "ERROR"]
                        ELSE IF a.usable
                        THEN [Switched(a) EXCEPT !.bRegister = TRUE, !.reg = "ERROR"]
                        ELSE Switched(a)
    /\ failed' = TRUE
    /\ UNCHANGED <<tasks, main, api, sip, owed, given, events>>

SendRegister ==
    /\ acc.resolving > 0 /\ acc.sending = "none"
    /\ cached' = TRUE
    /\ LET a == [Switched(acc) EXCEPT !.resolving = @ - 1]
       IN  acc' = IF a.usable
                  THEN [a EXCEPT !.bRegister = TRUE, !.reg = "TRYING", !.sending = "sent",
                                 !.via = "live"]
                  ELSE a
    /\ failed' = (failed /\ ~acc.usable)
    /\ UNCHANGED <<tasks, main, api, sip, owed, given, events>>

(* setRegistrationInfo: the registration client becomes the current one. *)
SetRegistrationInfo ==
    /\ acc.sending # "none"
    /\ acc' = [acc EXCEPT !.sending = "none",
                          !.regc = IF acc.sending = "sent" THEN "waiting" ELSE "idle"]
    /\ UNCHANGED <<cached, tasks, main, api, sip, owed, given, failed, events>>

(* An answer for a client that is not regc_ is ignored. *)
AnswerMissed ==
    /\ sip = "idle" /\ acc.sending = "sent"
    /\ acc' = [acc EXCEPT !.sending = "missed"]
    /\ UNCHANGED <<cached, tasks, main, api, sip, owed, given, failed, events>>

(* The current registration client hears from the registrar. *)
Answer == sip = "idle" /\ acc.regc \in {"waiting", "leaving"}

(* Seeded bug: the recovery sync is done only if re-INVITEs wait. *)
RegisteredUnsynced ==
    /\ sip = "idle" /\ acc.regc = "waiting"
    /\ acc' = [ResetAutoRegistration(acc) EXCEPT !.regc = "idle", !.reg = "REGISTERED",
                   !.rebind = @ /\ (acc.transport = "none" \/ ~acc.afterReg), !.afterReg = FALSE]
    /\ sip' = IF acc.afterReg THEN "reinvite" ELSE "idle"
    /\ UNCHANGED <<cached, tasks, main, api, owed, given, failed, events>>

(* The dialogs are refreshed after the flag was taken, unless the transport *)
(* is gone by then.                                                         *)
Registered ==
    /\ sip = "idle" /\ acc.regc = "waiting"
    /\ acc' = [ResetAutoRegistration(acc) EXCEPT !.regc = "idle", !.reg = "REGISTERED",
                   !.rebind = @ /\ acc.transport = "none", !.afterReg = FALSE]
    /\ sip' = IF acc.afterReg THEN "reinvite" ELSE "idle"
    /\ UNCHANGED <<cached, tasks, main, api, owed, given, failed, events>>

(* Seeded bug: without a transport the re-INVITEs are dropped. *)
ReinviteDropped ==
    /\ sip = "reinvite"
    /\ sip' = "idle"
    /\ owed' = (owed /\ acc.transport = "none")
    /\ UNCHANGED <<acc, cached, tasks, main, api, given, failed, events>>

ReinviteActiveCalls ==
    /\ sip = "reinvite"
    /\ sip' = "idle"
    /\ owed' = (owed /\ acc.transport = "none")
    /\ acc' = [acc EXCEPT !.afterReg = @ \/ acc.transport = "none"]
    /\ UNCHANGED <<cached, tasks, main, api, given, failed, events>>

(* Seeded bug: the result of scheduleTransportRecovery is not looked at. *)
RegisterErrorAssumesRecovery ==
    /\ Answer
    /\ LET a == [acc EXCEPT !.regc = "none"] IN ScheduleRecovery(a, TRUE, a)
    /\ UNCHANGED <<cached, main, api, sip, owed, given, failed, events>>

(* A failure to deliver the request, or a 503: PJSIP gives both one code. *)
RegisterTransportError ==
    /\ Answer
    /\ \E retry \in BOOLEAN :
          LET a == [acc EXCEPT !.regc = "none"]
              e == [a EXCEPT !.reg = "ERROR"]
          IN  ScheduleRecovery(a, TRUE, IF retry THEN ScheduleReregistration(e) ELSE e)
    /\ UNCHANGED <<cached, main, api, sip, owed, given, failed, events>>

(* 408 and server errors are retried; 403, 404 and others are not. *)
RegisterRefused ==
    /\ Answer
    /\ LET a == [acc EXCEPT !.regc = "none"]
       IN  acc' \in {[a EXCEPT !.reg = "ERROR_AUTH"], [a EXCEPT !.reg = "ERROR"],
                     ScheduleReregistration([a EXCEPT !.reg = "ERROR"])}
    /\ UNCHANGED <<cached, tasks, main, api, sip, owed, given, failed, events>>

Unregistered ==
    /\ sip = "idle" /\ acc.regc = "leaving"
    /\ acc' = [ResetAutoRegistration(acc) EXCEPT !.regc = "none", !.reg = "UNREGISTERED"]
    /\ UNCHANGED <<cached, tasks, main, api, sip, owed, given, failed, events>>

(* A 2xx whose reason phrase says "fake". *)
RegisteredFake ==
    /\ Answer
    /\ acc' = [ResetAutoRegistration(acc) EXCEPT !.regc = "idle", !.reg = "ERROR_AUTH"]
    /\ UNCHANGED <<cached, tasks, main, api, sip, owed, given, failed, events>>

(* PJSIP refreshes a registration by itself, with the client it was made with. *)
RefreshRegistration ==
    /\ acc.regc = "idle" /\ Intervene
    /\ acc' = [acc EXCEPT !.regc = "waiting"]
    /\ UNCHANGED <<cached, tasks, main, api, sip, owed, given, failed>>

(* autoReregTimerCb.  Without user_data the callback's behaviour is         *)
(* undefined: see TimerHasOwner.                                            *)
AutoReregTimer ==
    /\ sip = "idle" /\ acc.timer /\ acc.owner
    /\ LET a == [acc EXCEPT !.timer = FALSE]
       IN  acc' = IF acc.active THEN DoRegister(a) ELSE a
    /\ UNCHANGED <<cached, tasks, main, api, sip, owed, given, failed, events>>

----------------------------------------------------------------------------
(* The network, time and the client *)

(* transportStateChanged: the broker forgets the transport and tells those  *)
(* who listen.                                                              *)
TransportLost ==
    /\ cached /\ Intervene
    /\ cached' = FALSE
    /\ acc' = Faded(acc)
    /\ IF acc.transport = "live"
       THEN Len(tasks) < MaxQueue /\ tasks' = Append(tasks, "down")
       ELSE tasks' = tasks
    /\ UNCHANGED <<main, api, sip, owed, given, failed>>

(* handleUdpRawKeepAliveSendFailure; too many of them in a window are       *)
(* answered with a new registration.                                        *)
KeepAliveSendFailure ==
    /\ sip = "idle" /\ Intervene
    /\ acc.reg = "REGISTERED" /\ acc.transport # "none"
    /\ \E suppressed \in BOOLEAN :
          IF suppressed
          THEN acc' = ScheduleReregistration([acc EXCEPT !.reg = "ERROR"]) /\ tasks' = tasks
          ELSE ScheduleRecovery(acc, TRUE, acc)
    /\ UNCHANGED <<cached, main, api, sip, owed, given, failed>>

(* TRANSPORT_RECOVERY_DEBOUNCE_MS pass. *)
DebounceExpires ==
    /\ acc.recent
    /\ acc' = [acc EXCEPT !.recent = FALSE]
    /\ UNCHANGED <<cached, tasks, main, api, sip, owed, given, failed, events>>

(* Manager::sendRegister(id, true) *)
ClientRegister ==
    /\ Intervene
    /\ acc' = DoRegister([acc EXCEPT !.usable = TRUE])
    /\ UNCHANGED <<cached, tasks, main, api, sip, owed, given, failed>>

(* Manager::sendRegister(id, false): doUnregister.  PJSIP refuses a second  *)
(* request while one is unanswered.                                         *)
ClientUnregister ==
    /\ Intervene /\ acc.usable
    /\ LET a == [acc EXCEPT !.usable = FALSE, !.bRegister = FALSE]
           recovering == a.pending \/ a.inProgress \/ a.transport = "none"
       IN  acc' = IF ~acc.bRegister THEN [a EXCEPT !.reg = "UNREGISTERED"]
                  ELSE IF a.regc = "none" THEN [a EXCEPT !.reg = "ERROR"]
                  ELSE IF recovering THEN [a EXCEPT !.regc = "none", !.reg = "UNREGISTERED"]
                  ELSE IF a.regc = "idle" THEN [a EXCEPT !.regc = "leaving"]
                  ELSE [a EXCEPT !.reg = "ERROR"]
    /\ UNCHANGED <<cached, tasks, main, api, sip, owed, given, failed>>

Next ==
    \/ ConnectivityChanged \/ ApiPrepare \/ ApiResetBroker \/ ApiDispatch
    \/ RecoverTransport \/ RecoverSwitches \/ RecoverFails \/ RecoverFinishes
    \/ RecoverAgain \/ RecoverDispatches \/ OnTransportDown
    \/ ResolveFails \/ RegisterThrows \/ SendRegister \/ SetRegistrationInfo
    \/ AnswerMissed \/ Registered \/ ReinviteActiveCalls \/ RegisterTransportError
    \/ RegisterRefused \/ Unregistered \/ RegisteredFake \/ RefreshRegistration \/ AutoReregTimer
    \/ TransportLost \/ KeepAliveSendFailure \/ DebounceExpires
    \/ ClientRegister \/ ClientUnregister

Spec == Init /\ [][Next]_vars

----------------------------------------------------------------------------
(* Properties *)

Recovering == acc.pending \/ api # "idle" \/ main # "idle"

(* Nothing is under way that would change the registration by itself. *)
Quiet ==
    /\ ~Recovering /\ tasks = <<>> /\ sip = "idle"
    /\ acc.resolving = 0 /\ acc.sending = "none" /\ acc.regc \notin {"waiting", "leaving"}

(* transportRecoveryPending_ is the promise that recoverTransport will run: *)
(* it is set exactly while the closure waits, so a recovery that is refused *)
(* because one is pending is not lost, and none runs twice.                 *)
PendingMeansQueued ==
    /\ acc.pending <=> \E i \in DOMAIN tasks : tasks[i] = "recover"
    /\ \A i, j \in DOMAIN tasks : tasks[i] = "recover" /\ tasks[j] = "recover" => i = j

(* A connectivity change is never swallowed: while the request stands, a    *)
(* recovery that has not yet looked at it is still to come.                 *)
RequestIsServed ==
    acc.requested /\ acc.usable /\ ~given => Recovering

(* Calls whose dialogs a recovery cut off get their re-INVITE: until it is  *)
(* sent, either a recovery is running, or pendingReinviteAfterRegister_     *)
(* waits for the next 2xx to REGISTER.                                      *)
OwedIsArmed ==
    owed /\ ~given => Recovering \/ acc.afterReg \/ sip = "reinvite"

(* Whichever answers came late: an account that says REGISTERED when all is *)
(* quiet has registered over the transport it uses, and that one is alive,  *)
(* unless a later attempt to recover or to register came to nothing.        *)
RegisteredOverCurrent ==
    Quiet /\ acc.usable /\ acc.reg = "REGISTERED" /\ ~failed =>
        acc.transport = "live" /\ acc.via = "live"

(* A registration that ends a recovery has renewed subscriptions and        *)
(* published state and released the re-INVITEs (runPostRegisterRecoverySync *)
(* and reinviteActiveCalls), unless it found the account without transport. *)
RegisteredIsSynced ==
    Quiet /\ acc.usable /\ acc.reg = "REGISTERED" /\ acc.transport # "none" =>
        ~acc.rebind /\ ~acc.afterReg

(* TRYING ends: an answer, a resolution, a recovery or a retry is to come. *)
TryingIsDriven ==
    acc.reg = "TRYING" /\ Quiet => acc.timer \/ acc.regc = "idle"

(* autoReregTimerCb's comment: the timer may fire after the application has *)
(* "disabled the auto-reregistration", and the callback copes.  It reads    *)
(* user_data first, which resetAutoRegistration frees and clears without    *)
(* cancelling the timer.                                                    *)
TimerHasOwner == acc.timer => acc.owner

(* recoverTransport's comment: when prepareTransportResetDone_ is set, a    *)
(* second prepareTransportReset would add "nothing but log noise", since    *)
(* the first one has cleared transport_ (and regc_).                        *)
SecondResetIsRedundant ==
    NextTask("recover") /\ acc.resetDone /\ acc.usable => acc.transport = "none" /\ acc.regc = "none"

============================================================================
