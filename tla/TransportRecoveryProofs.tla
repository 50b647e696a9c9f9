------------------------ MODULE TransportRecoveryProofs ------------------------
(***************************************************************************)
(* TransportRecovery, for every value of its bounds: its types, that the   *)
(* flag transportRecoveryPending_ says what is in the main thread's queue, *)
(* and that neither a connectivity change nor a re-INVITE is forgotten.    *)
(***************************************************************************)
EXTENDS TransportRecovery, TLAPS

Tasks == {"recover", "down"}

HasRecover(q) == \E i \in DOMAIN q : q[i] = "recover"

AtMostOne(q) == \A i, j \in DOMAIN q : q[i] = "recover" /\ q[j] = "recover" => i = j

(* The flags of the recovery are the same in both account states. *)
Same(a, b) ==
    b.pending = a.pending /\ b.requested = a.requested /\ b.afterReg = a.afterReg

(* The inductive invariant.  RequestIsServed and OwedIsArmed speak of any   *)
(* recovery; what counts is one that has not passed the point where it     *)
(* takes the request, or where it releases the re-INVITEs.                 *)
RequestInv ==
    acc.requested /\ ~ given =>
        acc.pending \/ api \in {"reset", "dispatch"} \/ main \in {"dispatch", "failDispatch"}

OwedInv ==
    owed /\ ~ given =>
        \/ acc.pending \/ api # "idle" \/ main \in {"switch", "dispatch", "failDispatch"}
        \/ acc.afterReg \/ sip = "reinvite"

QueueInv == (acc.pending <=> HasRecover(tasks)) /\ AtMostOne(tasks)

IInv == TypeOK /\ QueueInv /\ RequestInv /\ OwedInv

(* A step that leaves the recovery where it is. *)
Untouched ==
    /\ acc' \in Account /\ Same(acc, acc')
    /\ UNCHANGED <<tasks, main, api, sip, owed, given>>

(* A step in which scheduleRecoveryInternal takes a recovery on. *)
TakenOn ==
    /\ ~ acc.pending
    /\ acc' \in Account /\ acc'.pending
    /\ acc'.requested = acc.requested /\ acc'.afterReg = acc.afterReg
    /\ tasks' = Append(tasks, "recover")
    /\ UNCHANGED <<main, api, sip, owed, given>>

GhostsOK == cached' \in BOOLEAN /\ failed' \in BOOLEAN /\ events' \in 0..MaxEvents

----------------------------------------------------------------------------
(* The account's functions *)

(* doRegister touches no flag of the recovery. *)
LEMMA DoRegisterRecord ==
    ASSUME NEW a \in Account
    PROVE  DoRegister(a) \in Account /\ Same(a, DoRegister(a))
<1> DEFINE n == IF a.resolving < MaxResolves THEN a.resolving + 1 ELSE a.resolving
<1>1. n \in 0..MaxResolves
    BY RecoveryBounds DEF RecoveryBounds, Account
<1> HIDE DEF n
<1>2. [a EXCEPT !.reg = "TRYING", !.resolving = n] \in Account
    BY <1>1, ZenonT(30) DEF Account, RegistrationStates
<1>3. Same(a, [a EXCEPT !.reg = "TRYING", !.resolving = n])
    BY DEF Account, Same
<1>4. DoRegister(a) \in {a, [a EXCEPT !.reg = "TRYING", !.resolving = n]}
    BY DEF DoRegister, n
<1>5. Same(a, a)
    BY DEF Same
<1>6. QED
    BY <1>2, <1>3, <1>4, <1>5

(* Neither do resetAutoRegistration and scheduleReregistration. *)
LEMMA RetryRecord ==
    ASSUME NEW a \in Account
    PROVE  /\ ResetAutoRegistration(a) \in Account /\ Same(a, ResetAutoRegistration(a))
           /\ ScheduleReregistration(a) \in Account /\ Same(a, ScheduleReregistration(a))
<1>1. ResetAutoRegistration(a) \in Account /\ Same(a, ResetAutoRegistration(a))
    BY ZenonT(30) DEF ResetAutoRegistration, Account, Same
<1>2. [a EXCEPT !.timer = TRUE, !.active = TRUE, !.owner = TRUE] \in Account
    BY ZenonT(30) DEF Account
<1>3. Same(a, [a EXCEPT !.timer = TRUE, !.active = TRUE, !.owner = TRUE]) /\ Same(a, a)
    BY DEF Account, Same
<1>4. QED
    BY <1>1, <1>2, <1>3 DEF ScheduleReregistration

(* Nor does what recoverTransport does last. *)
LEMMA ReturnRecord ==
    ASSUME NEW a \in Account, NEW failing \in BOOLEAN
    PROVE  Return(a, failing) \in Account /\ Same(a, Return(a, failing))
BY RetryRecord DEF Return, Same

(* Nor does prepareTransportReset; prepareConnectivityRecovery leaves its request. *)
LEMMA PrepareRecord ==
    ASSUME NEW a \in Account
    PROVE  /\ PrepareTransportReset(a) \in Account /\ Same(a, PrepareTransportReset(a))
           /\ PrepareConnectivityRecovery(a) \in Account
           /\ PrepareConnectivityRecovery(a).pending = a.pending
           /\ PrepareConnectivityRecovery(a).afterReg = a.afterReg
<1> DEFINE c == CancelAutoReregistrationTimer(a)
           r == ResetAutoRegistration(c)
           p == PrepareTransportReset(a)
<1>1. c \in Account /\ Same(a, c)
    BY ZenonT(30) DEF CancelAutoReregistrationTimer, Account, Same
<1>2. p = [r EXCEPT !.rebind = TRUE, !.regc = "none", !.transport = "none"]
    BY DEF PrepareTransportReset
<1> HIDE DEF c
<1>3. r \in Account /\ Same(c, r)
    BY <1>1, RetryRecord
<1> HIDE DEF r, p
<1>4. p \in Account
    BY <1>2, <1>3, ZenonT(30) DEF Account, Transports
<1>5. Same(a, p)
    BY <1>1, <1>2, <1>3 DEF Account, Same
<1>6. PrepareConnectivityRecovery(a)
        = [p EXCEPT !.requested = TRUE, !.inProgress = TRUE, !.resetDone = TRUE]
    BY DEF PrepareConnectivityRecovery, p
<1>7. PrepareConnectivityRecovery(a) \in Account
    BY <1>4, <1>6, ZenonT(30) DEF Account
<1>8. /\ PrepareConnectivityRecovery(a).pending = a.pending
      /\ PrepareConnectivityRecovery(a).afterReg = a.afterReg
    BY <1>4, <1>5, <1>6 DEF Account, Same
<1>9. QED
    BY <1>4, <1>5, <1>7, <1>8 DEF p

(* Nor does a transport that is taken or lost. *)
LEMMA TransportRecord ==
    ASSUME NEW a \in Account
    PROVE  /\ Switched(a) \in Account /\ Same(a, Switched(a))
           /\ Faded(a) \in Account /\ Same(a, Faded(a))
<1>1. Switched(a) \in Account /\ Same(a, Switched(a))
    BY DEF Switched, Account, Transports, Same
<1> DEFINE t == Fade(a.transport)
           v == Fade(a.via)
<1>2. t \in Transports /\ v \in Transports
    BY DEF Fade, Account, Transports
<1>3. Faded(a) = [a EXCEPT !.transport = t, !.via = v]
    BY DEF Faded
<1> HIDE DEF t, v
<1>4. Faded(a) \in Account
    BY <1>2, <1>3, ZenonT(30) DEF Account
<1>5. Same(a, Faded(a))
    BY <1>3 DEF Account, Same
<1>6. QED
    BY <1>1, <1>4, <1>5

(* A recovery that is taken on is pending. *)
LEMMA ScheduledRecord ==
    ASSUME NEW a \in Account
    PROVE  /\ Scheduled(a) \in Account /\ Scheduled(a).pending
           /\ Scheduled(a).requested = a.requested /\ Scheduled(a).afterReg = a.afterReg
BY ZenonT(30) DEF Scheduled, Account

----------------------------------------------------------------------------
(* The main thread's queue *)

(* runOnMainThread with a closure that is not a recovery. *)
LEMMA AppendDown ==
    ASSUME NEW q \in Seq(Tasks)
    PROVE  /\ HasRecover(Append(q, "down")) <=> HasRecover(q)
           /\ AtMostOne(q) => AtMostOne(Append(q, "down"))
<1> DEFINE r == Append(q, "down")
<1>1. /\ Len(r) = Len(q) + 1 /\ r[Len(q) + 1] = "down" /\ Len(q) \in Nat
      /\ \A i \in 1..Len(q) : r[i] = q[i]
      /\ DOMAIN r = 1..Len(q) + 1 /\ DOMAIN q = 1..Len(q)
    OBVIOUS
<1> HIDE DEF r
<1>2. \A i \in DOMAIN r : r[i] = "recover" => i \in DOMAIN q /\ q[i] = "recover"
    BY <1>1
<1>3. \A i \in DOMAIN q : i \in DOMAIN r /\ r[i] = q[i]
    BY <1>1
<1>4. QED
    BY <1>2, <1>3 DEF HasRecover, AtMostOne, r

(* scheduleRecoveryInternal posts a recovery when none is waiting. *)
LEMMA AppendRecover ==
    ASSUME NEW q \in Seq(Tasks), ~ HasRecover(q)
    PROVE  HasRecover(Append(q, "recover")) /\ AtMostOne(Append(q, "recover"))
<1> DEFINE r == Append(q, "recover")
<1>1. /\ Len(r) = Len(q) + 1 /\ r[Len(q) + 1] = "recover" /\ Len(q) \in Nat
      /\ \A i \in 1..Len(q) : r[i] = q[i]
      /\ DOMAIN r = 1..Len(q) + 1 /\ DOMAIN q = 1..Len(q)
    OBVIOUS
<1> HIDE DEF r
<1>2. \A i \in DOMAIN r : r[i] = "recover" => i = Len(q) + 1
    BY <1>1 DEF HasRecover
<1>3. Len(q) + 1 \in DOMAIN r
    BY <1>1
<1>4. QED
    BY <1>1, <1>2, <1>3 DEF HasRecover, AtMostOne, r

(* The main thread takes the closure at the head. *)
LEMMA TakeHead ==
    ASSUME NEW q \in Seq(Tasks), q # <<>>, AtMostOne(q)
    PROVE  /\ Tail(q) \in Seq(Tasks) /\ AtMostOne(Tail(q))
           /\ Head(q) = "down" => (HasRecover(Tail(q)) <=> HasRecover(q))
           /\ Head(q) = "recover" => ~ HasRecover(Tail(q))
<1> DEFINE r == Tail(q)
<1>1. /\ r \in Seq(Tasks) /\ Len(q) \in Nat \ {0} /\ Len(r) = Len(q) - 1 /\ Head(q) = q[1]
      /\ DOMAIN r = 1..Len(r) /\ DOMAIN q = 1..Len(q)
      /\ \A i \in 1..Len(r) : r[i] = q[i + 1]
    OBVIOUS
<1> HIDE DEF r
<1>2. \A i \in DOMAIN r : i \in Nat /\ i + 1 \in DOMAIN q /\ r[i] = q[i + 1] /\ i + 1 # 1
    BY <1>1
<1>3. \A i \in DOMAIN q : i # 1 => i - 1 \in DOMAIN r /\ r[i - 1] = q[i]
    BY <1>1
<1>4. 1 \in DOMAIN q
    BY <1>1
<1>5. AtMostOne(r)
    <2> SUFFICES ASSUME NEW i \in DOMAIN r, NEW j \in DOMAIN r, r[i] = "recover", r[j] = "recover"
                 PROVE  i = j
        BY DEF AtMostOne
    <2>1. i + 1 = j + 1
        BY <1>2 DEF AtMostOne
    <2>2. QED
        BY <2>1, <1>2
<1>6. ASSUME Head(q) = "down" PROVE HasRecover(r) <=> HasRecover(q)
    <2>1. ASSUME NEW i \in DOMAIN q, q[i] = "recover" PROVE HasRecover(r)
        <3>1. i # 1
            BY <1>1, <1>6, <2>1
        <3>2. QED
            BY <3>1, <2>1, <1>3 DEF HasRecover
    <2>2. QED
        BY <2>1, <1>2 DEF HasRecover
<1>7. ASSUME Head(q) = "recover" PROVE ~ HasRecover(r)
    BY <1>1, <1>2, <1>4, <1>7 DEF AtMostOne, HasRecover
<1>8. QED
    BY <1>1, <1>5, <1>6, <1>7 DEF r

----------------------------------------------------------------------------
(* Steps that do not touch the recovery, or take one on *)

(* What happens to a REGISTER: its name is resolved, it is sent, stored,   *)
(* answered or retried.                                                    *)
LEMMA RegistrationSteps ==
    ASSUME TypeOK,
           \/ ResolveFails \/ RegisterThrows \/ SendRegister \/ SetRegistrationInfo
           \/ AnswerMissed \/ RegisterRefused \/ Unregistered \/ RegisteredFake
           \/ AutoReregTimer
    PROVE  Untouched /\ GhostsOK
<1> USE DEF GhostsOK
<1>0. acc \in Account /\ cached \in BOOLEAN /\ failed \in BOOLEAN /\ events \in 0..MaxEvents
    BY DEF TypeOK
<1>1. CASE ResolveFails
    <2> DEFINE n == acc.resolving - 1
    <2>1. n \in 0..MaxResolves
        BY <1>0, <1>1, RecoveryBounds DEF RecoveryBounds, ResolveFails, Account
    <2> HIDE DEF n
    <2>2. /\ [acc EXCEPT !.resolving = n, !.reg = "ERROR"] \in Account
          /\ Same(acc, [acc EXCEPT !.resolving = n, !.reg = "ERROR"])
        BY <1>0, <2>1, ZenonT(30) DEF Account, RegistrationStates, Same
    <2>3. QED
        BY <1>0, <1>1, <2>2 DEF ResolveFails, Untouched, n
<1>2. CASE RegisterThrows
    <2> DEFINE a == [acc EXCEPT !.resolving = @ - 1]
    <2>1. a \in Account /\ Same(acc, a)
        BY <1>0, <1>2, RecoveryBounds DEF RecoveryBounds, RegisterThrows, Same, Account
    <2> HIDE DEF a
    <2>2. Switched(a) \in Account /\ Same(acc, Switched(a))
        BY <2>1, TransportRecord DEF Same
    <2>3. [a EXCEPT !.reg = "ERROR"] \in Account /\ Same(acc, [a EXCEPT !.reg = "ERROR"])
        BY <2>1 DEF Account, RegistrationStates, Same
    <2>4. /\ [Switched(a) EXCEPT !.bRegister = TRUE, !.reg = "ERROR"] \in Account
          /\ Same(acc, [Switched(a) EXCEPT !.bRegister = TRUE, !.reg = "ERROR"])
        BY <2>2, ZenonT(30) DEF Account, RegistrationStates, Same
    <2>5. acc' \in {[a EXCEPT !.reg = "ERROR"], Switched(a),
                    [Switched(a) EXCEPT !.bRegister = TRUE, !.reg = "ERROR"]}
        BY <1>2 DEF RegisterThrows, a
    <2>6. QED
        BY <1>0, <1>2, <2>2, <2>3, <2>4, <2>5 DEF RegisterThrows, Untouched
<1>3. CASE SendRegister
    <2> DEFINE a == [Switched(acc) EXCEPT !.resolving = @ - 1]
               b == [a EXCEPT !.bRegister = TRUE, !.reg = "TRYING", !.sending = "sent",
                              !.via = "live"]
    <2>0. Switched(acc) \in Account /\ Same(acc, Switched(acc))
        BY <1>0, TransportRecord
    <2>1. a \in Account /\ Same(acc, a)
        <3>1. Switched(acc).resolving = acc.resolving
            BY <1>0 DEF Switched, Account
        <3>2. Switched(acc).resolving - 1 \in 0..MaxResolves
            BY <1>0, <1>3, <3>1, RecoveryBounds DEF RecoveryBounds, SendRegister, Account
        <3>3. QED
            BY <2>0, <3>2 DEF Account, Same
    <2> HIDE DEF a
    <2>2. b \in Account /\ Same(acc, b)
        BY <2>1, ZenonT(30) DEF Account, RegistrationStates, Transports, Same
    <2>3. acc' \in {a, b}
        BY <1>3 DEF SendRegister, a
    <2>4. QED
        BY <1>0, <1>3, <2>1, <2>2, <2>3 DEF SendRegister, Untouched
<1>4. CASE SetRegistrationInfo
    BY <1>0, <1>4, ZenonT(30) DEF SetRegistrationInfo, Untouched, Same, Account
<1>5. CASE AnswerMissed
    BY <1>0, <1>5 DEF AnswerMissed, Untouched, Same, Account
<1>6. CASE RegisterRefused
    <2> DEFINE a == [acc EXCEPT !.regc = "none"]
    <2>1. a \in Account /\ Same(acc, a)
        BY <1>0 DEF Account, Same
    <2> HIDE DEF a
    <2>2. /\ [a EXCEPT !.reg = "ERROR_AUTH"] \in Account
          /\ Same(acc, [a EXCEPT !.reg = "ERROR_AUTH"])
          /\ [a EXCEPT !.reg = "ERROR"] \in Account
          /\ Same(acc, [a EXCEPT !.reg = "ERROR"])
        BY <2>1 DEF Account, RegistrationStates, Same
    <2>3. /\ ScheduleReregistration([a EXCEPT !.reg = "ERROR"]) \in Account
          /\ Same(acc, ScheduleReregistration([a EXCEPT !.reg = "ERROR"]))
        BY <2>2, RetryRecord, ZenonT(30) DEF Same
    <2>4. QED
        BY <1>0, <1>6, <2>2, <2>3 DEF RegisterRefused, Untouched, a
<1>7. CASE Unregistered
    <2> DEFINE a == ResetAutoRegistration(acc)
    <2>1. a \in Account /\ Same(acc, a)
        BY <1>0, RetryRecord
    <2> HIDE DEF a
    <2>2. /\ [a EXCEPT !.regc = "none", !.reg = "UNREGISTERED"] \in Account
          /\ Same(acc, [a EXCEPT !.regc = "none", !.reg = "UNREGISTERED"])
        BY <2>1, ZenonT(30) DEF Account, RegistrationStates, Same
    <2>3. QED
        BY <1>0, <1>7, <2>2 DEF Unregistered, Untouched, a
<1>8. CASE RegisteredFake
    <2> DEFINE a == ResetAutoRegistration(acc)
    <2>1. a \in Account /\ Same(acc, a)
        BY <1>0, RetryRecord
    <2> HIDE DEF a
    <2>2. /\ [a EXCEPT !.regc = "idle", !.reg = "ERROR_AUTH"] \in Account
          /\ Same(acc, [a EXCEPT !.regc = "idle", !.reg = "ERROR_AUTH"])
        BY <2>1, ZenonT(30) DEF Account, RegistrationStates, Same
    <2>3. QED
        BY <1>0, <1>8, <2>2 DEF RegisteredFake, Untouched, a
<1>9. CASE AutoReregTimer
    <2> DEFINE a == [acc EXCEPT !.timer = FALSE]
    <2>1. a \in Account /\ Same(acc, a)
        BY <1>0, ZenonT(30) DEF Account, Same
    <2> HIDE DEF a
    <2>2. DoRegister(a) \in Account /\ Same(acc, DoRegister(a))
        BY <2>1, DoRegisterRecord DEF Same
    <2>3. QED
        BY <1>0, <1>9, <2>1, <2>2 DEF AutoReregTimer, Untouched, a
<1>10. QED
    BY <1>1, <1>2, <1>3, <1>4, <1>5, <1>6, <1>7, <1>8, <1>9

(* Time, PJSIP's refresh and the client. *)
LEMMA OutsideSteps ==
    ASSUME TypeOK,
           RefreshRegistration \/ DebounceExpires \/ ClientRegister \/ ClientUnregister
    PROVE  Untouched /\ GhostsOK
<1> USE DEF GhostsOK
<1>0. acc \in Account /\ cached \in BOOLEAN /\ failed \in BOOLEAN /\ events \in 0..MaxEvents
    BY DEF TypeOK
<1>i. Intervene => events' \in 0..MaxEvents
    BY <1>0, RecoveryBounds DEF Intervene, RecoveryBounds
<1>1. CASE RefreshRegistration
    BY <1>0, <1>1, <1>i DEF RefreshRegistration, Untouched, Same, Account
<1>2. CASE DebounceExpires
    BY <1>0, <1>2, ZenonT(30) DEF DebounceExpires, Untouched, Same, Account
<1>3. CASE ClientRegister
    <2> DEFINE a == [acc EXCEPT !.usable = TRUE]
    <2>1. a \in Account /\ Same(acc, a)
        BY <1>0, ZenonT(30) DEF Account, Same
    <2> HIDE DEF a
    <2>2. DoRegister(a) \in Account /\ Same(acc, DoRegister(a))
        BY <2>1, DoRegisterRecord DEF Same
    <2>3. QED
        BY <1>0, <1>3, <1>i, <2>2 DEF ClientRegister, Untouched, a
<1>4. CASE ClientUnregister
    <2> DEFINE a == [acc EXCEPT !.usable = FALSE, !.bRegister = FALSE]
    <2>1. a \in Account /\ Same(acc, a)
        BY <1>0, ZenonT(30) DEF Account, Same
    <2> HIDE DEF a
    <2>2. /\ [a EXCEPT !.reg = "UNREGISTERED"] \in Account
          /\ Same(acc, [a EXCEPT !.reg = "UNREGISTERED"])
          /\ [a EXCEPT !.reg = "ERROR"] \in Account
          /\ Same(acc, [a EXCEPT !.reg = "ERROR"])
        BY <2>1 DEF Account, RegistrationStates, Same
    <2>3. /\ [a EXCEPT !.regc = "none", !.reg = "UNREGISTERED"] \in Account
          /\ Same(acc, [a EXCEPT !.regc = "none", !.reg = "UNREGISTERED"])
          /\ [a EXCEPT !.regc = "leaving"] \in Account
          /\ Same(acc, [a EXCEPT !.regc = "leaving"])
        BY <2>1, ZenonT(30) DEF Account, RegistrationStates, Same
    <2>4. acc' \in {[a EXCEPT !.reg = "UNREGISTERED"], [a EXCEPT !.reg = "ERROR"],
                    [a EXCEPT !.regc = "none", !.reg = "UNREGISTERED"], [a EXCEPT !.regc = "leaving"]}
        BY <1>4 DEF ClientUnregister, a
    <2>5. QED
        BY <1>0, <1>4, <1>i, <2>2, <2>3, <2>4 DEF ClientUnregister, Untouched
<1>5. QED
    BY <1>1, <1>2, <1>3, <1>4

(* A REGISTER that could not be delivered and a keep-alive that could not  *)
(* be sent ask for a recovery, and may be refused.                         *)
LEMMA FailureSteps ==
    ASSUME TypeOK, RegisterTransportError \/ KeepAliveSendFailure
    PROVE  (Untouched \/ TakenOn) /\ GhostsOK
<1> USE DEF GhostsOK
<1>0. acc \in Account /\ cached \in BOOLEAN /\ failed \in BOOLEAN /\ events \in 0..MaxEvents
    BY DEF TypeOK
<1>i. Intervene => events' \in 0..MaxEvents
    BY <1>0, RecoveryBounds DEF Intervene, RecoveryBounds
<1>1. CASE RegisterTransportError
    <2> DEFINE a == [acc EXCEPT !.regc = "none"]
               e == [a EXCEPT !.reg = "ERROR"]
    <2>1. a \in Account /\ Same(acc, a)
        BY <1>0 DEF Account, Same
    <2>2. e \in Account /\ Same(acc, e)
        BY <1>0, ZenonT(30) DEF Account, RegistrationStates, Same
    <2> HIDE DEF a, e
    <2>3. /\ ScheduleReregistration(e) \in Account /\ Same(acc, ScheduleReregistration(e))
          /\ Scheduled(a) \in Account /\ Scheduled(a).pending
          /\ Scheduled(a).requested = acc.requested /\ Scheduled(a).afterReg = acc.afterReg
        BY <2>1, <2>2, RetryRecord, ScheduledRecord DEF Same
    <2>4. \/ Schedules(a, TRUE) /\ acc' = Scheduled(a) /\ tasks' = Append(tasks, "recover")
          \/ acc' \in {e, ScheduleReregistration(e)} /\ tasks' = tasks
        BY <1>1, ZenonT(30) DEF RegisterTransportError, ScheduleRecovery, a, e
    <2>5. Schedules(a, TRUE) => ~ acc.pending
        BY <2>1 DEF Schedules, Same
    <2>6. UNCHANGED <<cached, main, api, sip, owed, given, failed, events>>
        BY <1>1 DEF RegisterTransportError
    <2>7. QED
        BY <1>0, <2>2, <2>3, <2>4, <2>5, <2>6, ZenonT(30) DEF Untouched, TakenOn
<1>2. CASE KeepAliveSendFailure
    <2> DEFINE e == [acc EXCEPT !.reg = "ERROR"]
    <2>1. e \in Account /\ Same(acc, e) /\ Same(acc, acc)
        BY <1>0 DEF Account, RegistrationStates, Same
    <2> HIDE DEF e
    <2>2. /\ ScheduleReregistration(e) \in Account /\ Same(acc, ScheduleReregistration(e))
          /\ Scheduled(acc) \in Account /\ Scheduled(acc).pending
          /\ Scheduled(acc).requested = acc.requested /\ Scheduled(acc).afterReg = acc.afterReg
        BY <1>0, <2>1, RetryRecord, ScheduledRecord DEF Same
    <2>3. \/ Schedules(acc, TRUE) /\ acc' = Scheduled(acc) /\ tasks' = Append(tasks, "recover")
          \/ acc' \in {acc, ScheduleReregistration(e)} /\ tasks' = tasks
        BY <1>2, ZenonT(30) DEF KeepAliveSendFailure, ScheduleRecovery, e
    <2>4. Schedules(acc, TRUE) => ~ acc.pending
        BY DEF Schedules
    <2>5. UNCHANGED <<cached, main, api, sip, owed, given, failed>> /\ Intervene
        BY <1>2 DEF KeepAliveSendFailure
    <2>6. QED
        BY <1>0, <1>i, <2>1, <2>2, <2>3, <2>4, <2>5, ZenonT(30) DEF Untouched, TakenOn
<1>3. QED
    BY <1>1, <1>2

(* Either way the invariant stays. *)
LEMMA UntouchedKeeps ==
    ASSUME IInv, Untouched \/ TakenOn, GhostsOK
    PROVE  IInv'
<1>0. tasks \in Seq(Tasks)
    BY DEF IInv, TypeOK, Tasks
<1>1. TypeOK'
    <2>1. tasks' \in Seq(Tasks)
        BY <1>0 DEF Untouched, TakenOn, Tasks
    <2>2. acc' \in Account /\ UNCHANGED <<main, api, sip, owed, given>>
        BY DEF Untouched, TakenOn
    <2>3. QED
        BY <2>1, <2>2 DEF IInv, TypeOK, GhostsOK, Tasks
<1>2. QueueInv'
    <2>1. CASE Untouched
        BY <2>1 DEF IInv, QueueInv, Untouched, Same
    <2>2. CASE TakenOn
        <3>1. ~ HasRecover(tasks)
            BY <2>2 DEF IInv, QueueInv, TakenOn
        <3>2. HasRecover(tasks)' /\ AtMostOne(tasks)'
            BY <1>0, <2>2, <3>1, AppendRecover DEF TakenOn
        <3>3. QED
            BY <2>2, <3>2 DEF QueueInv, TakenOn
    <2>3. QED
        BY <2>1, <2>2
<1>3. RequestInv' /\ OwedInv'
    BY DEF IInv, RequestInv, OwedInv, Untouched, TakenOn, Same
<1>4. QED
    BY <1>1, <1>2, <1>3 DEF IInv

----------------------------------------------------------------------------
(* The steps of a recovery *)

(* connectivityChanged *)
LEMMA ApiSteps ==
    ASSUME IInv, ConnectivityChanged \/ ApiPrepare \/ ApiResetBroker \/ ApiDispatch
    PROVE  IInv'
<1>0. /\ acc \in Account /\ tasks \in Seq(Tasks) /\ TypeOK /\ QueueInv /\ RequestInv /\ OwedInv
      /\ events \in 0..MaxEvents
    BY DEF IInv, TypeOK, Tasks
<1>1. CASE ConnectivityChanged
    <2>1. events' \in 0..MaxEvents
        BY <1>0, <1>1, RecoveryBounds DEF ConnectivityChanged, Intervene, RecoveryBounds
    <2>2. TypeOK'
        BY <1>0, <1>1, <2>1 DEF ConnectivityChanged, TypeOK
    <2>3. QueueInv' /\ RequestInv' /\ OwedInv'
        BY <1>0, <1>1 DEF ConnectivityChanged, QueueInv, RequestInv, OwedInv
    <2>4. QED
        BY <2>2, <2>3 DEF IInv
<1>2. CASE ApiPrepare
    <2>1. acc' \in Account /\ acc'.pending = acc.pending /\ acc'.afterReg = acc.afterReg
        BY <1>0, <1>2, PrepareRecord DEF ApiPrepare
    <2>2. TypeOK'
        BY <1>0, <1>2, <2>1 DEF ApiPrepare, TypeOK, Account
    <2>3. QueueInv' /\ RequestInv' /\ OwedInv'
        BY <1>0, <1>2, <2>1 DEF ApiPrepare, QueueInv, RequestInv, OwedInv
    <2>4. QED
        BY <2>2, <2>3 DEF IInv
<1>3. CASE ApiResetBroker
    <2>1. acc' \in Account /\ Same(acc, acc')
        BY <1>0, <1>3, TransportRecord DEF ApiResetBroker
    <2>2. TypeOK'
        BY <1>0, <1>3, <2>1, ZenonT(30) DEF ApiResetBroker, TypeOK
    <2>3. QueueInv' /\ RequestInv' /\ OwedInv'
        BY <1>0, <1>3, <2>1 DEF ApiResetBroker, QueueInv, RequestInv, OwedInv, Same
    <2>4. QED
        BY <2>2, <2>3 DEF IInv
<1>4. CASE ApiDispatch
    <2>1. CASE Schedules(acc, FALSE)
        <3>1. ~ acc.pending /\ acc' = Scheduled(acc) /\ tasks' = Append(tasks, "recover")
            BY <1>4, <2>1 DEF ApiDispatch, ScheduleRecovery, Schedules
        <3>2. acc' \in Account /\ acc'.pending
            BY <1>0, <3>1, ScheduledRecord
        <3>3. TypeOK'
            BY <1>0, <1>4, <3>1, <3>2 DEF ApiDispatch, TypeOK, Account, Tasks
        <3>4. QueueInv'
            BY <1>0, <3>1, <3>2, AppendRecover DEF QueueInv
        <3>5. RequestInv' /\ OwedInv'
            BY <3>2 DEF RequestInv, OwedInv
        <3>6. QED
            BY <3>3, <3>4, <3>5 DEF IInv
    <2>2. CASE ~ Schedules(acc, FALSE)
        <3>1. acc' = acc /\ tasks' = tasks /\ (acc.pending \/ given')
            BY <1>4, <2>2, ZenonT(30) DEF ApiDispatch, ScheduleRecovery, Schedules
        <3>2. TypeOK'
            BY <1>0, <1>4, <3>1 DEF ApiDispatch, TypeOK, Account
        <3>3. QueueInv' /\ RequestInv' /\ OwedInv'
            BY <1>0, <3>1 DEF QueueInv, RequestInv, OwedInv
        <3>4. QED
            BY <3>2, <3>3 DEF IInv
    <2>3. QED
        BY <2>1, <2>2, ZenonT(30)
<1>5. QED
    BY <1>1, <1>2, <1>3, <1>4

(* recoverTransport, from its start to the registration it begins *)
LEMMA RecoverSteps ==
    ASSUME IInv, RecoverTransport \/ RecoverSwitches \/ RecoverFails \/ RecoverFinishes
    PROVE  IInv'
<1>0. acc \in Account /\ tasks \in Seq(Tasks) /\ TypeOK /\ QueueInv /\ RequestInv /\ OwedInv
    BY DEF IInv, TypeOK, Tasks
<1>1. CASE RecoverTransport
    <2> DEFINE a == [acc EXCEPT !.pending = FALSE, !.requested = FALSE]
               p == PrepareTransportReset(a)
    <2>1. a \in Account /\ ~ a.pending /\ ~ a.requested
        BY <1>0, ZenonT(30) DEF Account
    <2>2. p \in Account /\ ~ p.pending /\ ~ p.requested
        BY <2>1, PrepareRecord, ZenonT(30) DEF Same
    <2>3. /\ acc' \in {[a EXCEPT !.resetDone = FALSE, !.inProgress = TRUE],
                       [p EXCEPT !.inProgress = TRUE], [a EXCEPT !.inProgress = FALSE]}
          /\ main' = "switch" \/ given'
          /\ main' \in {"switch", main} /\ given' \in {TRUE, given}
        BY <1>1, ZenonT(30) DEF RecoverTransport
    <2> HIDE DEF a, p
    <2>4. acc' \in Account /\ ~ acc'.pending /\ ~ acc'.requested
        <3>1. CASE acc' = [a EXCEPT !.resetDone = FALSE, !.inProgress = TRUE]
            BY <2>1, <3>1, ZenonT(30) DEF Account
        <3>2. CASE acc' = [p EXCEPT !.inProgress = TRUE]
            BY <2>2, <3>2, ZenonT(30) DEF Account
        <3>3. CASE acc' = [a EXCEPT !.inProgress = FALSE]
            BY <2>1, <3>3, ZenonT(30) DEF Account
        <3>4. QED
            BY <2>3, <3>1, <3>2, <3>3
    <2>5. tasks # <<>> /\ Head(tasks) = "recover" /\ tasks' = Tail(tasks)
        BY <1>1 DEF RecoverTransport, NextTask
    <2>6. tasks' \in Seq(Tasks) /\ AtMostOne(tasks') /\ ~ HasRecover(tasks')
        BY <1>0, <2>5, TakeHead DEF QueueInv
    <2>7. TypeOK'
        BY <1>0, <1>1, <2>3, <2>4, <2>6, ZenonT(30) DEF RecoverTransport, TypeOK, Tasks
    <2>8. QueueInv'
        BY <2>4, <2>6 DEF QueueInv
    <2>9. RequestInv' /\ OwedInv'
        BY <2>3, <2>4 DEF RequestInv, OwedInv
    <2>10. QED
        BY <2>7, <2>8, <2>9 DEF IInv
<1>2. CASE RecoverSwitches
    <2> DEFINE a == [Switched(acc) EXCEPT !.afterReg = TRUE]
    <2>1. Switched(acc) \in Account /\ Same(acc, Switched(acc))
        BY <1>0, TransportRecord
    <2>2. a \in Account /\ a.afterReg /\ a.pending = acc.pending /\ a.requested = acc.requested
        BY <2>1, ZenonT(30) DEF Account, Same
    <2> HIDE DEF a
    <2>3. acc' = DoRegister(a)
        BY <1>2 DEF RecoverSwitches, a
    <2>4. acc' \in Account /\ acc'.afterReg /\ acc'.pending = acc.pending
          /\ acc'.requested = acc.requested
        BY <2>2, <2>3, DoRegisterRecord DEF Same
    <2>5. TypeOK'
        BY <1>0, <1>2, <2>4 DEF RecoverSwitches, TypeOK
    <2>6. QueueInv' /\ RequestInv' /\ OwedInv'
        BY <1>0, <1>2, <2>4 DEF RecoverSwitches, QueueInv, RequestInv, OwedInv
    <2>7. QED
        BY <2>5, <2>6 DEF IInv
<1>3. CASE RecoverFails
    <2>1. /\ acc' \in Account /\ acc'.afterReg /\ acc'.pending = acc.pending
          /\ acc'.requested = acc.requested
        BY <1>0, <1>3, ZenonT(30) DEF RecoverFails, Account, RegistrationStates
    <2>2. TypeOK'
        BY <1>0, <1>3, <2>1 DEF RecoverFails, TypeOK
    <2>3. QueueInv' /\ RequestInv' /\ OwedInv'
        BY <1>0, <1>3, <2>1 DEF RecoverFails, QueueInv, RequestInv, OwedInv
    <2>4. QED
        BY <2>2, <2>3 DEF IInv
<1>4. CASE RecoverFinishes
    <2>1. acc' \in Account /\ Same(acc, acc')
        BY <1>0, <1>4, ZenonT(30) DEF RecoverFinishes, Account, Same
    <2>2. TypeOK'
        BY <1>0, <1>4, <2>1 DEF RecoverFinishes, TypeOK
    <2>3. QueueInv' /\ RequestInv' /\ OwedInv'
        BY <1>0, <1>4, <2>1 DEF RecoverFinishes, QueueInv, RequestInv, OwedInv, Same
    <2>4. QED
        BY <2>2, <2>3 DEF IInv
<1>5. QED
    BY <1>1, <1>2, <1>3, <1>4

(* The request that came during the recovery, at the end of recoverTransport *)
LEMMA AgainSteps ==
    ASSUME IInv, RecoverAgain \/ RecoverDispatches
    PROVE  IInv'
<1>0. acc \in Account /\ tasks \in Seq(Tasks) /\ TypeOK /\ QueueInv /\ RequestInv /\ OwedInv
    BY DEF IInv, TypeOK, Tasks
<1>1. CASE RecoverAgain
    <2> DEFINE a == IF acc.usable THEN [acc EXCEPT !.requested = FALSE] ELSE acc
    <2>1. /\ a \in Account /\ a.pending = acc.pending /\ a.afterReg = acc.afterReg
          /\ a.requested => acc.requested
        <3> DEFINE b == [acc EXCEPT !.requested = FALSE]
        <3>1. /\ b \in Account /\ b.pending = acc.pending /\ b.afterReg = acc.afterReg
              /\ b.requested = FALSE
            BY <1>0, ZenonT(30) DEF Account
        <3> HIDE DEF b
        <3>2. a = b \/ a = acc
            BY DEF b
        <3>3. QED
            BY <1>0, <3>1, <3>2, ZenonT(30)
    <2> DEFINE redo == acc.usable /\ acc.requested /\ ShouldHandleConnectivityChange(a)
    <2>2. PICK failing \in BOOLEAN :
              /\ main = IF failing THEN "failAgain" ELSE "again"
              /\ main' = IF ~redo THEN "idle" ELSE IF failing THEN "failDispatch" ELSE "dispatch"
              /\ acc' = IF redo THEN PrepareConnectivityRecovery(a) ELSE Return(a, failing)
              /\ owed' = (owed \/ redo)
              /\ UNCHANGED <<cached, tasks, api, sip, given, failed, events>>
        BY <1>1, Zenon DEF RecoverAgain
    <2> HIDE DEF a, redo
    <2>3. CASE redo
        <3>1. acc' \in Account /\ acc'.pending = acc.pending
            BY <2>1, <2>2, <2>3, PrepareRecord
        <3>2. main' \in {"dispatch", "failDispatch"} /\ owed' \in BOOLEAN
            BY <1>0, <2>2, <2>3 DEF TypeOK
        <3>3. TypeOK'
            BY <1>0, <2>2, <3>1, <3>2 DEF TypeOK
        <3>4. QueueInv' /\ RequestInv' /\ OwedInv'
            BY <1>0, <2>2, <3>1, <3>2 DEF QueueInv, RequestInv, OwedInv
        <3>5. QED
            BY <3>3, <3>4 DEF IInv
    <2>4. CASE ~ redo
        <3>1. acc' = Return(a, failing)
            BY <2>2, <2>4
        <3>2. /\ acc' \in Account /\ acc'.pending = acc.pending /\ acc'.afterReg = acc.afterReg
              /\ acc'.requested => acc.requested
            BY <2>1, <3>1, ReturnRecord DEF Same
        <3>3. main' = "idle" /\ owed' = owed /\ main \in {"again", "failAgain"}
            BY <1>0, <2>2, <2>4 DEF TypeOK
        <3>4. TypeOK'
            BY <1>0, <2>2, <3>2, <3>3 DEF TypeOK
        <3>5. QueueInv' /\ RequestInv' /\ OwedInv'
            BY <1>0, <2>2, <3>2, <3>3 DEF QueueInv, RequestInv, OwedInv
        <3>6. QED
            BY <3>4, <3>5 DEF IInv
    <2>5. QED
        BY <2>3, <2>4
<1>2. CASE RecoverDispatches
    <2>1. PICK failing \in BOOLEAN :
              /\ main = IF failing THEN "failDispatch" ELSE "dispatch"
              /\ main' = "idle"
              /\ IF Schedules(acc, FALSE)
                 THEN acc' = Return(Scheduled(acc), failing) /\ tasks' = Append(tasks, "recover")
                 ELSE acc' = Return(acc, failing) /\ tasks' = tasks
              /\ given' = (given \/ ~acc.usable)
              /\ UNCHANGED <<cached, api, sip, owed, failed, events>>
        BY <1>2, Zenon DEF RecoverDispatches
    <2>2. CASE Schedules(acc, FALSE)
        <3>1. Scheduled(acc) \in Account /\ Scheduled(acc).pending
            BY <1>0, ScheduledRecord
        <3>2. acc' \in Account /\ acc'.pending
            BY <2>1, <2>2, <3>1, ReturnRecord DEF Same
        <3>3. ~ acc.pending
            BY <2>2 DEF Schedules
        <3>4. tasks' = Append(tasks, "recover") /\ given' \in BOOLEAN
            BY <1>0, <2>1, <2>2 DEF TypeOK
        <3>5. TypeOK'
            BY <1>0, <2>1, <3>2, <3>4 DEF TypeOK, Tasks
        <3>6. QueueInv'
            BY <1>0, <3>2, <3>3, <3>4, AppendRecover DEF QueueInv
        <3>7. RequestInv' /\ OwedInv'
            BY <3>2 DEF RequestInv, OwedInv
        <3>8. QED
            BY <3>5, <3>6, <3>7 DEF IInv
    <2>3. CASE ~ Schedules(acc, FALSE)
        <3>1. acc' \in Account /\ Same(acc, acc') /\ tasks' = tasks
            BY <1>0, <2>1, <2>3, ReturnRecord
        <3>2. (acc.pending \/ given') /\ given' \in BOOLEAN
            BY <1>0, <2>1, <2>3, ZenonT(30) DEF Schedules, TypeOK
        <3>3. TypeOK'
            BY <1>0, <2>1, <3>1, <3>2 DEF TypeOK
        <3>4. QueueInv' /\ RequestInv' /\ OwedInv'
            BY <1>0, <3>1, <3>2 DEF QueueInv, RequestInv, OwedInv, Same
        <3>5. QED
            BY <3>3, <3>4 DEF IInv
    <2>4. QED
        BY <2>2, <2>3, ZenonT(30)
<1>3. QED
    BY <1>1, <1>2

(* A transport goes down, and the main thread hears of it *)
LEMMA DownSteps ==
    ASSUME IInv, TransportLost \/ OnTransportDown
    PROVE  IInv'
<1>0. /\ acc \in Account /\ tasks \in Seq(Tasks) /\ TypeOK /\ QueueInv /\ RequestInv /\ OwedInv
      /\ events \in 0..MaxEvents
    BY DEF IInv, TypeOK, Tasks
<1>1. CASE TransportLost
    <2>1. acc' \in Account /\ Same(acc, acc')
        BY <1>0, <1>1, TransportRecord DEF TransportLost
    <2>2. events' \in 0..MaxEvents
        BY <1>0, <1>1, RecoveryBounds DEF TransportLost, Intervene, RecoveryBounds
    <2>3. tasks' = tasks \/ tasks' = Append(tasks, "down")
        BY <1>1 DEF TransportLost
    <2>4. /\ tasks' \in Seq(Tasks) /\ AtMostOne(tasks')
          /\ HasRecover(tasks') <=> HasRecover(tasks)
        <3>1. Append(tasks, "down") \in Seq(Tasks)
            BY <1>0 DEF Tasks
        <3>2. QED
            BY <1>0, <2>3, <3>1, AppendDown, ZenonT(30) DEF QueueInv
    <2>5. TypeOK'
        BY <1>0, <1>1, <2>1, <2>2, <2>4, ZenonT(30) DEF TransportLost, TypeOK, Tasks
    <2>6. QueueInv' /\ RequestInv' /\ OwedInv'
        BY <1>0, <1>1, <2>1, <2>4 DEF TransportLost, QueueInv, RequestInv, OwedInv, Same
    <2>7. QED
        BY <2>5, <2>6 DEF IInv
<1>2. CASE OnTransportDown
    <2> DEFINE rest == Tail(tasks)
    <2>1. tasks # <<>> /\ Head(tasks) = "down"
        BY <1>2 DEF OnTransportDown, NextTask
    <2>2. rest \in Seq(Tasks) /\ AtMostOne(rest) /\ (HasRecover(rest) <=> HasRecover(tasks))
        BY <1>0, <2>1, TakeHead DEF QueueInv
    <2>3. failed' \in BOOLEAN
        BY <1>0, <1>2 DEF OnTransportDown, TypeOK
    <2>4. CASE Schedules(acc, TRUE)
        <3>1. ~ acc.pending /\ acc' = Scheduled(acc) /\ tasks' = Append(rest, "recover")
            BY <1>2, <2>4 DEF OnTransportDown, Schedules
        <3> HIDE DEF rest
        <3>2. acc' \in Account /\ acc'.pending
            BY <1>0, <3>1, ScheduledRecord
        <3>3. tasks' \in Seq(Tasks)
            BY <2>2, <3>1 DEF Tasks
        <3>4. TypeOK'
            BY <1>0, <1>2, <2>3, <3>2, <3>3 DEF OnTransportDown, TypeOK, Tasks
        <3>5. QueueInv'
            BY <1>0, <2>2, <3>1, <3>2, AppendRecover DEF QueueInv
        <3>6. RequestInv' /\ OwedInv'
            BY <3>2 DEF RequestInv, OwedInv
        <3>7. QED
            BY <3>4, <3>5, <3>6 DEF IInv
    <2>5. CASE ~ Schedules(acc, TRUE)
        <3>1. acc' = [acc EXCEPT !.reg = "ERROR"] /\ tasks' = rest
            BY <1>2, <2>5 DEF OnTransportDown
        <3> HIDE DEF rest
        <3>2. acc' \in Account /\ Same(acc, acc')
            BY <1>0, <3>1 DEF Account, RegistrationStates, Same
        <3>3. TypeOK'
            BY <1>0, <1>2, <2>2, <2>3, <3>1, <3>2 DEF OnTransportDown, TypeOK, Tasks
        <3>4. QueueInv' /\ RequestInv' /\ OwedInv'
            BY <1>0, <1>2, <2>2, <3>1, <3>2
            DEF OnTransportDown, QueueInv, RequestInv, OwedInv, Same
        <3>5. QED
            BY <3>3, <3>4 DEF IInv
    <2>6. QED
        BY <2>4, <2>5, ZenonT(30)
<1>3. QED
    BY <1>1, <1>2

(* A 2xx to REGISTER, and the re-INVITEs it releases *)
LEMMA ReinviteSteps ==
    ASSUME IInv, Registered \/ ReinviteActiveCalls
    PROVE  IInv'
<1>0. acc \in Account /\ tasks \in Seq(Tasks) /\ TypeOK /\ QueueInv /\ RequestInv /\ OwedInv
    BY DEF IInv, TypeOK, Tasks
<1>1. CASE Registered
    <2> DEFINE a == ResetAutoRegistration(acc)
               b == a.rebind /\ acc.transport = "none"
    <2>1. a \in Account /\ Same(acc, a)
        BY <1>0, RetryRecord
    <2>2. acc' = [a EXCEPT !.regc = "idle", !.reg = "REGISTERED", !.rebind = b, !.afterReg = FALSE]
        BY <1>1 DEF Registered
    <2>3. b \in BOOLEAN
        OBVIOUS
    <2> HIDE DEF a, b
    <2> DEFINE c == [a EXCEPT !.regc = "idle", !.reg = "REGISTERED"]
    <2>c. c \in Account /\ c.pending = a.pending /\ c.requested = a.requested
        BY <2>1, ZenonT(30) DEF Account, RegistrationStates
    <2>e. acc' = [c EXCEPT !.rebind = b, !.afterReg = FALSE]
        BY <2>2
    <2> HIDE DEF c
    <2>t. acc' \in Account
        BY <2>3, <2>c, <2>e, ZenonT(30) DEF Account
    <2>f. acc'.pending = c.pending /\ acc'.requested = c.requested
        BY <2>c, <2>e DEF Account
    <2>4. acc' \in Account /\ acc'.pending = acc.pending /\ acc'.requested = acc.requested
        BY <2>1, <2>c, <2>t, <2>f DEF Same
    <2>5. sip' \in {"idle", "reinvite"} /\ (acc.afterReg => sip' = "reinvite") /\ sip = "idle"
        BY <1>1 DEF Registered
    <2>6. TypeOK'
        BY <1>0, <1>1, <2>4, <2>5 DEF Registered, TypeOK
    <2>7. QueueInv' /\ RequestInv' /\ OwedInv'
        BY <1>0, <1>1, <2>4, <2>5 DEF Registered, QueueInv, RequestInv, OwedInv
    <2>8. QED
        BY <2>6, <2>7 DEF IInv
<1>2. CASE ReinviteActiveCalls
    <2> DEFINE b == acc.afterReg \/ acc.transport = "none"
    <2>a. acc' = [acc EXCEPT !.afterReg = b]
        BY <1>2 DEF ReinviteActiveCalls
    <2>b. b \in BOOLEAN /\ (acc.transport = "none" => b)
        OBVIOUS
    <2> HIDE DEF b
    <2>1. /\ acc' \in Account /\ acc'.pending = acc.pending /\ acc'.requested = acc.requested
          /\ acc.transport = "none" => acc'.afterReg
        BY <1>0, <2>a, <2>b DEF Account
    <2>2. owed' \in BOOLEAN /\ (owed' => acc.transport = "none")
        BY <1>0, <1>2, ZenonT(30) DEF ReinviteActiveCalls, TypeOK
    <2>3. TypeOK'
        BY <1>0, <1>2, <2>1, <2>2 DEF ReinviteActiveCalls, TypeOK
    <2>4. QueueInv' /\ RequestInv' /\ OwedInv'
        BY <1>0, <1>2, <2>1, <2>2 DEF ReinviteActiveCalls, QueueInv, RequestInv, OwedInv
    <2>5. QED
        BY <2>3, <2>4 DEF IInv
<1>3. QED
    BY <1>1, <1>2

----------------------------------------------------------------------------
(* Results *)

(* Every step of the account keeps the inductive invariant. *)
THEOREM Inductive == Spec => []IInv
<1>1. Init => IInv
    <2> SUFFICES ASSUME Init PROVE IInv
        OBVIOUS
    <2>1. TypeOK
        <3>1. 0 \in 0..MaxResolves /\ 0 \in 0..MaxEvents
            BY RecoveryBounds DEF RecoveryBounds
        <3>2. acc \in Account
            BY <3>1 DEF Init, Account, Transports, RegistrationStates
        <3>3. tasks \in Seq(Tasks)
            BY DEF Init
        <3>4. QED
            BY <3>1, <3>2, <3>3, ZenonT(30) DEF Init, TypeOK, Tasks
    <2>2. QueueInv
        BY DEF Init, QueueInv, HasRecover, AtMostOne
    <2>3. RequestInv /\ OwedInv
        BY DEF Init, RequestInv, OwedInv
    <2>4. QED
        BY <2>1, <2>2, <2>3 DEF IInv
<1>2. IInv /\ [Next]_vars => IInv'
    <2> SUFFICES ASSUME IInv, [Next]_vars PROVE IInv'
        OBVIOUS
    <2>0. TypeOK
        BY DEF IInv
    <2>1. CASE UNCHANGED vars
        BY <2>1 DEF vars, IInv, TypeOK, QueueInv, RequestInv, OwedInv, HasRecover, AtMostOne
    <2>2. CASE ConnectivityChanged \/ ApiPrepare \/ ApiResetBroker \/ ApiDispatch
        BY <2>2, ApiSteps
    <2>3. CASE RecoverTransport \/ RecoverSwitches \/ RecoverFails \/ RecoverFinishes
        BY <2>3, RecoverSteps
    <2>4. CASE RecoverAgain \/ RecoverDispatches
        BY <2>4, AgainSteps
    <2>5. CASE TransportLost \/ OnTransportDown
        BY <2>5, DownSteps
    <2>6. CASE Registered \/ ReinviteActiveCalls
        BY <2>6, ReinviteSteps
    <2>7. CASE RegisterTransportError \/ KeepAliveSendFailure
        BY <2>0, <2>7, FailureSteps, UntouchedKeeps
    <2>8. CASE \/ ResolveFails \/ RegisterThrows \/ SendRegister \/ SetRegistrationInfo
               \/ AnswerMissed \/ RegisterRefused \/ Unregistered \/ RegisteredFake
               \/ AutoReregTimer
        BY <2>0, <2>8, RegistrationSteps, UntouchedKeeps
    <2>9. CASE RefreshRegistration \/ DebounceExpires \/ ClientRegister \/ ClientUnregister
        BY <2>0, <2>9, OutsideSteps, UntouchedKeeps
    <2>10. QED
        BY <2>1, <2>2, <2>3, <2>4, <2>5, <2>6, <2>7, <2>8, <2>9 DEF Next
<1>3. QED
    BY <1>1, <1>2, PTL DEF Spec

(* The account, the queue and the threads keep their types. *)
THEOREM TypeCorrect == Spec => []TypeOK
<1>1. IInv => TypeOK
    BY DEF IInv
<1>2. QED
    BY <1>1, Inductive, PTL

(* transportRecoveryPending_ is set exactly while one closure that runs    *)
(* recoverTransport is queued, whichever threads ask for a recovery.       *)
THEOREM PendingIsQueued == Spec => []PendingMeansQueued
<1>1. IInv => PendingMeansQueued
    BY DEF IInv, QueueInv, PendingMeansQueued, HasRecover, AtMostOne
<1>2. QED
    BY <1>1, Inductive, PTL

(* connectivityRecoveryRequested_ never stands with no recovery to come, as *)
(* long as the account stays usable.                                       *)
THEOREM NoRequestLost == Spec => []RequestIsServed
<1>1. IInv => RequestIsServed
    BY DEF IInv, RequestInv, RequestIsServed, Recovering
<1>2. QED
    BY <1>1, Inductive, PTL

(* Calls that a recovery cut off always have their re-INVITE to come: a     *)
(* recovery runs, or pendingReinviteAfterRegister_ waits for a 2xx.        *)
THEOREM NoReinviteLost == Spec => []OwedIsArmed
<1>1. IInv => OwedIsArmed
    BY DEF IInv, OwedInv, OwedIsArmed, Recovering
<1>2. QED
    BY <1>1, Inductive, PTL

============================================================================
