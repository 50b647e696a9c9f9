----------------------------- MODULE RouteFailover -----------------------------
(***************************************************************************)
(* The service routes of a SIPAccount (src/src/sip/sipaccount.cpp): the    *)
(* main route and its backups, the OPTIONS that watch them, the switch     *)
(* between routes and the registration it begins.                          *)
(*                                                                         *)
(* Threads: sip (PJSIP's timers, answers to OPTIONS and REGISTER), main    *)
(* (the executor: recoveries, and names PJSIP could not resolve) and api   *)
(* (clients).  What a thread still has to do is its program, a sequence of *)
(* instructions; a step is one instruction.  resolveSrvName blocks, so it  *)
(* is two of them, and its callback runs where it returns.  Callbacks wait *)
(* in SafeResolveCallbackMap, one per name.                                *)
(*                                                                         *)
(* The transports are the subject of TransportRecovery: here an account    *)
(* has one or none.  Route 0 is the service route (or the host itself),    *)
(* the backups are 1..Backups; address 0 is an address not resolved.       *)
(***************************************************************************)
EXTENDS Integers, Sequences

CONSTANTS
    Backups,       \* number of backup routes configured
    Accounts,      \* [topology, options]: the accounts to start from
    RawAttempts,   \* RAW_KEEPALIVE_RECOVERY_MAX_ATTEMPTS
    MaxFlight,     \* bound: OPTIONS of one kind under way
    MaxFaults      \* bound: failures and interventions

KeepAliveTopologies == {"NoRoute", "ServiceRoute", "ServiceRouteWithBackup"}

ASSUME RouteBounds ==
    /\ Backups \in Nat \ {0}
    /\ Accounts \subseteq [topology : KeepAliveTopologies, options : BOOLEAN]
    /\ RawAttempts \in Nat /\ MaxFlight \in Nat \ {0} /\ MaxFaults \in Nat

VARIABLES
    acc,     \* the members of SIPAccount
    calls,   \* SafeResolveCallbackMap: the callback waiting for each name
    flight,  \* OPTIONS under way, by kind
    tasks,   \* closures waiting for the main thread
    prog,    \* what each thread still has to do
    faults   \* failures and interventions so far

vars == <<acc, calls, flight, tasks, prog, faults>>

Names == 0..Backups
Threads == {"sip", "main", "api"}
Kinds == {"active", "main", "startup"}
Callbacks == {"register", "back", "probe"}

RegistrationStates == {"UNREGISTERED", "TRYING", "REGISTERED", "ERROR"}

(* What the properties below make allowance for. *)
Mishaps ==
    {"overlap",    \* two threads were at work at once
     "dropped",    \* a callback found another one waiting for its name
     "missed",     \* an answer to REGISTER came before setRegistrationInfo
     "unready",    \* a switch found the backups not all resolved
     "refused",    \* a switch found another one under way
     "unwatched"}  \* on a backup route, the probe of the main one was stopped

Account ==
    [topology : KeepAliveTopologies, options : BOOLEAN,
     usable : BOOLEAN,
     transport : BOOLEAN,      \* transport_ is set
     route : Names,            \* activeBackupRoute_.first, 0 while it is empty
     address : Names,          \* activeBackupRoute_.second: whose address it is
     idx : -1..Backups - 1,    \* activeBackupRouteIdx_
     ips : Seq(Names),         \* backServiceRouteIps_
     resolved : BOOLEAN,       \* serviceRouteIp_, hostIp_
     reg : RegistrationStates,
     regc : {"none", "waiting", "idle", "leaving"},
     via : Names,              \* the route of regc_
     available : BOOLEAN,      \* mainRouteAvailable_
     skip : BOOLEAN,           \* skipMainRouteStartupProbeOnce_
     startup : BOOLEAN,        \* startupMainRouteProbePending_
     switching : BOOLEAN,      \* routeSwitchPending_
     target : BOOLEAN,         \* kaTarget.length # 0
     timer : BOOLEAN,          \* kaTarget.timer
     pending : BOOLEAN,        \* ka_options_pending_
     fast : BOOLEAN,           \* activeNoRouteFastProbeEnabled_
     mainTarget : BOOLEAN,     \* kaMainRoute.length # 0
     mainTimer : {"off", "on", "orphan"}, \* kaMainRoute.timer; orphan: in the heap, id false
     mainPending : BOOLEAN,    \* ka_main_route_options_pending_
     mainFast : BOOLEAN,       \* mainRouteFastProbeEnabled_
     rereg : BOOLEAN,          \* auto_rereg_.timer, active
     recovery : BOOLEAN,       \* transportRecoveryPending_
     prepared : BOOLEAN,       \* prepareTransportResetDone_
     inProgress : BOOLEAN,     \* connectivityRecoveryInProgress_
     recent : BOOLEAN,         \* lastTransportRecoveryMs_ within the debounce
     raw : 0..RawAttempts,     \* rawKeepAliveRecoveryAttemptMs_
     past : SUBSET Mishaps]    \* history: what went wrong so far, not in the code

(* An enabled account that a client is about to register. *)
Init ==
    /\ acc \in {[topology |-> c.topology, options |-> c.options, usable |-> TRUE, transport |-> FALSE,
                 route |-> 0, address |-> 0, idx |-> -1, ips |-> <<>>, resolved |-> FALSE,
                 reg |-> "UNREGISTERED", regc |-> "none", via |-> 0, available |-> FALSE,
                 skip |-> FALSE, startup |-> FALSE, switching |-> FALSE, target |-> FALSE,
                 timer |-> FALSE, pending |-> FALSE, fast |-> FALSE, mainTarget |-> FALSE,
                 mainTimer |-> "off", mainPending |-> FALSE, mainFast |-> FALSE,
                 rereg |-> FALSE, recovery |-> FALSE,
                 prepared |-> FALSE, inProgress |-> FALSE, recent |-> FALSE, raw |-> 0, past |-> {}]
                    : c \in Accounts}
    /\ calls = [n \in Names |-> "none"]
    /\ flight = [k \in Kinds |-> 0]
    /\ tasks = <<>>
    /\ prog = [t \in Threads |-> <<>>]
    /\ faults = 0

Fault == faults < MaxFaults /\ faults' = faults + 1

----------------------------------------------------------------------------
(* The keep-alive timers and the fast probing *)

Note(a, b, mishap) == IF b THEN [a EXCEPT !.past = @ \cup {mishap}] ELSE a

HasServiceRoute(a) == a.topology # "NoRoute"
HasBackServiceRoutes(a) == a.topology = "ServiceRouteWithBackup"
IsUsingBackupRoute(a) == a.route # 0

CancelKeepAliveTimer(a) == [a EXCEPT !.fast = FALSE, !.timer = FALSE, !.pending = FALSE]

(* Only a timer whose id is set is taken out of PJSIP's heap. *)
Uncharged(timer) == IF timer = "on" THEN "off" ELSE timer

CancelMainRouteKeepAliveTimer(a) ==
    [Note(a, IsUsingBackupRoute(a), "unwatched")
         EXCEPT !.mainFast = FALSE, !.mainTimer = Uncharged(@), !.mainPending = FALSE]

CancelKeepAliveTimers(a) == CancelMainRouteKeepAliveTimer(CancelKeepAliveTimer(a))

RegisterKeepAliveTimer(a) == [a EXCEPT !.timer = a.transport /\ a.target]

RescheduleActiveKeepAliveNow(a) == [a EXCEPT !.timer = @ \/ (a.transport /\ a.target)]

EnableActiveNoRouteFastProbe(a) == RescheduleActiveKeepAliveNow([a EXCEPT !.fast = TRUE])

(* PJSIP refuses an entry that is in its heap already. *)
Charged(timer) == IF timer = "off" THEN "on" ELSE "orphan"

RescheduleMainRouteProbeNow(a) ==
    IF IsUsingBackupRoute(a) /\ HasServiceRoute(a) /\ a.transport /\ a.mainTarget
    THEN [a EXCEPT !.mainTimer = Charged(Uncharged(@))]
    ELSE a

EnableMainRouteFastProbe(a) ==
    IF IsUsingBackupRoute(a) THEN RescheduleMainRouteProbeNow([a EXCEPT !.mainFast = TRUE]) ELSE a

(* Whether getActualIpAddress() is an address. *)
HasActualIpAddress(a) == IF IsUsingBackupRoute(a) THEN a.address # 0 ELSE a.resolved

UpdateActiveKeepAliveTarget(a) == [a EXCEPT !.target = @ \/ HasActualIpAddress(a)]

(* What onRegister does in several of its failure branches. *)
WatchActiveRoute(a) ==
    IF HasActualIpAddress(a)
    THEN RegisterKeepAliveTimer(EnableActiveNoRouteFastProbe(UpdateActiveKeepAliveTarget(a)))
    ELSE a

----------------------------------------------------------------------------
(* Registration and the switch between routes: the account after the part  *)
(* that does not block, and the program for the rest.                      *)

Done(a) == [a |-> a, p |-> <<>>]

(* resolveSrvName up to the blocking call, and its return. *)
Resolve(n, cb) == <<[op |-> "resolve", n |-> n, cb |-> cb], [op |-> "return", n |-> n]>>
Do(op) == <<[op |-> op]>>

ResolveBackups[n \in Names] == IF n = 0 THEN <<>> ELSE ResolveBackups[n - 1] \o Resolve(n, "back")

(* doRegister, doRegister1_ *)
DoRegister(a) ==
    IF a.usable
    THEN [a |-> [a EXCEPT !.reg = "TRYING"],
          p |-> Resolve(0, "register")
                \o IF HasBackServiceRoutes(a) THEN Do("clear") \o ResolveBackups[Backups] ELSE <<>>]
    ELSE Done(a)

DestroyRegistrationInfo(a) == [a EXCEPT !.regc = "none"]

(* registerMainRouteKeepAliveTimer *)
RegisterMainRouteKeepAliveTimer(a) ==
    [a |-> [Note(a, ~a.options \/ ~a.transport, "unwatched") EXCEPT !.mainTimer = Uncharged(@)],
     p |-> IF IsUsingBackupRoute(a) /\ HasServiceRoute(a) /\ a.options /\ a.transport
           THEN Resolve(0, "probe") ELSE <<>>]

(* Nothing is selected while the two lists differ in length. *)
IterateActiveBackServiceRoute(a) ==
    IF Len(a.ips) # Backups THEN Note(a, TRUE, "unready")
    ELSE LET i == (a.idx + 1) % Backups
         IN  [a EXCEPT !.idx = i, !.route = i + 1, !.address = a.ips[i + 1]]

SwitchToBackupRoute(a) ==
    RegisterMainRouteKeepAliveTimer(
        UpdateActiveKeepAliveTarget(
            [IterateActiveBackServiceRoute(a) EXCEPT !.available = FALSE, !.fast = FALSE,
                                                     !.mainFast = FALSE]))

SwitchToMainRoute(a) ==
    CancelMainRouteKeepAliveTimer(
        UpdateActiveKeepAliveTarget([a EXCEPT !.route = 0, !.address = 0, !.fast = FALSE]))

(* Seeded bug: the registration on the old route is kept. *)
SwitchRouteOnly(a, useBackup, skip) ==
    IF ~a.usable \/ useBackup = IsUsingBackupRoute(a) THEN Done(a)
    ELSE IF a.switching THEN Done(Note(a, TRUE, "refused"))
    ELSE IF useBackup
    THEN IF HasBackServiceRoutes(a) THEN SwitchToBackupRoute(a) ELSE Done(a)
    ELSE Done(SwitchToMainRoute(a))

(* Seeded bug: back on the main route, the registration by the backup is kept. *)
SwitchBackOnly(a, useBackup, skip) ==
    IF ~a.usable \/ a.switching \/ useBackup = IsUsingBackupRoute(a) THEN Done(a)
    ELSE IF ~useBackup THEN Done(SwitchToMainRoute(a))
    ELSE IF ~HasBackServiceRoutes(a) THEN Done(a)
    ELSE LET s == SwitchToBackupRoute(a)
         IN  IF IsUsingBackupRoute(s.a)
             THEN [a |-> [s.a EXCEPT !.switching = TRUE],
                   p |-> s.p \o Do("reregister") \o Do("endSwitch")]
             ELSE s

(* switchRouteAndReregister *)
SwitchRouteAndReregister(a, useBackup, skip) ==
    IF ~a.usable \/ useBackup = IsUsingBackupRoute(a) THEN Done(a)
    ELSE IF a.switching THEN Done(Note(a, TRUE, "refused"))
    ELSE IF useBackup
    THEN IF ~HasBackServiceRoutes(a) THEN Done(a)
         ELSE LET s == SwitchToBackupRoute(a)
              IN  IF IsUsingBackupRoute(s.a)
                  THEN [a |-> [s.a EXCEPT !.switching = TRUE],
                        p |-> s.p \o Do(IF skip THEN "reregisterSkip" ELSE "reregister")
                                  \o Do("endSwitch")]
                  ELSE s
    ELSE LET r == DoRegister(DestroyRegistrationInfo(
                     [SwitchToMainRoute(a) EXCEPT !.switching = TRUE, !.skip = @ \/ skip]))
         IN  [a |-> r.a, p |-> r.p \o Do("endSwitch")]

(* A failure on the main route, as several callers treat it. *)
LeaveMainRoute(a) ==
    LET s == SwitchRouteAndReregister([a EXCEPT !.available = FALSE], TRUE, FALSE)
    IN  [a |-> s.a, p |-> s.p \o Do("fastMain")]

ReregisterCurrentRoute(a) ==
    IF ~a.usable \/ a.reg = "TRYING" THEN Done(a) ELSE DoRegister(DestroyRegistrationInfo(a))

ShouldUseStartupMainRouteProbe(a) ==
    a.options /\ HasBackServiceRoutes(a) /\ ~IsUsingBackupRoute(a) /\ ~a.skip

(* scheduleTransportRecovery would succeed. *)
Schedules(a) == a.usable /\ ~a.recent /\ ~a.recovery

ScheduleReregistration(a) == IF a.usable THEN [a EXCEPT !.rereg = TRUE] ELSE a

PrepareTransportReset(a) ==
    [CancelKeepAliveTimers(a) EXCEPT !.rereg = FALSE, !.regc = "none", !.transport = FALSE]

----------------------------------------------------------------------------
(* What a thread does next *)

Idle(t) == prog[t] = <<>>

(* Thread t begins a handler: r is what it does at once and its program. *)
Begin(t, r) == Idle(t) /\ acc' = r.a /\ prog' = [prog EXCEPT ![t] = r.p]

(* Thread t carries out its next instruction, op. *)
Next1(t, op) == ~Idle(t) /\ Head(prog[t]).op = op
Go(t, r) ==
    /\ acc' = Note(r.a, \E u \in Threads \ {t} : ~Idle(u), "overlap")
    /\ prog' = [prog EXCEPT ![t] = r.p \o Tail(@)]

(* registerCallback: emplace keeps the callback that is there. *)
ResolveName(t) ==
    /\ Next1(t, "resolve")
    /\ LET i == Head(prog[t])
       IN  calls' = [calls EXCEPT ![i.n] = IF @ = "none" THEN i.cb ELSE @]
    /\ Go(t, Done(Note(acc, calls[Head(prog[t]).n] # "none", "dropped")))
    /\ UNCHANGED <<flight, tasks, faults>>

(* The callbacks of resolveSrvName, with an address or with none. *)
Resolved(a, cb, n, found) ==
    CASE cb = "register" -> IF found THEN [a |-> [a EXCEPT !.resolved = TRUE], p |-> Do("register2")]
                            ELSE Done([a EXCEPT !.reg = "ERROR"])
      [] cb = "back"     -> Done([a EXCEPT !.ips = Append(@, IF found THEN n ELSE 0)])
      [] cb = "probe"    -> Done(IF found THEN [a EXCEPT !.mainTarget = TRUE, !.mainTimer = Charged(@)]
                                 ELSE Note(a, TRUE, "unwatched"))

(* resolver_callback: nothing happens if another thread took the callback. *)
NameResolved(t) ==
    /\ Next1(t, "return")
    /\ LET n == Head(prog[t]).n
       IN  /\ calls' = [calls EXCEPT ![n] = "none"]
           /\ Go(t, IF calls[n] = "none" THEN Done(acc) ELSE Resolved(acc, calls[n], n, TRUE))
    /\ UNCHANGED <<flight, tasks, faults>>

(* PJSIP cannot resolve the name: getaddrinfo, and the main thread calls back. *)
NameUnresolved(t) ==
    /\ Next1(t, "return") /\ Fault
    /\ LET n == Head(prog[t]).n
       IN  /\ calls[n] # "none"
           /\ calls' = [calls EXCEPT ![n] = "none"]
           /\ \E found \in BOOLEAN :
                 tasks' = Append(tasks, [op |-> "resolved", cb |-> calls[n], n |-> n, found |-> found])
           /\ Go(t, Done(acc))
    /\ UNCHANGED flight

(* backServiceRouteIps_.clear() *)
ClearBackServiceRouteIps(t) ==
    /\ Next1(t, "clear")
    /\ Go(t, Done([acc EXCEPT !.ips = <<>>]))
    /\ UNCHANGED <<calls, flight, tasks, faults>>

(* doRegister2_ and sendRegister up to pjsip_regc_send. *)
DoRegister2(t) ==
    /\ Next1(t, "register2")
    /\ LET a == [acc EXCEPT !.transport = TRUE, !.skip = FALSE]
       IN  IF ShouldUseStartupMainRouteProbe(acc)
           THEN /\ acc.startup \/ flight["startup"] < MaxFlight
                /\ Go(t, Done([a EXCEPT !.startup = TRUE]))
                /\ flight' = [flight EXCEPT !["startup"] = IF acc.startup THEN @ ELSE @ + 1]
           ELSE /\ Go(t, IF acc.usable
                         THEN [a |-> [a EXCEPT !.reg = "TRYING"],
                               p |-> <<[op |-> "store", n |-> acc.route]>>]
                         ELSE Done(a))
                /\ flight' = flight
    /\ UNCHANGED <<calls, tasks, faults>>

(* No transport, or the request cannot be sent. *)
DoRegister2Fails(t) ==
    /\ Next1(t, "register2") /\ Fault
    /\ LET a == [acc EXCEPT !.transport = TRUE, !.skip = FALSE]
       IN  \/ Go(t, Done([acc EXCEPT !.reg = "ERROR"]))
           \/ /\ ShouldUseStartupMainRouteProbe(acc) /\ ~acc.startup
              /\ Go(t, LeaveMainRoute(a))
           \/ /\ ~ShouldUseStartupMainRouteProbe(acc) /\ acc.usable
              /\ Go(t, Done([a EXCEPT !.reg = "ERROR"]))
    /\ UNCHANGED <<calls, flight, tasks>>

(* setRegistrationInfo.  An answer the sip thread took before it is lost. *)
SetRegistrationInfo(t) ==
    /\ Next1(t, "store")
    /\ Go(t, Done([acc EXCEPT !.regc = "waiting", !.via = Head(prog[t]).n]))
    /\ UNCHANGED <<calls, flight, tasks, faults>>

AnswerMissed(t) ==
    /\ Next1(t, "store") /\ t # "sip" /\ Fault
    /\ Go(t, Done([Note(acc, TRUE, "missed") EXCEPT !.regc = "idle", !.via = Head(prog[t]).n]))
    /\ UNCHANGED <<calls, flight, tasks>>

(* The rest of switchRouteAndReregister. *)
Reregister(t) ==
    /\ \E op \in {"reregister", "reregisterSkip"} :
          Next1(t, op)
          /\ Go(t, DoRegister(DestroyRegistrationInfo(
                      [acc EXCEPT !.skip = @ \/ op = "reregisterSkip"])))
    /\ UNCHANGED <<calls, flight, tasks, faults>>

(* The ends of handlers, after what blocked. *)
Finish(t) ==
    /\ \/ Next1(t, "endSwitch") /\ Go(t, Done([acc EXCEPT !.switching = FALSE]))
       \/ Next1(t, "fastMain") /\ Go(t, Done(EnableMainRouteFastProbe(acc)))
       \/ Next1(t, "answered") /\ Go(t, Done([acc EXCEPT !.pending = FALSE]))
       \/ Next1(t, "mainAnswered") /\ Go(t, Done([acc EXCEPT !.mainPending = FALSE]))
       \/ Next1(t, "rearm") /\ Go(t, Done([acc EXCEPT !.timer = TRUE]))
       \/ Next1(t, "recovered") /\ Go(t, Done([acc EXCEPT !.inProgress = FALSE]))
    /\ UNCHANGED <<calls, flight, tasks, faults>>

(* recoverTransport: switchTransportInternal gives a transport or fails. *)
RecoverSwitch(t) ==
    /\ Next1(t, "recoverSwitch")
    /\ LET r == DoRegister([acc EXCEPT !.transport = TRUE])
       IN  Go(t, [a |-> r.a, p |-> r.p \o Do("recovered")])
    /\ UNCHANGED <<calls, flight, tasks, faults>>

RecoverSwitchFails(t) ==
    /\ Next1(t, "recoverSwitch") /\ Fault
    /\ Go(t, Done(ScheduleReregistration([acc EXCEPT !.reg = "ERROR", !.inProgress = FALSE])))
    /\ UNCHANGED <<calls, flight, tasks>>

(* scheduleRecoveryInternal, not debounced *)
DispatchRecovery(t) ==
    /\ Next1(t, "dispatch")
    /\ IF acc.usable /\ ~acc.recovery
       THEN /\ Go(t, Done([acc EXCEPT !.recovery = TRUE, !.recent = TRUE]))
            /\ tasks' = Append(tasks, [op |-> "recover"])
       ELSE Go(t, Done(acc)) /\ tasks' = tasks
    /\ UNCHANGED <<calls, flight, faults>>

Work(t) ==
    \/ ResolveName(t) \/ NameResolved(t) \/ NameUnresolved(t) \/ ClearBackServiceRouteIps(t)
    \/ DoRegister2(t) \/ DoRegister2Fails(t) \/ SetRegistrationInfo(t) \/ AnswerMissed(t)
    \/ Reregister(t) \/ Finish(t) \/ RecoverSwitch(t) \/ RecoverSwitchFails(t)
    \/ DispatchRecovery(t)

----------------------------------------------------------------------------
(* The main thread takes the next closure. *)

MainTask ==
    /\ tasks # <<>>
    /\ tasks' = Tail(tasks)
    /\ LET i == Head(tasks)
       IN  Begin("main",
                 IF i.op = "resolved" THEN Resolved(acc, i.cb, i.n, i.found)
                 ELSE IF acc.usable
                 THEN [a |-> [(IF acc.prepared THEN acc ELSE PrepareTransportReset(acc))
                                  EXCEPT !.recovery = FALSE, !.prepared = FALSE, !.inProgress = TRUE],
                       p |-> Do("recoverSwitch")]
                 ELSE Done([acc EXCEPT !.recovery = FALSE, !.inProgress = FALSE]))
    /\ UNCHANGED <<calls, flight, faults>>

(* scheduleTransportRecovery on the sip thread, or r if it declines. *)
RecoverOr(a, r) ==
    IF Schedules(a)
    THEN /\ Begin("sip", Done([a EXCEPT !.recovery = TRUE, !.recent = TRUE]))
         /\ tasks' = Append(tasks, [op |-> "recover"])
    ELSE Begin("sip", r) /\ tasks' = tasks

----------------------------------------------------------------------------
(* The sip thread: OPTIONS *)

(* handleActiveRouteOptionsFailure; silent: 408 or a failure of the transport. *)
HandleActiveRouteOptionsFailure(a, silent) ==
    LET onBackup == HasBackServiceRoutes(a) /\ IsUsingBackupRoute(a)
        probe == IF silent \/ a.fast THEN EnableActiveNoRouteFastProbe(a) ELSE a
        both == EnableMainRouteFastProbe(EnableActiveNoRouteFastProbe(a))
    IN  IF a.reg = "TRYING" THEN Done(IF onBackup THEN both ELSE probe)
        ELSE IF onBackup THEN Done([both EXCEPT !.reg = "ERROR"])
        ELSE IF HasBackServiceRoutes(a) THEN LeaveMainRoute([a EXCEPT !.fast = FALSE])
        ELSE Done([probe EXCEPT !.reg = "ERROR"])

HandleActiveRouteOptionsSuccess(a) ==
    LET b == [a EXCEPT !.available = @ \/ (~IsUsingBackupRoute(a) /\ HasServiceRoute(a))]
    IN  IF ~a.fast THEN Done(b)
        ELSE IF a.reg = "TRYING" THEN Done(EnableActiveNoRouteFastProbe(b))
        ELSE ReregisterCurrentRoute([b EXCEPT !.fast = FALSE])

Then(r, op) == [a |-> r.a, p |-> r.p \o Do(op)]

(* keep_alive_timer_cb with no transport: it is not set again. *)
KeepAliveStops ==
    /\ acc.timer /\ ~acc.transport
    /\ Begin("sip", Done([acc EXCEPT !.timer = FALSE, !.reg = "ERROR"]))
    /\ UNCHANGED <<calls, flight, tasks, faults>>

(* keep_alive_timer_cb in OPTIONS mode.  The timer is set again at the end,  *)
(* whatever the other threads did with it meanwhile.                         *)
KeepAliveTimer ==
    /\ acc.timer /\ acc.options
    /\ LET a == [acc EXCEPT !.timer = FALSE]
       IN  \/ /\ acc.transport /\ (acc.inProgress \/ acc.pending)
              /\ Begin("sip", Done(acc))
              /\ UNCHANGED <<flight, faults>>
           \/ /\ acc.transport /\ ~acc.inProgress /\ ~acc.pending
              /\ HasActualIpAddress(acc) /\ flight["active"] < MaxFlight
              /\ Begin("sip", Done([acc EXCEPT !.pending = TRUE]))
              /\ flight' = [flight EXCEPT !["active"] = @ + 1]
              /\ faults' = faults
           \/ /\ acc.transport /\ ~acc.inProgress /\ ~acc.pending
              /\ IF HasActualIpAddress(acc) THEN Fault ELSE faults' = faults
              /\ Begin("sip", Then(HandleActiveRouteOptionsFailure(a, TRUE), "rearm"))
              /\ flight' = flight
    /\ UNCHANGED <<calls, tasks>>

(* keep_alive_timer_cb in Packet mode over UDP; handleUdpRawKeepAliveSendFailure. *)
RawKeepAliveTimer ==
    /\ acc.timer /\ ~acc.options
    /\ \/ /\ acc.transport
          /\ Begin("sip", Done([acc EXCEPT !.fast = @ /\ (acc.inProgress \/ HasServiceRoute(acc))]))
          /\ UNCHANGED <<tasks, faults>>
       \/ /\ acc.transport /\ ~acc.inProgress /\ Fault
          /\ IF acc.raw = RawAttempts
             THEN /\ Begin("sip", Done(ScheduleReregistration([acc EXCEPT !.reg = "ERROR"])))
                  /\ tasks' = tasks
             ELSE LET a == [acc EXCEPT !.raw = @ + 1] IN RecoverOr(a, Done(a))
    /\ UNCHANGED <<calls, flight>>

(* keep_alive_on_complete *)
KeepAliveComplete ==
    /\ flight["active"] > 0
    /\ flight' = [flight EXCEPT !["active"] = @ - 1]
    /\ \/ /\ Begin("sip", Then(HandleActiveRouteOptionsSuccess(acc), "answered"))
          /\ faults' = faults
       \/ \E silent \in BOOLEAN :
             Fault /\ Begin("sip", Then(HandleActiveRouteOptionsFailure(acc, silent), "answered"))
    /\ UNCHANGED <<calls, tasks>>

(* Seeded bug: the timer stops while an answer is awaited. *)
MainRouteKeepAliveTimerOnce ==
    /\ acc.mainTimer # "off"
    /\ LET a == [acc EXCEPT !.mainTimer = IF acc.mainPending THEN "off" ELSE "on", !.mainPending = TRUE]
       IN  IF IsUsingBackupRoute(acc) /\ acc.transport /\ acc.mainTarget
           THEN /\ acc.mainPending \/ flight["main"] < MaxFlight
                /\ Begin("sip", Done(a))
                /\ flight' = [flight EXCEPT !["main"] = IF acc.mainPending THEN @ ELSE @ + 1]
           ELSE Begin("sip", Done([Note(acc, IsUsingBackupRoute(acc), "unwatched")
                                       EXCEPT !.mainTimer = "off"])) /\ flight' = flight
    /\ UNCHANGED <<calls, tasks, faults>>

(* main_route_keep_alive_timer_cb.  It is set again, an answer awaited or not. *)
MainRouteKeepAliveTimer ==
    /\ acc.mainTimer # "off"
    /\ LET a == [acc EXCEPT !.mainTimer = "on", !.mainPending = TRUE]
       IN  IF IsUsingBackupRoute(acc) /\ acc.transport /\ acc.mainTarget
           THEN /\ acc.mainPending \/ flight["main"] < MaxFlight
                /\ Begin("sip", Done(a))
                /\ flight' = [flight EXCEPT !["main"] = IF acc.mainPending THEN @ ELSE @ + 1]
           ELSE Begin("sip", Done([Note(acc, IsUsingBackupRoute(acc), "unwatched")
                                       EXCEPT !.mainTimer = "off"])) /\ flight' = flight
    /\ UNCHANGED <<calls, tasks, faults>>

(* The probe cannot be sent. *)
MainRouteProbeUnsent ==
    /\ acc.mainTimer # "off" /\ ~acc.mainPending /\ Fault
    /\ IsUsingBackupRoute(acc) /\ acc.transport /\ acc.mainTarget
    /\ Begin("sip", Done([acc EXCEPT !.mainTimer = "on", !.available = FALSE, !.mainFast = TRUE]))
    /\ UNCHANGED <<calls, flight, tasks>>

(* Seeded bug: an answer that is deferred still counts as awaited. *)
MainRouteProbeOkUncleared ==
    /\ flight["main"] > 0
    /\ flight' = [flight EXCEPT !["main"] = @ - 1]
    /\ LET a == [acc EXCEPT !.available = TRUE]
       IN  Begin("sip", IF acc.reg = "TRYING" THEN Done(EnableMainRouteFastProbe(a))
                        ELSE Then(SwitchRouteAndReregister([a EXCEPT !.mainFast = FALSE], FALSE, TRUE),
                                  "mainAnswered"))
    /\ UNCHANGED <<calls, tasks, faults>>

(* main_route_keep_alive_on_complete: 200 brings the account back, unless it *)
(* is registering.                                                          *)
MainRouteProbeOk ==
    /\ flight["main"] > 0
    /\ flight' = [flight EXCEPT !["main"] = @ - 1]
    /\ LET a == [acc EXCEPT !.available = TRUE]
       IN  Begin("sip", Then(IF acc.reg = "TRYING" THEN Done(EnableMainRouteFastProbe(a))
                             ELSE SwitchRouteAndReregister([a EXCEPT !.mainFast = FALSE], FALSE, TRUE),
                             "mainAnswered"))
    /\ UNCHANGED <<calls, tasks, faults>>

MainRouteProbeFailed ==
    /\ flight["main"] > 0 /\ Fault
    /\ flight' = [flight EXCEPT !["main"] = @ - 1]
    /\ Begin("sip", Then(Done(EnableMainRouteFastProbe([acc EXCEPT !.available = FALSE])), "mainAnswered"))
    /\ UNCHANGED <<calls, tasks>>

(* startup_main_route_probe_on_complete *)
StartupProbeComplete ==
    /\ flight["startup"] > 0
    /\ flight' = [flight EXCEPT !["startup"] = @ - 1]
    /\ LET a == [acc EXCEPT !.startup = FALSE]
       IN  \/ /\ Begin("sip", [a |-> [a EXCEPT !.available = TRUE, !.skip = TRUE], p |-> Do("register2")])
              /\ faults' = faults
           \/ Fault /\ Begin("sip", LeaveMainRoute(a))
    /\ UNCHANGED <<calls, tasks>>

----------------------------------------------------------------------------
(* The sip thread: REGISTER, INVITE and the retry timer *)

DualRouteOptionsMode(a) == a.options /\ HasBackServiceRoutes(a)

(* On the backup route, with the main one not known to work. *)
OnLastRoute(a) == DualRouteOptionsMode(a) /\ IsUsingBackupRoute(a) /\ ~a.available

(* onRegister: 2xx.  The probe of the main route is not set again. *)
Registered ==
    /\ acc.regc = "waiting"
    /\ Begin("sip", Done(RegisterKeepAliveTimer(
           [acc EXCEPT !.regc = "idle", !.reg = "REGISTERED", !.fast = FALSE, !.target = TRUE,
                       !.available = @ \/ (~IsUsingBackupRoute(acc) /\ HasServiceRoute(acc)),
                       !.raw = 0])))
    /\ UNCHANGED <<calls, flight, tasks, faults>>

Unregistered ==
    /\ acc.regc = "leaving"
    /\ Begin("sip", Done([CancelKeepAliveTimers(acc) EXCEPT !.regc = "none", !.reg = "UNREGISTERED"]))
    /\ UNCHANGED <<calls, flight, tasks, faults>>

(* ERROR, and for some codes a retry. *)
Refused(a, retry) ==
    LET e == [a EXCEPT !.reg = "ERROR"] IN Done(IF retry THEN ScheduleReregistration(e) ELSE e)

(* onRegister: the request could not be delivered. *)
RegisterError ==
    /\ acc.regc \in {"waiting", "leaving"} /\ Fault
    /\ LET a == DestroyRegistrationInfo(acc)
       IN  IF OnLastRoute(acc)
           THEN /\ Begin("sip", Refused(EnableMainRouteFastProbe(WatchActiveRoute(a)), FALSE))
                /\ tasks' = tasks
           ELSE \E retry \in BOOLEAN :
                   RecoverOr(a, IF DualRouteOptionsMode(a) /\ ~IsUsingBackupRoute(a)
                                THEN LeaveMainRoute(a)
                                ELSE Refused(IF a.options THEN WatchActiveRoute(a) ELSE a, retry))
    /\ UNCHANGED <<calls, flight>>

(* onRegister: refused with a code.  408, 503 and 404 leave the main route. *)
RegisterRefused ==
    /\ acc.regc \in {"waiting", "leaving"} /\ Fault
    /\ LET a == DestroyRegistrationInfo(acc)
           watched(code) ==
               IF OnLastRoute(a) THEN EnableMainRouteFastProbe(WatchActiveRoute(a))
               ELSE IF a.options /\ (code = 408 \/ a.fast) THEN WatchActiveRoute(a)
               ELSE IF a.options THEN UpdateActiveKeepAliveTarget(a)
               ELSE a
       IN  \E code \in {403, 404, 408, 500, 503} :
              IF code \in {404, 408, 503} /\ DualRouteOptionsMode(a) /\ ~IsUsingBackupRoute(a)
              THEN Begin("sip", LeaveMainRoute(a)) /\ tasks' = tasks
              ELSE LET r == Refused(watched(code), code \in {408, 500, 503})
                   IN  IF code = 503 THEN RecoverOr(a, r)
                       ELSE Begin("sip", r) /\ tasks' = tasks
    /\ UNCHANGED <<calls, flight>>

(* autoReregTimerCb *)
AutoReregTimer ==
    /\ acc.rereg
    /\ Begin("sip", DoRegister([acc EXCEPT !.rereg = FALSE]))
    /\ UNCHANGED <<calls, flight, tasks, faults>>

(* An INVITE sent by the active route fails with 408 or 503. *)
InviteFails ==
    /\ HasServiceRoute(acc) /\ acc.transport /\ Fault
    /\ Begin("sip", SwitchRouteAndReregister(acc, ~IsUsingBackupRoute(acc), FALSE))
    /\ UNCHANGED <<calls, flight, tasks>>

(* Sometime after a recovery was scheduled, and after the raw window. *)
DebounceOver ==
    /\ acc.recent
    /\ acc' = [acc EXCEPT !.recent = FALSE]
    /\ UNCHANGED <<calls, flight, tasks, prog, faults>>

WindowOver ==
    /\ acc.raw > 0
    /\ acc' = [acc EXCEPT !.raw = @ - 1]
    /\ UNCHANGED <<calls, flight, tasks, prog, faults>>

----------------------------------------------------------------------------
(* Clients *)

(* sendAccountEnabled, setAccountActive *)
Register ==
    /\ acc.reg \in {"UNREGISTERED", "ERROR"}
    /\ IF acc.reg = "ERROR" THEN Fault ELSE faults' = faults
    /\ Begin("api", DoRegister([acc EXCEPT !.usable = TRUE]))
    /\ UNCHANGED <<calls, flight, tasks>>

(* doUnregister, sendUnregister *)
Unregister ==
    /\ acc.usable /\ Fault
    /\ LET a == [CancelKeepAliveTimers(acc) EXCEPT !.usable = FALSE]
       IN  Begin("api", Done(
               IF acc.reg # "REGISTERED" THEN [a EXCEPT !.reg = "UNREGISTERED"]
               ELSE IF acc.regc = "none" THEN [a EXCEPT !.reg = "ERROR"]
               ELSE IF acc.recovery \/ acc.inProgress \/ ~acc.transport
               THEN [DestroyRegistrationInfo(a) EXCEPT !.reg = "UNREGISTERED"]
               ELSE [a EXCEPT !.regc = "leaving"]))
    /\ UNCHANGED <<calls, flight, tasks>>

(* setAccountDetails with another interval for the keep-alives. *)
SetAccountDetails ==
    /\ Fault
    /\ LET a == [CancelKeepAliveTimers(acc) EXCEPT !.past = acc.past]
           b == RegisterKeepAliveTimer([a EXCEPT !.fast = acc.fast /\ acc.options])
           m == RegisterMainRouteKeepAliveTimer(b)
       IN  Begin("api", IF ~(acc.usable /\ acc.transport) THEN Done(CancelKeepAliveTimers(acc))
                        ELSE IF ~IsUsingBackupRoute(acc) THEN Done(b)
                        ELSE IF acc.mainFast THEN Then(m, "fastMain") ELSE m)
    /\ UNCHANGED <<calls, flight, tasks>>

(* Manager::connectivityChanged: prepareConnectivityRecovery, and then       *)
(* dispatchPreparedConnectivityRecovery.                                     *)
ConnectivityChanged ==
    /\ acc.usable /\ Fault
    /\ Begin("api", [a |-> [PrepareTransportReset(acc) EXCEPT !.prepared = TRUE, !.inProgress = TRUE],
                     p |-> Do("dispatch")])
    /\ UNCHANGED <<calls, flight, tasks>>

(* switchTransport, to the other type of transport *)
SwitchTransport ==
    /\ acc.usable /\ Fault
    /\ Begin("api", DoRegister([PrepareTransportReset(acc) EXCEPT !.transport = TRUE]))
    /\ UNCHANGED <<calls, flight, tasks>>

Probing == KeepAliveStops \/ KeepAliveTimer \/ RawKeepAliveTimer \/ KeepAliveComplete \/ MainRouteKeepAliveTimer
           \/ MainRouteProbeUnsent \/ MainRouteProbeOk \/ MainRouteProbeFailed \/ StartupProbeComplete

Registering == Registered \/ Unregistered \/ RegisterError \/ RegisterRefused \/ AutoReregTimer
               \/ InviteFails

Next ==
    \/ \E t \in Threads : Work(t)
    \/ MainTask \/ Probing \/ Registering \/ DebounceOver \/ WindowOver
    \/ Register \/ Unregister \/ SetAccountDetails \/ ConnectivityChanged
    \/ SwitchTransport

Spec == Init /\ [][Next]_vars

----------------------------------------------------------------------------
(* Properties *)

(* Nothing runs and nothing waits to be run. *)
Quiet == tasks = <<>> /\ \A t \in Threads : Idle(t)

TypeOK ==
    /\ acc \in Account
    /\ calls \in [Names -> Callbacks \cup {"none"}]
    /\ flight \in [Kinds -> 0..MaxFlight]
    /\ faults \in 0..MaxFaults

Spared(mishaps) == acc.past \cap mishaps = {}

(* An account on a backup route asks the main one from time to time         *)
(* (main_route_keep_alive_timer_cb), however its timer is cancelled, set    *)
(* again and refused by PJSIP's heap.  Excused: a reset of the transport or *)
(* an unregistration stopped it (nothing starts it again), or the main      *)
(* route could not be resolved.                                             *)
BackupIsWatched ==
    Quiet /\ acc.usable /\ IsUsingBackupRoute(acc) /\ Spared({"unwatched", "dropped"})
        => acc.mainTimer # "off"

(* An account that shows TRYING waits for something: an answer to the       *)
(* startup probe or to a REGISTER, or the retry timer.  Excused: a callback *)
(* of resolveSrvName or an answer was lost, or the probe of the main route  *)
(* failed before the backups were resolved (switchRouteAndReregister then   *)
(* does nothing) or during a switch.                                        *)
TryingIsDriven ==
    Quiet /\ acc.usable /\ acc.reg = "TRYING" /\ Spared({"dropped", "missed", "unready", "refused"})
        => acc.startup \/ acc.regc = "waiting" \/ acc.rereg

(* A registration was made by the route that is active, after any switches  *)
(* there and back, as long as no two threads register at once.              *)
RegisteredOverActiveRoute ==
    Quiet /\ acc.usable /\ acc.reg = "REGISTERED" /\ acc.regc = "idle" /\ Spared({"overlap"})
        => acc.via = acc.route

(* sipaccount.h, line 412: "Starts a separate keep-alive timer to check     *)
(* main route availability when using backup route."  Fails: a transport    *)
(* recovery cancels the timer, and the registration that follows by the     *)
(* same backup route does not start it.                                     *)
RegisteredBackupIsWatched ==
    Quiet /\ acc.usable /\ acc.options /\ IsUsingBackupRoute(acc) /\ acc.reg = "REGISTERED"
        => acc.mainTimer # "off"

(* Every thread runs; the sip thread is not kept from an event that keeps   *)
(* coming; the main route answers in the end (faults are bounded), and so   *)
(* does the registrar.                                                      *)
Fairness ==
    /\ \A t \in Threads : WF_vars(Work(t))
    /\ WF_vars(MainTask)
    /\ SF_vars(MainRouteKeepAliveTimer) /\ SF_vars(MainRouteProbeOk \/ MainRouteProbeFailed)
    /\ SF_vars(Registering) /\ SF_vars(StartupProbeComplete)

FairSpec == Spec /\ Fairness

(* An account whose backup route is watched goes back to the main route,    *)
(* also when its 200 comes while the account registers and the return is    *)
(* put off (main_route_keep_alive_on_complete).  Excused as above.          *)
ReturnsToMain ==
    acc.usable /\ IsUsingBackupRoute(acc) /\ acc.mainTimer # "off"
        ~> \/ ~acc.usable \/ ~IsUsingBackupRoute(acc)
           \/ ~Spared({"unwatched", "dropped", "missed", "unready", "refused"})

====
