-------------------------- MODULE DialogRefreshProofs --------------------------
(***************************************************************************)
(* DialogRefresh for every retry limit and any number of connectivity      *)
(* changes and other re-INVITEs.                                           *)
(*                                                                         *)
(* The call is Sound: its refresh is watched, and an answer is awaited     *)
(* only for an unanswered re-INVITE of a call that is past its setup (the  *)
(* initial transaction is not one of those).  The retry count stays within *)
(* the limit plus one because a thread between the test of the count and   *)
(* its increment leaves room for itself (CountInv).                        *)
(***************************************************************************)
EXTENDS DialogRefresh, TLAPS

(* What holds of the call k while the main thread is at m. *)
Sound(k, m) ==
    /\ k \in Call
    /\ k.pending /\ k.app # "over" => "current" \in k.dogs \/ m = "force"
    /\ k.pending /\ k.awaiting /\ k.session = "confirmed" => k.tsx \in {"own", "past"}
    /\ k.awaiting => k.session # "early"

TimerPlaces == {"followupTimer", "retryTimer"}

(* Threads about to increment the count have seen room for it. *)
CountInv ==
    /\ call.count <= MaxRetries + 1
    /\ \A t \in Threads : pc[t] \in TimerPlaces => call.count <= MaxRetries /\ MaxRetries >= 1
    /\ pc["sip"] \in TimerPlaces /\ pc["main"] \in TimerPlaces => call.count < MaxRetries

Rest ==
    /\ pc \in [Threads -> Places]
    /\ account \in Account /\ cut \in BOOLEAN
    /\ redialled \subseteq {"setup", "over"}
    /\ changes \in 0..MaxChanges /\ others \in 0..MaxOthers

IInv == Sound(call, pc["main"]) /\ CountInv /\ Rest

----------------------------------------------------------------------------
(* The operations on the call keep it sound and, but for a reset, keep its count. *)

(* clearConnectivityDialogRefreshState *)
LEMMA ClearSound ==
    ASSUME NEW k \in Call, NEW m
    PROVE  /\ Sound(Clear(k), m) /\ Clear(k).count = k.count
           /\ Clear(k).app = k.app /\ Clear(k).awaiting = FALSE /\ Clear(k).pending = FALSE
<1> DEFINE x == Aged(k.dogs)
           c == [k EXCEPT !.pending = FALSE, !.awaiting = FALSE, !.dogs = x]
<1>1. Clear(k) = c BY DEF Clear
<1>2. x \in Watchdogs BY DEF Aged, Watchdogs
<1> HIDE DEF x
<1>3. c \in Call BY <1>2, ZenonT(30) DEF Call
<1>4. c.count = k.count /\ c.app = k.app BY DEF Call
<1>5. c.awaiting = FALSE BY DEF Call
<1>6. c.pending = FALSE BY DEF Call
<1> HIDE DEF c
<1> QED BY <1>1, <1>3, <1>4, <1>5, <1>6 DEF Sound

(* resetConnectivityReinviteState *)
LEMMA ResetSound ==
    ASSUME NEW k \in Call, NEW m
    PROVE  Sound(Reset(k), m) /\ Reset(k).count = 0
<1> DEFINE c == Clear(k)
           r == [c EXCEPT !.count = 0, !.deferred = FALSE]
<1>1. c \in Call /\ c.awaiting = FALSE /\ c.pending = FALSE BY ClearSound, ZenonT(30) DEF Sound
<1>2. Reset(k) = r BY DEF Reset
<1> HIDE DEF c
<1>3. r \in Call BY <1>1, ZenonT(30) DEF Call
<1>4. r.count = 0 BY <1>1 DEF Call
<1>5. r.awaiting = FALSE BY <1>1 DEF Call
<1>6. r.pending = FALSE BY <1>1 DEF Call
<1> HIDE DEF r
<1> QED BY <1>2, <1>3, <1>4, <1>5, <1>6 DEF Sound

(* removeCall *)
LEMMA RemovedSound ==
    ASSUME NEW k \in Call, NEW m
    PROVE  Sound(Removed(k), m) /\ Removed(k).count = k.count
<1> DEFINE none == {}
           p == [k EXCEPT !.app = "over", !.session = "none", !.tsx = "none"]
           q == [p EXCEPT !.lingering = FALSE, !.pending = FALSE, !.awaiting = FALSE]
           o == [q EXCEPT !.deferred = FALSE, !.rebind = FALSE, !.exposed = FALSE]
           r == [o EXCEPT !.listener = FALSE, !.answered = FALSE, !.closing = FALSE]
           s == [r EXCEPT !.dogs = none, !.followups = 0, !.retries = 0]
<1>1. none \in Watchdogs BY DEF Watchdogs
<1>2. Removed(k) = s BY DEF Removed
<1> HIDE DEF none
<1>p. p \in Call BY ZenonT(30) DEF Call
<1>f. p.app = "over" /\ p.count = k.count BY DEF Call
<1> HIDE DEF p
<1>3. q \in Call BY <1>p, ZenonT(30) DEF Call
<1>4. q.app = "over" /\ q.count = k.count BY <1>p, <1>f DEF Call
<1>5. q.awaiting = FALSE BY <1>p DEF Call
<1> HIDE DEF q
<1>o. o \in Call BY <1>3, ZenonT(30) DEF Call
<1>a. o.app = "over" /\ o.count = k.count /\ o.awaiting = FALSE BY <1>3, <1>4, <1>5 DEF Call
<1> HIDE DEF o
<1>6. r \in Call BY <1>o, ZenonT(30) DEF Call
<1>7. r.app = "over" /\ r.count = k.count BY <1>o, <1>a DEF Call
<1>8. r.awaiting = FALSE BY <1>o, <1>a DEF Call
<1> HIDE DEF r
<1>9. s \in Call BY <1>1, <1>6, ZenonT(30) DEF Call
<1>10. s.app = "over" /\ s.count = k.count BY <1>6, <1>7 DEF Call
<1>11. s.awaiting = FALSE BY <1>6, <1>8 DEF Call
<1> HIDE DEF s
<1> QED BY <1>2, <1>9, <1>10, <1>11 DEF Sound

(* beginConnectivityDialogRefresh *)
LEMMA BeginSound ==
    ASSUME NEW k \in Call, NEW m, Sound(k, m), NEW aw \in BOOLEAN,
           aw => k.tsx = "own" /\ k.session # "early"
    PROVE  Sound(Begin(k, aw), m) /\ Begin(k, aw).count = k.count
<1>1. CASE k.app = "over"
  <2>1. Begin(k, aw) = k BY <1>1 DEF Begin
  <2> QED BY <2>1
<1>2. CASE k.app # "over"
  <2> DEFINE x == Aged(k.dogs) \cup {"current"}
             b == [k EXCEPT !.pending = TRUE, !.awaiting = aw, !.dogs = x]
  <2>1. Begin(k, aw) = b BY <1>2 DEF Begin
  <2>2. x \in Watchdogs /\ "current" \in x BY DEF Aged, Watchdogs
  <2> HIDE DEF x
  <2>3. b \in Call BY <2>2, ZenonT(30) DEF Call
  <2>4. b.count = k.count /\ b.tsx = k.tsx /\ b.session = k.session /\ b.dogs = x BY DEF Call
  <2>5. b.awaiting = aw BY DEF Call
  <2> HIDE DEF b
  <2>6. Sound(b, m) BY <2>2, <2>3, <2>4, <2>5 DEF Sound
  <2> QED BY <2>1, <2>4, <2>6
<1> QED BY <1>1, <1>2

(* pendingConnectivityReinvite_ has no part in soundness *)
LEMMA DeferredSound ==
    ASSUME NEW k \in Call, NEW m, Sound(k, m), NEW v \in BOOLEAN
    PROVE  LET d == [k EXCEPT !.deferred = v] IN d \in Call /\ Sound(d, m) /\ d.count = k.count
<1> DEFINE d == [k EXCEPT !.deferred = v]
<1>1. d \in Call BY DEF Call
<1>2. /\ d.pending = k.pending /\ d.awaiting = k.awaiting /\ d.app = k.app /\ d.dogs = k.dogs
      /\ d.tsx = k.tsx /\ d.session = k.session /\ d.count = k.count
  BY DEF Call
<1> HIDE DEF d
<1>3. Sound(d, m) /\ d.count = k.count BY <1>1, <1>2 DEF Sound
<1> QED BY <1>1, <1>3 DEF d

(* reinviteOnConnectivityChange *)
LEMMA ReinviteSound ==
    ASSUME NEW k \in Call, NEW m, Sound(k, m), NEW o \in ReinviteOnConnectivityChange(k)
    PROVE  /\ Sound(o.call, m) /\ o.call.count = k.count
           /\ o.result \in {"sent", "pending", "error"}
<1> DEFINE d == [k EXCEPT !.deferred = TRUE]
           s == [k EXCEPT !.deferred = FALSE, !.tsx = "own"]
<1>1. d \in Call /\ Sound(d, m) /\ d.count = k.count
  BY DeferredSound, ZenonT(30)
<1>2. Sound(Begin(d, FALSE), m) /\ Begin(d, FALSE).count = k.count
  BY <1>1, BeginSound, ZenonT(30)
<1>3. ASSUME o = Deferred(k)
      PROVE  Sound(o.call, m) /\ o.call.count = k.count /\ o.result = "pending"
  <2>1. o.call = Begin(d, FALSE) /\ o.result = "pending"
    BY <1>3 DEF Deferred, Outcome
  <2> QED BY <2>1, <1>2, ZenonT(30)
<1>4. o = Outcome(k, "error") => Sound(o.call, m) /\ o.call.count = k.count /\ o.result = "error"
  BY DEF Outcome
<1>5. ASSUME k.session = "confirmed", k.tsx = "none", o = Outcome(Begin(s, TRUE), "sent")
      PROVE  Sound(o.call, m) /\ o.call.count = k.count /\ o.result = "sent"
  <2>1. s \in Call /\ Sound(s, m) /\ s.count = k.count /\ s.tsx = "own" /\ s.session # "early"
    BY <1>5, ZenonT(30) DEF Sound, Call
  <2>2. Sound(Begin(s, TRUE), m) /\ Begin(s, TRUE).count = k.count
    BY <2>1, BeginSound, ZenonT(30)
  <2> QED BY <2>2, <1>5, ZenonT(30) DEF Outcome
<1> HIDE DEF d
<1> QED BY <1>3, <1>4, <1>5, ZenonT(30) DEF ReinviteOnConnectivityChange

(* tryDeferredConnectivityReinvite *)
LEMMA TryDeferredSound ==
    ASSUME NEW k \in Call, NEW m, Sound(k, m), NEW r \in TryDeferred(k)
    PROVE  Sound(r, m) /\ r.count = k.count
<1> DEFINE d == [k EXCEPT !.deferred = FALSE]
<1>1. d \in Call /\ Sound(d, m) /\ d.count = k.count
  BY DeferredSound, ZenonT(30)
<1>2. CASE r = k BY <1>2
<1>3. CASE r \in {o.call : o \in ReinviteOnConnectivityChange(d)}
  <2>1. PICK o \in ReinviteOnConnectivityChange(d) : r = o.call BY <1>3, ZenonT(30)
  <2> HIDE DEF d
  <2> QED BY <1>1, <2>1, ReinviteSound
<1>4. r \in {o.call : o \in ReinviteOnConnectivityChange(d)} \/ r \in {k}
  BY Zenon DEF TryDeferred
<1> QED BY <1>2, <1>3, <1>4, ZenonT(30)

(* A call that is put into another state of the same refresh stays sound. *)
LEMMA CutOffSound ==
    ASSUME NEW k \in Call, NEW m, Sound(k, m)
    PROVE  Sound(CutOff(k), m) /\ CutOff(k).count = k.count /\ CutOff(k) \in Call
BY DEF CutOff, Sound, Call

(* The fields that soundness looks at *)
SameRefresh(k, l) ==
    /\ l.pending = k.pending /\ l.awaiting = k.awaiting /\ l.app = k.app /\ l.dogs = k.dogs
    /\ l.tsx = k.tsx /\ l.session = k.session

(* Soundness depends on the members of the refresh alone. *)
LEMMA SameSound ==
    ASSUME NEW k, NEW l \in Call, NEW m, Sound(k, m), SameRefresh(k, l)
    PROVE  Sound(l, m)
BY DEF Sound, SameRefresh

(* A thread other than one that is giving the call up may go anywhere. *)
LEMMA SoundAnywhere ==
    ASSUME NEW k, NEW m, NEW n, Sound(k, m), m # "force"
    PROVE  Sound(k, n)
BY DEF Sound

----------------------------------------------------------------------------
(* Where a thread may go with the count as it is.                          *)
LEMMA GoesTo ==
    ASSUME pc \in [Threads -> Places], NEW t \in Threads, NEW p \in Places, Goes(t, p)
    PROVE  /\ pc' \in [Threads -> Places] /\ pc'[t] = p
           /\ \A u \in Threads \ {t} : pc'[u] = pc[u]
BY DEF Goes

(* A thread that does not go to a timer step leaves the bound on the count as it was. *)
LEMMA GoesCount ==
    ASSUME CountInv, pc \in [Threads -> Places], call'.count = call.count,
           NEW t \in Threads, NEW p \in Places, p \notin TimerPlaces, Goes(t, p)
    PROVE  CountInv'
<1>1. \A u \in Threads : pc'[u] \in TimerPlaces => pc[u] \in TimerPlaces
  BY GoesTo
<1> QED BY <1>1 DEF CountInv, Threads

(* The bound on the count depends on the count and on where the threads are. *)
LEMMA StaysCount ==
    ASSUME CountInv, pc' = pc, call'.count = call.count
    PROVE  CountInv'
BY DEF CountInv

(* Reset by the SIP thread; the main thread may be about to increment the count. *)
LEMMA ResetCount ==
    ASSUME CountInv, pc \in [Threads -> Places], call'.count = 0,
           NEW p \in Places, p \notin TimerPlaces, Goes("sip", p)
    PROVE  CountInv'
<1>1. "sip" \in Threads /\ "main" \in Threads BY DEF Threads
<1>2. pc'["sip"] = p /\ pc'["main"] = pc["main"] BY <1>1, GoesTo DEF Threads
<1>3. MaxRetries \in Nat BY RefreshBounds DEF RefreshBounds
<1> QED BY <1>1, <1>2, <1>3 DEF CountInv, Threads

----------------------------------------------------------------------------
(* The steps of the account: preparation, recovery, reinviteActiveCalls *)
LEMMA AccountSteps ==
    ASSUME IInv,
           PrepareConnectivityRecovery \/ PrepareTransportReset \/ RebindCalls \/ RecoverFails
    PROVE  IInv'
<1> DEFINE m == pc["main"]
           c == CutOff(call)
           l == [c EXCEPT !.rebind = TRUE, !.exposed = FALSE]
           r == [c EXCEPT !.rebind = TRUE, !.exposed = FALSE, !.deferred = TRUE]
<1>1. call \in Call /\ Sound(call, m) BY DEF IInv, Sound
<1>2. c \in Call /\ Sound(c, m) /\ c.count = call.count BY <1>1, CutOffSound
<1>3. call' \in {c, l, r} /\ pc' = pc
  BY ZenonT(30) DEF PrepareConnectivityRecovery, PrepareTransportReset, RebindCalls, RecoverFails
<1> HIDE DEF c, m
<1>4. l \in Call BY <1>2, ZenonT(30) DEF Call
<1>5. SameRefresh(c, l) /\ l.count = c.count BY <1>2 DEF Call, SameRefresh
<1>6. r \in Call BY <1>2, ZenonT(30) DEF Call
<1>7. SameRefresh(c, r) /\ r.count = c.count BY <1>2 DEF Call, SameRefresh
<1> HIDE DEF l, r
<1>8. Sound(call', m) /\ call'.count = call.count
  BY <1>2, <1>3, <1>4, <1>5, <1>6, <1>7, SameSound
<1>9. CountInv' BY <1>3, <1>8, StaysCount DEF IInv
<1>10. account' \in Account /\ cut' \in BOOLEAN
  BY ZenonT(30) DEF IInv, Rest, Account, PrepareConnectivityRecovery, PrepareTransportReset, RebindCalls,
         RecoverFails, Changed
<1>11. changes' \in 0..MaxChanges
  BY RefreshBounds DEF RefreshBounds, IInv, Rest, PrepareConnectivityRecovery,
     PrepareTransportReset, RebindCalls, RecoverFails, Changed, CountedUnless
<1>12. Rest'
  BY <1>3, <1>10, <1>11, ZenonT(30) DEF IInv, Rest, PrepareConnectivityRecovery, PrepareTransportReset,
     RebindCalls, RecoverFails
<1> QED BY <1>3, <1>8, <1>9, <1>12 DEF IInv, m

(* reinviteActiveCalls: the call's refresh is reset, or it waits for a transport. *)
LEMMA ReinviteActiveCallsStep ==
    ASSUME IInv, ReinviteActiveCalls
    PROVE  IInv'
<1> DEFINE m == pc["main"]
           c == IF account.transport = "none" THEN CutOff(call) ELSE call
           r == [call EXCEPT !.rebind = TRUE, !.exposed = FALSE, !.deferred = TRUE]
<1>1. call \in Call /\ Sound(call, m) BY DEF IInv, Sound
<1>2. "sip" \in Threads /\ "main" \in Threads /\ "reach" \in Places /\ "reach" \notin TimerPlaces
  BY DEF Threads, Places, TimerPlaces
<1>3. CASE call' = Reset(c) /\ Goes("sip", "reach")
  <2>1. c \in Call BY <1>1, CutOffSound
  <2>2. Sound(call', m) /\ call'.count = 0 BY <1>3, <2>1, ResetSound
  <2>3. CountInv' BY <1>2, <1>3, <2>2, ResetCount DEF IInv, Rest
  <2>4. pc' \in [Threads -> Places] /\ pc'["main"] = m BY <1>2, <1>3, GoesTo DEF IInv, Rest
  <2>5. account' \in Account /\ cut' \in BOOLEAN /\ changes' \in 0..MaxChanges
    <3>1. account' \in Account BY ZenonT(30) DEF IInv, Rest, Account, ReinviteActiveCalls
    <3>2. cut' \in BOOLEAN BY DEF IInv, Rest, ReinviteActiveCalls
    <3>3. changes' \in 0..MaxChanges
      BY RefreshBounds DEF RefreshBounds, IInv, Rest, ReinviteActiveCalls, CountedUnless
    <3> QED BY <3>1, <3>2, <3>3
  <2> QED BY <2>2, <2>3, <2>4, <2>5 DEF IInv, Rest, ReinviteActiveCalls
<1>4. CASE call' = r /\ UNCHANGED <<account, pc, cut>>
  <2>1. r \in Call BY <1>1, ZenonT(30) DEF Call
  <2>2. SameRefresh(call, r) /\ r.count = call.count BY <1>1 DEF Call, SameRefresh
  <2> HIDE DEF r
  <2>3. Sound(call', m) /\ call'.count = call.count BY <1>1, <1>4, <2>1, <2>2, SameSound
  <2>4. CountInv' BY <1>4, <2>3, StaysCount DEF IInv
  <2>5. changes' \in 0..MaxChanges
    BY RefreshBounds DEF RefreshBounds, IInv, Rest, ReinviteActiveCalls, CountedUnless
  <2> QED BY <1>4, <2>3, <2>4, <2>5 DEF IInv, Rest, ReinviteActiveCalls
<1>5. PICK ready \in BOOLEAN :
        IF ready THEN call' = Reset(c) /\ Goes("sip", "reach")
                 ELSE call' = r /\ UNCHANGED <<account, pc, cut>>
  BY DEF ReinviteActiveCalls
<1> QED BY <1>3, <1>4, <1>5

(* Steps that change the call and the threads only *)
LEMMA Closing ==
    ASSUME IInv, Sound(call', pc'["main"]), CountInv', pc' \in [Threads -> Places],
           UNCHANGED <<account, cut, redialled, changes, others>>
    PROVE  IInv'
BY DEF IInv, Rest

(* ... and no thread moves *)
LEMMA ClosingStay ==
    ASSUME IInv, Sound(call', pc["main"]), call'.count = call.count, pc' = pc,
           UNCHANGED <<account, cut, redialled, changes, others>>
    PROVE  IInv'
<1>1. CountInv' BY StaysCount DEF IInv
<1> QED BY <1>1, Closing DEF IInv, Rest

(* ... and a thread goes on; a main thread that leaves "force" has ended the refresh. *)
LEMMA ClosingGo ==
    ASSUME IInv, call'.count = call.count,
           NEW t \in Threads, NEW p \in Places, p \notin TimerPlaces, Goes(t, p),
           Sound(call', pc["main"]), t = "main" => Sound(call', p),
           UNCHANGED <<account, cut, redialled, changes, others>>
    PROVE  IInv'
<1>1. pc' \in [Threads -> Places] /\ pc'[t] = p /\ \A u \in Threads \ {t} : pc'[u] = pc[u]
  BY GoesTo DEF IInv, Rest
<1>2. Sound(call', pc'["main"])
  BY <1>1 DEF Threads
<1>3. CountInv' BY GoesCount DEF IInv, Rest
<1> QED BY <1>1, <1>2, <1>3, Closing

(* The test of the count before a timer is set *)
LEMMA EnterTimer ==
    ASSUME CountInv, call \in Call, pc \in [Threads -> Places], call' = call,
           NEW t \in Threads, NEW p \in TimerPlaces, Goes(t, p), call.count < MaxRetries
    PROVE  CountInv'
<1>1. MaxRetries \in Nat /\ call.count \in Nat BY RefreshBounds DEF RefreshBounds, Call
<1>2. call.count <= MaxRetries /\ MaxRetries >= 1 /\ call.count <= MaxRetries + 1 BY <1>1
<1> QED BY <1>2 DEF CountInv

(* ... and the increment *)
LEMMA LeaveTimer ==
    ASSUME CountInv, call \in Call, pc \in [Threads -> Places], call'.count = call.count + 1,
           NEW t \in Threads, pc[t] \in TimerPlaces, Goes(t, "idle")
    PROVE  CountInv'
<1>1. MaxRetries \in Nat /\ call.count \in Nat BY RefreshBounds DEF RefreshBounds, Call
<1>2. "idle" \in Places /\ "idle" \notin TimerPlaces BY DEF Places, TimerPlaces
<1>3. pc'[t] = "idle" /\ \A u \in Threads \ {t} : pc'[u] = pc[u] BY <1>2, GoesTo
<1>4. call'.count <= MaxRetries + 1 BY <1>1 DEF CountInv
<1>5. ASSUME NEW u \in Threads, pc'[u] \in TimerPlaces
      PROVE  call'.count <= MaxRetries /\ MaxRetries >= 1
  <2>1. u # t /\ pc[u] \in TimerPlaces BY <1>2, <1>3, <1>5
  <2>2. call.count < MaxRetries BY <2>1 DEF CountInv, Threads
  <2> QED BY <1>1, <2>2
<1>6. ~(pc'["sip"] \in TimerPlaces /\ pc'["main"] \in TimerPlaces) BY <1>2, <1>3 DEF Threads
<1> QED BY <1>4, <1>5, <1>6 DEF CountInv

(* The two schedulers and forceConnectivityDialogRefreshFailure, on either thread *)
LEMMA SchedulingSteps ==
    ASSUME IInv, NEW t \in Threads, Scheduling(t)
    PROVE  IInv'
<1> DEFINE m == pc["main"]
<1>1. call \in Call /\ Sound(call, m) BY DEF IInv, Sound
<1>2. /\ {"idle", "force", "hangup"} \subseteq Places \ TimerPlaces
      /\ TimerPlaces \subseteq Places
  BY DEF Places, TimerPlaces
<1>3. ASSUME ScheduleFollowup(t) \/ ScheduleRetry(t)
      PROVE  IInv'
  <2>1. /\ call' = call /\ pc[t] # "force"
        /\ UNCHANGED <<account, cut, redialled, changes, others>>
        /\ \/ Goes(t, "force")
           \/ call.count < MaxRetries /\ \E p \in TimerPlaces : Goes(t, p)
    <3>1. MaxRetries \in Nat /\ call.count \in Nat BY <1>1, RefreshBounds DEF RefreshBounds, Call
    <3> QED BY <1>3, <3>1 DEF ScheduleFollowup, ScheduleRetry, TimerPlaces
  <2>2. \A p : t = "main" => Sound(call', p) BY <1>1, <2>1, SoundAnywhere
  <2>3. CASE Goes(t, "force")
    BY <1>1, <1>2, <2>1, <2>2, <2>3, ClosingGo
  <2>4. ASSUME call.count < MaxRetries, NEW p \in TimerPlaces, Goes(t, p)
        PROVE  IInv'
    <3>1. CountInv' BY <1>1, <2>1, <2>4, EnterTimer DEF IInv, Rest
    <3>2. pc' \in [Threads -> Places] /\ pc'[t] = p /\ \A u \in Threads \ {t} : pc'[u] = pc[u]
      BY <1>2, <2>4, GoesTo DEF IInv, Rest
    <3>3. Sound(call', pc'["main"]) BY <1>1, <2>1, <2>2, <3>2 DEF Threads
    <3> QED BY <2>1, <3>1, <3>2, <3>3, Closing
  <2> QED BY <2>1, <2>3, <2>4
<1>4. ASSUME FollowupTimer(t) \/ RetryTimer(t)
      PROVE  IInv'
  <2> DEFINE f == [call EXCEPT !.count = @ + 1, !.followups = @ + 1]
             r == [call EXCEPT !.count = @ + 1, !.retries = @ + 1]
  <2>1. /\ pc[t] \in TimerPlaces /\ pc[t] # "force" /\ Goes(t, "idle") /\ call' \in {f, r}
        /\ UNCHANGED <<account, cut, redialled, changes, others>>
    BY <1>4 DEF FollowupTimer, RetryTimer, TimerPlaces
  <2>2. call.count + 1 \in Nat /\ call.followups + 1 \in Nat /\ call.retries + 1 \in Nat
    BY <1>1 DEF Call
  <2>3. f \in Call BY <1>1, <2>2, ZenonT(30) DEF Call
  <2>4. SameRefresh(call, f) /\ f.count = call.count + 1 BY <1>1 DEF Call, SameRefresh
  <2>5. r \in Call BY <1>1, <2>2, ZenonT(30) DEF Call
  <2>6. SameRefresh(call, r) /\ r.count = call.count + 1 BY <1>1 DEF Call, SameRefresh
  <2> HIDE DEF f, r
  <2>7. Sound(call', m) /\ call'.count = call.count + 1
    BY <1>1, <2>1, <2>3, <2>4, <2>5, <2>6, SameSound
  <2>8. CountInv' BY <1>1, <2>1, <2>7, LeaveTimer DEF IInv, Rest
  <2>9. pc' \in [Threads -> Places] /\ pc'[t] = "idle" /\ \A u \in Threads \ {t} : pc'[u] = pc[u]
    BY <1>2, <2>1, GoesTo DEF IInv, Rest
  <2>10. Sound(call', pc'["main"]) BY <2>1, <2>7, <2>9, SoundAnywhere DEF Threads
  <2> QED BY <2>1, <2>8, <2>9, <2>10, Closing
<1>5. ASSUME ForceFailure(t)
      PROVE  IInv'
  <2> DEFINE c == Clear(call)
  <2>1. c \in Call /\ c.count = call.count /\ \A n : Sound(c, n) BY <1>1, ClearSound, ZenonT(30) DEF Sound
  <2>2. call' = [c EXCEPT !.deferred = FALSE] BY <1>5 DEF ForceFailure
  <2> HIDE DEF c
  <2>3. call'.count = call.count /\ \A n : Sound(call', n) BY <2>1, <2>2, DeferredSound, ZenonT(30)
  <2>4. \E p \in {"idle", "hangup"} : Goes(t, p) BY <1>5 DEF ForceFailure
  <2>5. UNCHANGED <<account, cut, redialled, changes, others>> BY <1>5 DEF ForceFailure
  <2> QED BY <1>2, <2>3, <2>4, <2>5, ClosingGo
<1>6. ASSUME ForceHangup(t)
      PROVE  IInv'
  <2>1. call' = Removed(call) /\ Goes(t, "idle")
        /\ UNCHANGED <<account, cut, redialled, changes, others>>
    BY <1>6 DEF ForceHangup
  <2>2. call'.count = call.count /\ \A n : Sound(call', n) BY <1>1, <2>1, RemovedSound
  <2> QED BY <1>2, <2>1, <2>2, ClosingGo
<1> QED BY <1>3, <1>4, <1>5, <1>6 DEF Scheduling

(* reinviteActiveCalls, on finding the state of the call *)
LEMMA ReachCallStep ==
    ASSUME IInv, ReachCall
    PROVE  IInv'
<1> DEFINE m == pc["main"]
           l == [call EXCEPT !.deferred = TRUE, !.rebind = FALSE, !.listener = call.app = "setup"]
<1>1. call \in Call /\ Sound(call, m) BY DEF IInv, Sound
<1>2. /\ {"idle", "bind"} \subseteq Places \ TimerPlaces /\ "sip" \in Threads /\ "main" \in Threads
  BY DEF Places, TimerPlaces, Threads
<1>3. /\ \E p \in {"idle", "bind"} : Goes("sip", p)
      /\ call' \in {call, Removed(call), l}
      /\ redialled' \in {redialled, redialled \cup {call.app}}
      /\ redialled' # redialled => call.app # "connected"
      /\ UNCHANGED <<account, cut, changes, others>>
  BY DEF ReachCall
<1>4. (call.app = "setup") \in BOOLEAN OBVIOUS
<1>5. l \in Call BY <1>1, <1>4, ZenonT(30) DEF Call
<1>6. SameRefresh(call, l) /\ l.count = call.count BY <1>1 DEF Call, SameRefresh
<1> HIDE DEF l
<1>7. Sound(call', m) /\ call'.count = call.count
  BY <1>1, <1>3, <1>5, <1>6, SameSound, RemovedSound
<1>8. pc' \in [Threads -> Places] /\ pc'["main"] = m
  BY <1>2, <1>3, GoesTo DEF IInv, Rest, Threads
<1>9. CountInv' BY <1>2, <1>3, <1>7, GoesCount DEF IInv, Rest
<1>10. redialled' \subseteq {"setup", "over"} BY <1>1, <1>3 DEF IInv, Rest, Call
<1> QED BY <1>3, <1>7, <1>8, <1>9, <1>10 DEF IInv, Rest

(* No outcome of a re-INVITE takes a thread straight to a timer or to the end of the call. *)
LEMMA AfterPlaces ==
    ASSUME NEW r \in {"sent", "pending", "error"}, NEW p \in {"idle", "followup"}
    PROVE  After(r, p) \in Places \ TimerPlaces
<1>1. After(r, p) \in {"idle", "followup", "retry"} BY DEF After
<1> QED BY <1>1 DEF Places, TimerPlaces

(* setSipTransport and the re-INVITE of reinviteActiveCalls *)
LEMMA BindCallStep ==
    ASSUME IInv, BindCall
    PROVE  IInv'
<1> DEFINE m == pc["main"]
           b == [call EXCEPT !.rebind = TRUE]
<1>1. call \in Call /\ Sound(call, m) BY DEF IInv, Sound
<1>2. b \in Call BY <1>1, ZenonT(30) DEF Call
<1>3. SameRefresh(call, b) /\ b.count = call.count BY <1>1 DEF Call, SameRefresh
<1>4. PICK o \in ReinviteOnConnectivityChange(b) :
        call' = o.call /\ Goes("sip", After(o.result, "followup"))
  BY DEF BindCall
<1> HIDE DEF b
<1>5. Sound(b, m) BY <1>1, <1>2, <1>3, SameSound
<1>6. Sound(o.call, m) /\ o.call.count = b.count /\ o.result \in {"sent", "pending", "error"}
  BY <1>2, <1>5, ReinviteSound
<1>7. After(o.result, "followup") \in Places \ TimerPlaces BY <1>6, AfterPlaces
<1>8. UNCHANGED <<account, cut, redialled, changes, others>> BY DEF BindCall
<1>9. "sip" \in Threads BY DEF Threads
<1> QED BY <1>3, <1>4, <1>6, <1>7, <1>8, <1>9, ClosingGo

(* PJSIP drops the transaction of a call that awaits no answer. *)
LEMMA DroppedSound ==
    ASSUME NEW k \in Call, NEW m, NEW at, Sound(k, m), ~(k.pending /\ k.awaiting)
    PROVE  Sound(Dropped(k, at), m) /\ Dropped(k, at).count = k.count
<1> DEFINE a == [k EXCEPT !.tsx = "none"]
           b == [k EXCEPT !.tsx = "none", !.lingering = TRUE]
<1>1. Dropped(k, at) \in {a, b, k} BY DEF Dropped
<1>2. a \in Call /\ b \in Call BY ZenonT(30) DEF Call
<1>3. /\ a.pending = k.pending /\ a.awaiting = k.awaiting /\ a.app = k.app /\ a.dogs = k.dogs
      /\ a.session = k.session /\ a.count = k.count
  BY DEF Call
<1>4. /\ b.pending = k.pending /\ b.awaiting = k.awaiting /\ b.app = k.app /\ b.dogs = k.dogs
      /\ b.session = k.session /\ b.count = k.count
  BY DEF Call
<1> HIDE DEF a, b
<1>5. Sound(a, m) BY <1>2, <1>3 DEF Sound
<1>6. Sound(b, m) BY <1>2, <1>4 DEF Sound
<1> QED BY <1>1, <1>3, <1>4, <1>5, <1>6

(* onConnectivityReinviteFinalResponse: the test, and what follows from it *)
LEMMA ResponseSteps ==
    ASSUME IInv, FinalResponse \/ Settle \/ Fail
    PROVE  IInv'
<1> DEFINE m == pc["main"]
<1>1. call \in Call /\ Sound(call, m) BY DEF IInv, Sound
<1>2. /\ {"idle", "settle", "fail", "lateFail", "retry", "force"} \subseteq Places \ TimerPlaces
      /\ "sip" \in Threads /\ "main" \in Threads
  BY DEF Places, TimerPlaces, Threads
<1>3. UNCHANGED <<account, cut, redialled, changes, others>> BY DEF FinalResponse, Settle, Fail
<1>4. CASE FinalResponse
  <2>1. CASE Awaited
    <3>1. call' = call /\ \E p \in {"settle", "fail", "lateFail"} : Goes("sip", p)
      BY <1>4, <2>1 DEF FinalResponse
    <3> QED BY <1>1, <1>2, <1>3, <3>1, ClosingGo
  <2>2. CASE ~Awaited
    <3>1. call' = Dropped(call, pc["sip"]) /\ Goes("sip", "idle")
      BY <1>4, <2>2 DEF FinalResponse
    <3>2. Sound(call', m) /\ call'.count = call.count
      BY <1>1, <2>2, <3>1, DroppedSound DEF Awaited
    <3> QED BY <1>2, <1>3, <3>1, <3>2, ClosingGo
  <2> QED BY <2>1, <2>2
<1>5. CASE Settle
  <2> DEFINE r == Reset(call)
  <2>1. Sound(r, m) /\ r.count = 0 /\ r \in Call BY <1>1, ResetSound DEF Sound
  <2>2. ~r.pending
    <3>1. Clear(call) \in Call /\ Clear(call).pending = FALSE BY <1>1, ClearSound, ZenonT(30) DEF Sound
    <3> QED BY <3>1 DEF Reset, Call
  <2>3. call' = Dropped(r, "settle") /\ Goes("sip", "idle") BY <1>5 DEF Settle
  <2> HIDE DEF r
  <2>4. Sound(call', m) /\ call'.count = 0 BY <2>1, <2>2, <2>3, DroppedSound
  <2>5. CountInv' BY <1>2, <2>3, <2>4, ResetCount DEF IInv, Rest
  <2>6. pc' \in [Threads -> Places] /\ pc'["main"] = m
    BY <1>2, <2>3, GoesTo DEF IInv, Rest, Threads
  <2> QED BY <1>3, <2>4, <2>5, <2>6, Closing
<1>6. CASE Fail
  <2> DEFINE c == Clear(call)
  <2>1. Sound(c, m) /\ c.count = call.count /\ c \in Call /\ ~c.pending
    BY <1>1, ClearSound, ZenonT(30) DEF Sound
  <2>2. call' = Dropped(c, pc["sip"]) /\ \E p \in {"retry", "force"} : Goes("sip", p)
    BY <1>6 DEF Fail
  <2> HIDE DEF c
  <2>3. Sound(call', m) /\ call'.count = call.count BY <2>1, <2>2, DroppedSound
  <2> QED BY <1>2, <1>3, <2>2, <2>3, ClosingGo
<1> QED BY <1>4, <1>5, <1>6

(* All the steps with which the SIP thread goes on *)
LEMMA SipThreadSteps ==
    ASSUME IInv, SipSteps
    PROVE  IInv'
<1>1. "sip" \in Threads BY DEF Threads
<1> QED BY <1>1, ReachCallStep, BindCallStep, ResponseSteps, SchedulingSteps DEF SipSteps

(* The two timers: the thread that runs them is not giving the call up. *)
LEMMA TimerSteps ==
    ASSUME IInv, Followup \/ Retry
    PROVE  IInv'
<1> DEFINE m == pc["main"]
           f == [call EXCEPT !.followups = @ - 1]
           r == [call EXCEPT !.retries = @ - 1]
<1>1. call \in Call /\ Sound(call, m) BY DEF IInv, Sound
<1>2. m = "idle" /\ UNCHANGED <<account, cut, redialled, changes, others>> BY DEF Followup, Retry
<1>3. ASSUME NEW k \in {f, r}, k \in Call, SameRefresh(call, k), k.count = call.count,
             \/ call' = k /\ pc' = pc
             \/ \E o \in ReinviteOnConnectivityChange(k) : \E p \in {"idle", "followup"} :
                    call' = o.call /\ Goes("main", After(o.result, p))
      PROVE  IInv'
  <2>1. Sound(k, m) BY <1>1, <1>3, SameSound
  <2>2. CASE call' = k /\ pc' = pc BY <1>2, <1>3, <2>1, <2>2, ClosingStay
  <2>3. ASSUME NEW o \in ReinviteOnConnectivityChange(k), NEW p \in {"idle", "followup"},
               call' = o.call, Goes("main", After(o.result, p))
        PROVE  IInv'
    <3>1. Sound(o.call, m) /\ o.call.count = k.count /\ o.result \in {"sent", "pending", "error"}
      BY <1>3, <2>1, <2>3, ReinviteSound
    <3>2. After(o.result, p) \in Places \ TimerPlaces BY <2>3, <3>1, AfterPlaces
    <3>3. \A n : Sound(call', n) BY <1>2, <2>3, <3>1, SoundAnywhere
    <3>4. "main" \in Threads BY DEF Threads
    <3> QED BY <1>2, <1>3, <2>3, <3>1, <3>2, <3>3, <3>4, ClosingGo
  <2> QED BY <1>3, <2>2, <2>3
<1>4. CASE Followup
  <2>1. call.followups - 1 \in Nat BY <1>1, <1>4 DEF Followup, Call
  <2>2. f \in Call BY <1>1, <2>1 DEF Call
  <2>3. SameRefresh(call, f) /\ f.count = call.count BY <1>1 DEF Call, SameRefresh
  <2>4. \/ call' = f /\ pc' = pc
        \/ \E o \in ReinviteOnConnectivityChange(f) :
              call' = o.call /\ Goes("main", After(o.result, "followup"))
    BY <1>4 DEF Followup
  <2> HIDE DEF f
  <2> QED BY <1>3, <2>2, <2>3, <2>4
<1>5. CASE Retry
  <2>1. call.retries - 1 \in Nat BY <1>1, <1>5 DEF Retry, Call
  <2>2. r \in Call BY <1>1, <2>1 DEF Call
  <2>3. SameRefresh(call, r) /\ r.count = call.count BY <1>1 DEF Call, SameRefresh
  <2>4. \/ call' = r /\ pc' = pc
        \/ \E o \in ReinviteOnConnectivityChange(r) :
              call' = o.call /\ Goes("main", After(o.result, "idle"))
    BY <1>5 DEF Retry
  <2> HIDE DEF r
  <2> QED BY <1>3, <2>2, <2>3, <2>4
<1> QED BY <1>4, <1>5

(* onConnectivityDialogRefreshWatchdog: the watchdog of a pending refresh gives the call up. *)
LEMMA WatchdogStep ==
    ASSUME IInv, NEW g \in {"current", "old"}, Watchdog(g)
    PROVE  IInv'
<1> DEFINE x == call.dogs \ {g}
           w == [call EXCEPT !.dogs = x]
           p == IF call.pending /\ g = "current" /\ call.app # "over" THEN "force" ELSE "idle"
<1>1. call \in Call /\ Sound(call, "idle") /\ pc["main"] = "idle"
  BY DEF IInv, Sound, Watchdog
<1>2. call' = w /\ Goes("main", p) /\ UNCHANGED <<account, cut, redialled, changes, others>>
  BY DEF Watchdog
<1>3. x \in Watchdogs /\ ("current" \in call.dogs /\ g # "current" => "current" \in x)
  BY <1>1 DEF Call, Watchdogs
<1>4. p = "force" \/ (p = "idle" /\ (call.pending /\ call.app # "over" => g # "current")) OBVIOUS
<1> HIDE DEF x, p
<1>5. w \in Call BY <1>1, <1>3 DEF Call
<1>6. /\ w.pending = call.pending /\ w.awaiting = call.awaiting /\ w.app = call.app
      /\ w.tsx = call.tsx /\ w.session = call.session /\ w.count = call.count /\ w.dogs = x
  BY <1>1 DEF Call
<1> HIDE DEF w
<1>7. Sound(w, p) BY <1>1, <1>3, <1>4, <1>5, <1>6 DEF Sound
<1>8. /\ p \in Places \ TimerPlaces /\ "main" \in Threads
  BY <1>4 DEF Places, TimerPlaces, Threads
<1>9. pc' \in [Threads -> Places] /\ pc'["main"] = p BY <1>2, <1>8, GoesTo DEF IInv, Rest
<1>10. CountInv' BY <1>2, <1>6, <1>8, GoesCount DEF IInv, Rest
<1> QED BY <1>2, <1>7, <1>9, <1>10, Closing

(* The closures of onAnswered, onClosed and onFailure on the main thread *)
LEMMA ClosureSteps ==
    ASSUME IInv, Answered \/ CloseCall
    PROVE  IInv'
<1> DEFINE m == pc["main"]
           a == IF call.app = "setup" THEN "connected" ELSE call.app
           k == [call EXCEPT !.answered = FALSE, !.app = a]
<1>1. call \in Call /\ Sound(call, m) BY DEF IInv, Sound
<1>2. pc' = pc /\ UNCHANGED <<account, cut, redialled, changes, others>> BY DEF Answered, CloseCall
<1>3. CASE Answered
  <2>1. call' \in TryDeferred(k) BY <1>3 DEF Answered
  <2>2. a \in {"connected", "over"} /\ (a = "over" <=> call.app = "over") BY <1>1 DEF Call
  <2> HIDE DEF a
  <2>3. k \in Call BY <1>1, <2>2, ZenonT(30) DEF Call
  <2>4. /\ k.pending = call.pending /\ k.awaiting = call.awaiting /\ k.app = a
        /\ k.tsx = call.tsx /\ k.session = call.session /\ k.count = call.count
        /\ k.dogs = call.dogs
    BY <1>1 DEF Call
  <2> HIDE DEF k
  <2>5. Sound(k, m) BY <1>1, <2>2, <2>3, <2>4 DEF Sound
  <2>6. Sound(call', m) /\ call'.count = call.count BY <2>1, <2>3, <2>4, <2>5, TryDeferredSound
  <2> QED BY <1>2, <2>6, ClosingStay
<1>4. CASE CloseCall
  <2>1. call' = Removed(call) BY <1>4 DEF CloseCall
  <2> QED BY <1>1, <1>2, <2>1, RemovedSound, ClosingStay
<1> QED BY <1>3, <1>4

(* The peer's answers to a connectivity re-INVITE *)
LEMMA TransactionSteps ==
    ASSUME IInv, ReinviteAccepted \/ ReinviteUnacceptable \/ ReinviteRefused \/ RefusedTerminates
    PROVE  IInv'
<1> DEFINE m == pc["main"]
           l == [call EXCEPT !.lingering = FALSE]
<1>1. call \in Call /\ Sound(call, m) BY DEF IInv, Sound
<1>2. /\ {"accepted", "refused", "lateRefusal"} \subseteq Places \ TimerPlaces
      /\ "sip" \in Threads /\ "main" \in Threads
  BY DEF Places, TimerPlaces, Threads
<1>3. CASE ReinviteAccepted
  <2>1. call' = call /\ Goes("sip", "accepted") /\ UNCHANGED <<account, redialled, changes, others>>
    BY <1>3 DEF ReinviteAccepted
  <2>2. cut' \in BOOLEAN BY <1>3 DEF ReinviteAccepted
  <2>3. pc' \in [Threads -> Places] /\ pc'["main"] = m
    BY <1>2, <2>1, GoesTo DEF IInv, Rest, Threads
  <2>4. CountInv' BY <1>2, <2>1, GoesCount DEF IInv, Rest
  <2> QED BY <1>1, <2>1, <2>2, <2>3, <2>4 DEF IInv, Rest
<1>4. CASE ReinviteUnacceptable
  <2>1. /\ call' = Removed(call) /\ pc' = pc
        /\ UNCHANGED <<account, cut, redialled, changes, others>>
    BY <1>4 DEF ReinviteUnacceptable
  <2> QED BY <1>1, <2>1, RemovedSound, ClosingStay
<1>5. CASE ReinviteRefused
  <2>1. /\ call' = call /\ Goes("sip", "refused")
        /\ UNCHANGED <<account, cut, redialled, changes, others>>
    BY <1>5 DEF ReinviteRefused
  <2> QED BY <1>1, <1>2, <2>1, ClosingGo
<1>6. CASE RefusedTerminates
  <2>1. /\ call' = l /\ Goes("sip", "lateRefusal")
        /\ UNCHANGED <<account, cut, redialled, changes, others>>
    BY <1>6 DEF RefusedTerminates
  <2>2. l \in Call BY <1>1, ZenonT(30) DEF Call
  <2>3. SameRefresh(call, l) /\ l.count = call.count BY <1>1 DEF Call, SameRefresh
  <2> HIDE DEF l
  <2> QED BY <1>1, <1>2, <2>1, <2>2, <2>3, SameSound, ClosingGo
<1> QED BY <1>3, <1>4, <1>5, <1>6

(* Re-INVITEs for other reasons, and their answers *)
LEMMA OtherSteps ==
    ASSUME IInv, OtherStarts \/ OtherAccepted \/ OtherRefused
    PROVE  IInv'
<1> DEFINE m == pc["main"]
           n == [call EXCEPT !.tsx = "none"]
           s == [call EXCEPT !.tsx = "other"]
<1>1. call \in Call /\ Sound(call, m) BY DEF IInv, Sound
<1>2. (call.tsx \notin {"own", "past"} /\ call.app # "over") \/ call.tsx = "other"
  BY ZenonT(30) DEF OtherStarts, OtherAccepted, OtherRefused
<1>3. n \in Call /\ s \in Call BY <1>1 DEF Call
<1>4. /\ n.pending = call.pending /\ n.awaiting = call.awaiting /\ n.app = call.app
      /\ n.dogs = call.dogs /\ n.session = call.session /\ n.count = call.count
  BY <1>1 DEF Call
<1>5. /\ s.pending = call.pending /\ s.awaiting = call.awaiting /\ s.app = call.app
      /\ s.dogs = call.dogs /\ s.session = call.session /\ s.count = call.count
  BY <1>1 DEF Call
<1>6. Sound(n, m) /\ Sound(s, m)
  <2> HIDE DEF n, s
  <2> QED BY <1>1, <1>2, <1>3, <1>4, <1>5 DEF Sound
<1>7. CASE OtherStarts
  <2>1. call' = s /\ pc' = pc /\ UNCHANGED <<account, cut, redialled, changes>> BY <1>7 DEF OtherStarts
  <2>2. others' \in 0..MaxOthers
    BY <1>7, RefreshBounds DEF RefreshBounds, OtherStarts, IInv, Rest
  <2>3. CountInv' BY <1>5, <2>1, StaysCount DEF IInv
  <2> HIDE DEF s
  <2> QED BY <1>6, <2>1, <2>2, <2>3 DEF IInv, Rest
<1>8. CASE OtherAccepted
  <2>1. /\ call' = n \/ call' \in TryDeferred(n)
        /\ pc' = pc /\ UNCHANGED <<account, cut, redialled, changes, others>>
    BY <1>8 DEF OtherAccepted
  <2> HIDE DEF n
  <2>2. Sound(call', m) /\ call'.count = call.count BY <1>3, <1>4, <1>6, <2>1, TryDeferredSound
  <2> QED BY <2>1, <2>2, ClosingStay
<1>9. CASE OtherRefused
  <2>1. PICK ours \in BOOLEAN : call' = [call EXCEPT !.tsx = "none", !.lingering = @ \/ ours]
    BY <1>9, ZenonT(30) DEF OtherRefused
  <2>2. pc' = pc /\ UNCHANGED <<account, cut, redialled, changes, others>> BY <1>9, ZenonT(30) DEF OtherRefused
  <2> DEFINE g == call.lingering \/ ours
             r == [n EXCEPT !.lingering = g]
  <2>3. g \in BOOLEAN OBVIOUS
  <2>4. call' = r BY <2>1
  <2> HIDE DEF g, n
  <2>5. r \in Call BY <1>3, <2>3 DEF Call
  <2>6. SameRefresh(n, r) /\ r.count = n.count BY <1>3 DEF Call, SameRefresh
  <2> HIDE DEF r
  <2>7. Sound(call', m) /\ call'.count = call.count BY <1>4, <1>6, <2>4, <2>5, <2>6, SameSound
  <2> QED BY <2>2, <2>7, ClosingStay
<1> QED BY <1>7, <1>8, <1>9

(* The dialog is confirmed, the call ends, or a client answers it or hangs up. *)
LEMMA CallSteps ==
    ASSUME IInv, Confirmed \/ PeerEnds \/ TransportClosed \/ Hangup
    PROVE  IInv'
<1> DEFINE m == pc["main"]
           c == [call EXCEPT !.session = "confirmed", !.tsx = "none", !.answered = TRUE]
           e(a, b) == [call EXCEPT !.app = a, !.session = "ended", !.tsx = "none",
                                   !.closing = TRUE, !.listener = b]
           t == [call EXCEPT !.app = "over", !.listener = FALSE, !.closing = TRUE]
<1>1. call \in Call /\ Sound(call, m) BY DEF IInv, Sound
<1>2. pc' = pc /\ UNCHANGED <<account, cut, redialled, changes, others>>
  BY DEF Confirmed, PeerEnds, TransportClosed, Hangup
<1>3. CASE Confirmed
  <2>1. call' = c /\ call.session = "early" BY <1>3 DEF Confirmed
  <2>2. c \in Call BY <1>1, ZenonT(30) DEF Call
  <2>3. /\ c.pending = call.pending /\ c.awaiting = call.awaiting /\ c.app = call.app
        /\ c.dogs = call.dogs /\ c.count = call.count
    BY <1>1 DEF Call
  <2> HIDE DEF c
  <2>4. ~call.awaiting BY <1>1, <2>1 DEF Sound
  <2>5. Sound(c, m) BY <1>1, <2>2, <2>3, <2>4 DEF Sound
  <2> QED BY <1>2, <2>1, <2>3, <2>5, ClosingStay
<1>4. CASE PeerEnds
  <2>1. PICK a \in {"over", call.app} : call' = e(a, call.listener /\ a # "over")
    BY <1>4, ZenonT(30) DEF PeerEnds
  <2> DEFINE b == call.listener /\ a # "over"
  <2>2. a \in {"setup", "connected", "over"} BY <1>1, <2>1 DEF Call
  <2>3. b \in BOOLEAN OBVIOUS
  <2>4. call' = e(a, b) BY <2>1
  <2> HIDE DEF b
  <2>5. e(a, b) \in Call BY <1>1, <2>2, <2>3, ZenonT(30) DEF Call
  <2>6. /\ e(a, b).pending = call.pending /\ e(a, b).app = a /\ e(a, b).session = "ended"
        /\ e(a, b).dogs = call.dogs /\ e(a, b).count = call.count
    BY <1>1 DEF Call
  <2> HIDE DEF e
  <2>7. Sound(e(a, b), m) BY <1>1, <2>1, <2>5, <2>6 DEF Sound
  <2> QED BY <1>2, <2>4, <2>6, <2>7, ClosingStay
<1>5. CASE TransportClosed
  <2>1. call' \in {call, t} BY <1>5 DEF TransportClosed
  <2>2. t \in Call BY <1>1, ZenonT(30) DEF Call
  <2>3. /\ t.app = "over" /\ t.pending = call.pending /\ t.awaiting = call.awaiting
        /\ t.session = call.session /\ t.tsx = call.tsx /\ t.count = call.count
    BY <1>1 DEF Call
  <2> HIDE DEF t
  <2>4. Sound(call', m) /\ call'.count = call.count BY <1>1, <2>1, <2>2, <2>3 DEF Sound
  <2> QED BY <1>2, <2>4, ClosingStay
<1>6. CASE Hangup
  <2>1. call' = Removed(call) BY <1>6 DEF Hangup
  <2> QED BY <1>1, <1>2, <2>1, RemovedSound, ClosingStay
<1> QED BY <1>3, <1>4, <1>5, <1>6

(* answer, with the listener that sends what was deferred *)
LEMMA AnswerStep ==
    ASSUME IInv, Answer
    PROVE  IInv'
<1> DEFINE m == pc["main"]
           k == [call EXCEPT !.app = "connected", !.listener = FALSE, !.rebind = FALSE,
                             !.exposed = account.preparing]
<1>1. call \in Call /\ Sound(call, m) /\ account.preparing \in BOOLEAN
  BY DEF IInv, Sound, Rest, Account
<1>2. /\ call' = k \/ call' \in TryDeferred(k)
      /\ call.app = "setup" /\ pc' = pc /\ UNCHANGED <<account, redialled, changes, others>>
  BY DEF Answer
<1>3. cut' \in BOOLEAN BY DEF Answer
<1>4. k \in Call BY <1>1, ZenonT(30) DEF Call
<1>5. /\ k.pending = call.pending /\ k.awaiting = call.awaiting /\ k.dogs = call.dogs
      /\ k.tsx = call.tsx /\ k.session = call.session /\ k.count = call.count
  BY <1>1 DEF Call
<1> HIDE DEF k
<1>6. Sound(k, m) BY <1>1, <1>2, <1>4, <1>5 DEF Sound
<1>7. Sound(call', m) /\ call'.count = call.count BY <1>2, <1>4, <1>5, <1>6, TryDeferredSound
<1>8. CountInv' BY <1>2, <1>7, StaysCount DEF IInv
<1> QED BY <1>2, <1>3, <1>7, <1>8 DEF IInv, Rest

----------------------------------------------------------------------------
(* The invariant of the dialog refresh, for every bound. *)
THEOREM Inductive == Spec => []IInv
<1>1. Init => IInv
  <2> SUFFICES ASSUME Init PROVE IInv OBVIOUS
  <2> DEFINE none == {}
             First(b) == [outgoing |-> b, app |-> "setup", session |-> "early", tsx |-> "other",
                lingering |-> FALSE, rebind |-> FALSE, exposed |-> FALSE, deferred |-> FALSE,
                pending |-> FALSE, awaiting |-> FALSE, count |-> 0, listener |-> FALSE,
                dogs |-> none, followups |-> 0, retries |-> 0, answered |-> FALSE,
                closing |-> FALSE]
  <2>1. none \in Watchdogs BY DEF Watchdogs
  <2>b. PICK b \in BOOLEAN : call = First(b) BY Zenon DEF Init
  <2> HIDE DEF none
  <2>2. call \in Call BY <2>1, <2>b DEF Call
  <2>3. ~call.pending /\ ~call.awaiting /\ call.count = 0 BY <2>b
  <2>4. Sound(call, pc["main"]) BY <2>2, <2>3 DEF Sound
  <2>5. \A t \in Threads : pc[t] = "idle" BY DEF Init
  <2>6. CountInv
    BY <2>3, <2>5, RefreshBounds DEF RefreshBounds, CountInv, TimerPlaces, Threads
  <2>7. account \in Account /\ pc \in [Threads -> Places] BY DEF Init, Account, Places
  <2>8. cut = FALSE /\ redialled = {} /\ changes = 0 /\ others = 0 BY DEF Init
  <2>9. 0 \in 0..MaxChanges /\ 0 \in 0..MaxOthers BY RefreshBounds DEF RefreshBounds
  <2>10. Rest BY <2>7, <2>8, <2>9, ZenonT(30) DEF Rest
  <2> QED BY <2>4, <2>6, <2>10 DEF IInv
<1>2. IInv /\ [Next]_vars => IInv'
  <2> SUFFICES ASSUME IInv, [Next]_vars PROVE IInv' OBVIOUS
  <2>1. CASE UNCHANGED vars
    BY <2>1 DEF vars, IInv, CountInv, Rest
  <2>2. ASSUME NEW t \in Threads, Scheduling(t) PROVE IInv' BY <2>2, SchedulingSteps
  <2>3. "main" \in Threads BY DEF Threads
  <2>4. CASE Timers BY <2>4, TimerSteps, WatchdogStep DEF Timers
  <2>5. CASE Next
    BY <2>2, <2>3, <2>4, <2>5, AccountSteps, ReinviteActiveCallsStep, SipThreadSteps, ClosureSteps,
       CallSteps, TransactionSteps, OtherSteps, AnswerStep DEF Next, MainSteps
  <2> QED BY <2>1, <2>5
<1> QED BY <1>1, <1>2, PTL DEF Spec

(* The members of the call keep their types, and two threads that retry at *)
(* once exceed MAX_CONNECTIVITY_REINVITE_RETRIES by at most one.           *)
THEOREM TypeCorrect == Spec => []TypeOK
<1>1. IInv => TypeOK BY DEF IInv, Sound, CountInv, Rest, TypeOK
<1> QED BY <1>1, Inductive, PTL

(* A pending refresh always has its watchdog: beginConnectivityDialogRefresh *)
(* cannot leave a call waiting without a deadline.                          *)
THEOREM EveryRefreshIsWatched == Spec => []RefreshIsWatched
<1>1. IInv => RefreshIsWatched BY DEF IInv, Sound, RefreshIsWatched
<1> QED BY <1>1, Inductive, PTL

(* No refresh waits for the answer to a re-INVITE that has been answered. *)
THEOREM NoAnswerMissed == Spec => []AwaitedIsUnanswered
<1>1. IInv => AwaitedIsUnanswered BY DEF IInv, Sound, AwaitedIsUnanswered, Awaited
<1> QED BY <1>1, Inductive, PTL
============================================================================
