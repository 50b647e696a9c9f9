----------------------------- MODULE Subscriptions -----------------------------
(***************************************************************************)
(* What an account subscribes to and publishes, and how that outlives a    *)
(* lost transport: SIPEvents and CustomEventSubClient (event packages),    *)
(* SIPPresence and PresSubClient (presence), all under src/src/sip, with   *)
(* the parts of SIPAccount (src/src/sip/sipaccount.cpp) that make a        *)
(* subscription wait, invalidate it and bring it back.                     *)
(*                                                                         *)
(* Threads: api (a client subscribes, unsubscribes, publishes), sip        *)
(* (answers of the registrar and of the notifiers) and main (the recovery  *)
(* of the transport).  The account's flags are atomics that each function  *)
(* reads one after the other, so what comes before and after such a read   *)
(* is a step.  A step inside a subscription client runs without another    *)
(* thread inside the same client's step, but two threads can be between    *)
(* the steps of one client's subscribe().                                  *)
(*                                                                         *)
(* The recovery and the registration are cut down to what subscriptions    *)
(* see of them (TransportRecovery has them in full).  PJSIP refreshes the  *)
(* registration and the subscriptions by itself.                           *)
(***************************************************************************)
EXTENDS Naturals, FiniteSets

CONSTANTS
    Events,      \* what is asked of SIPEvents: pairs of a URI and an event
    Presence,    \* the URIs asked of SIPPresence, at most MAX_N_SUB_CLIENT
    MaxAsks,     \* bound: requests of the client
    MaxFaults,   \* bound: how often the network or a server intervenes
    MaxSessions  \* bound: publication sessions alive at once

ASSUME SubscriptionBounds ==
    /\ Events \cap Presence = {}
    /\ MaxAsks \in Nat /\ MaxFaults \in Nat /\ MaxSessions \in Nat \ {0}

Clients == Events \cup Presence
Callers == {"api", "sip"}
Sessions == 1..MaxSessions
NoSession == 0
Nothing == "nothing"

VARIABLES
    acc,     \* the members of SIPAccount that subscriptions depend on
    client,  \* the subscription clients, by what they subscribe to
    call,    \* where a thread is in subscribeClient() and subscribe()
    sync,    \* where the SIP thread is in runPostRegisterRecoverySync
    main,    \* where the main thread is in recoverTransport
    pub,     \* SIPPresence: publish_sess_, the sessions alive, what the server supports
    asked,   \* history: what the client last asked for
    told,    \* history: the client was last told that the subscription is off
    raced,   \* history: two threads were in the same client at a time
    asks, faults

vars == <<acc, client, call, sync, main, pub, asked, told, raced, asks, faults>>

EvsubStates == {"none", "sent", "on"}

Account ==
    [transport : BOOLEAN,   \* transport_ is set
     recovering : BOOLEAN,  \* isTransportRecoveryActive()
     reg : {"TRYING", "REGISTERED", "ERROR"},
     waiting : BOOLEAN,     \* a REGISTER of regc_ has not been answered
     rebind : BOOLEAN,      \* pendingTransportRebind_
     resub : BOOLEAN,       \* needsResubscribe_
     repub : BOOLEAN]       \* needsRepublish_

(* stray: a subscription in PJSIP that still names the client, which has   *)
(* put another one, or none, in its sub_.                                  *)
SubClient ==
    [listed : BOOLEAN, desired : BOOLEAN, monitored : BOOLEAN,
     sub : EvsubStates,     \* sub_ and dlg_
     leaving : BOOLEAN,     \* a SUBSCRIBE that expires at once was sent
     stale : BOOLEAN,       \* its dialog uses a transport the account has left
     stray : EvsubStates]

TypeOK ==
    /\ acc \in Account
    /\ client \in [Clients -> SubClient]
    /\ call \in [Callers -> [at : {"idle", "asked", "subscribe", "send"},
                             on : Clients \cup {Nothing}, can : BOOLEAN, new : BOOLEAN]]
    /\ \A t \in Callers : call[t].at = "idle" <=> call[t].on = Nothing
    /\ sync \in [at : {"idle", "sync", "events", "presence"}, todo : SUBSET Clients,
                 resub : BOOLEAN, repub : BOOLEAN]
    /\ main \in {"idle", "events", "presence", "drop", "switch", "finish"}
    /\ pub \in [cur : Sessions \cup {NoSession}, live : SUBSET Sessions,
                publish : BOOLEAN, subscribe : BOOLEAN, enabled : BOOLEAN]
    /\ asked \in [Clients -> BOOLEAN] /\ told \in [Clients -> BOOLEAN]
    /\ raced \in [Clients -> BOOLEAN]
    /\ asks \in 0..MaxAsks /\ faults \in 0..MaxFaults

NoClient ==
    [listed |-> FALSE, desired |-> FALSE, monitored |-> FALSE, sub |-> "none",
     leaving |-> FALSE, stale |-> FALSE, stray |-> "none"]

NoCall == [at |-> "idle", on |-> Nothing, can |-> FALSE, new |-> FALSE]
NoSync == [at |-> "idle", todo |-> {}, resub |-> FALSE, repub |-> FALSE]

(* An account whose first REGISTER is under way. *)
Init ==
    /\ acc = [transport |-> TRUE, recovering |-> FALSE, reg |-> "TRYING", waiting |-> TRUE,
              rebind |-> FALSE, resub |-> FALSE, repub |-> FALSE]
    /\ client = [c \in Clients |-> NoClient]
    /\ call = [t \in Callers |-> NoCall]
    /\ sync = NoSync /\ main = "idle"
    /\ pub = [cur |-> NoSession, live |-> {}, publish |-> TRUE, subscribe |-> TRUE,
              enabled |-> TRUE]
    /\ asked = [c \in Clients |-> FALSE] /\ told = [c \in Clients |-> FALSE]
    /\ raced = [c \in Clients |-> FALSE]
    /\ asks = 0 /\ faults = 0

Ask == asks < MaxAsks /\ asks' = asks + 1
Fault == faults < MaxFaults /\ faults' = faults + 1

TransportReady == acc.transport /\ ~acc.recovering
CanAttemptNow == TransportReady /\ acc.reg = "REGISTERED"

(* The SIP thread handles one message at a time. *)
SipIdle == sync.at = "idle"
ApiIdle == call["api"].at = "idle"

(* A thread is about to use client c; it holds a pointer, no more. *)
SipHolds(c) == call["sip"].on = c \/ c \in sync.todo
ApiHolds(c) == call["api"].on = c /\ call["api"].at # "asked"
Dangling(t) == t = "sip" /\ call[t].at # "idle" /\ ~client[call[t].on].listed

----------------------------------------------------------------------------
(* CustomEventSubClient and PresSubClient *)

(* invalidateDialog: PJSIP forgets the client before the subscription ends. *)
InvalidateDialog(r) ==
    [r EXCEPT !.sub = "none", !.leaving = FALSE, !.stale = FALSE, !.monitored = FALSE]

(* enable(false): a presence client that was not monitored leaves the list, *)
(* and nothing refers to it any more.                                       *)
Disabled(c, r) ==
    IF c \in Presence /\ ~r.monitored THEN [NoClient EXCEPT !.stray = r.stray]
    ELSE [r EXCEPT !.monitored = FALSE]

(* enable(true) *)
Enabled(r) == [r EXCEPT !.monitored = TRUE, !.listed = TRUE]

(* A thread leaves subscribe() of client c, which is now r.  subscribeClient *)
(* deletes a client it has just made if subscribe() fails.                   *)
Return(t, c, r, ok) ==
    LET deleted == t = "api" /\ call[t].new /\ ~ok
    IN  /\ client' = [client EXCEPT ![c] = IF deleted THEN NoClient ELSE r]
        /\ call' = [call EXCEPT ![t] = NoCall]
        /\ raced' = [raced EXCEPT ![c] = @ \/ (deleted /\ SipHolds(c))]

(* Seeded bug: a client that has a subscription is not subscribed again. *)
SubscribeOnce(t) ==
    /\ call[t].at = "subscribe" /\ ~Dangling(t)
    /\ LET c == call[t].on
       IN  IF client[c].sub # "none"
           THEN Return(t, c, client[c], TRUE) /\ acc' = acc
           ELSE IF CanAttemptNow
           THEN /\ call' = [call EXCEPT ![t].at = "send"]
                /\ UNCHANGED <<acc, client, raced>>
           ELSE /\ acc' = [acc EXCEPT !.resub = TRUE]
                /\ Return(t, c, client[c], FALSE)
    /\ UNCHANGED <<sync, main, pub, asked, told, asks, faults>>

(* subscribe() up to the dialog it makes. *)
Subscribe(t) ==
    /\ call[t].at = "subscribe" /\ ~Dangling(t)
    /\ LET c == call[t].on
           r == IF client[c].sub = "none" THEN client[c] ELSE InvalidateDialog(client[c])
       IN  IF CanAttemptNow
           THEN /\ client' = [client EXCEPT ![c] = r]
                /\ call' = [call EXCEPT ![t].at = "send"]
                /\ UNCHANGED <<acc, raced>>
           ELSE /\ acc' = [acc EXCEPT !.resub = TRUE]
                /\ Return(t, c, r, FALSE)
    /\ UNCHANGED <<sync, main, pub, asked, told, asks, faults>>

(* The rest of subscribe().  What another thread has put in sub_ meanwhile *)
(* is overwritten, not ended.                                              *)
Overtaken(r) == IF r.sub = "none" THEN r ELSE [r EXCEPT !.stray = r.sub]

SendSubscribe(t) ==
    /\ call[t].at = "send" /\ ~Dangling(t)
    /\ LET c == call[t].on
           r == [Overtaken(client[c]) EXCEPT !.sub = "sent", !.leaving = FALSE,
                                             !.stale = ~acc.transport]
       IN  Return(t, c, r, TRUE)
    /\ UNCHANGED <<acc, sync, main, pub, asked, told, asks, faults>>

(* PJSIP does not make the dialog or the subscription, or does not send. *)
SubscribeFails(t) ==
    /\ call[t].at = "send" /\ ~Dangling(t) /\ Fault
    /\ LET c == call[t].on
       IN  /\ Return(t, c, InvalidateDialog(Overtaken(client[c])), FALSE)
           /\ told' = [told EXCEPT ![c] = TRUE]
    /\ UNCHANGED <<acc, sync, main, pub, asked, asks>>

(* The client was deleted under the SIP thread: what subscribe() does to   *)
(* the freed memory is not followed.                                       *)
UseDeleted ==
    /\ Dangling("sip")
    /\ call' = [call EXCEPT !["sip"] = NoCall]
    /\ UNCHANGED <<acc, client, sync, main, pub, asked, told, raced, asks, faults>>

(* on_evsub_state: ACCEPTED, for sub_ or for a stray. *)
Accepted(c) ==
    /\ SipIdle
    /\ \/ /\ client[c].sub = "sent"
          /\ client' = [client EXCEPT ![c] = [Enabled(@) EXCEPT !.sub = "on"]]
       \/ /\ client[c].stray = "sent"
          /\ client' = [client EXCEPT ![c] = [Enabled(@) EXCEPT !.stray = "on"]]
    /\ told' = [told EXCEPT ![c] = FALSE]
    /\ pub' = [pub EXCEPT !.subscribe = @ \/ c \in Presence]
    /\ UNCHANGED <<acc, call, sync, main, asked, raced, asks, faults>>

(* supportPresence(function, false): presence is off once nothing of it is *)
(* supported.                                                              *)
Unsupported(p, function) ==
    LET q == [p EXCEPT ![function] = FALSE]
    IN  [q EXCEPT !.enabled = @ /\ (q.publish \/ q.subscribe)]

(* on_evsub_state: TERMINATED.  The timer for a new subscription is set    *)
(* and cancelled in the same call.  r is the client without the            *)
(* subscription that ended.                                                *)
Ended(c, r) ==
    /\ client' = [client EXCEPT ![c] = Disabled(c, r)]
    /\ told' = [told EXCEPT ![c] = TRUE]
    /\ raced' = [raced EXCEPT ![c] = @ \/ ApiHolds(c)]
    /\ UNCHANGED <<acc, call, sync, main, asked, asks>>

NoLonger(r) == [r EXCEPT !.sub = "none", !.leaving = FALSE, !.stale = FALSE]

(* The subscription that ended was asked to. *)
Left(c) ==
    /\ SipIdle /\ client[c].sub # "none" /\ client[c].leaving
    /\ Ended(c, NoLonger(client[c]))
    /\ UNCHANGED <<pub, faults>>

(* The notifier, a refused SUBSCRIBE or the transport ends it.  A refusal  *)
(* by the account's own server may mean that it has no presence.           *)
Terminated(c) ==
    /\ SipIdle /\ client[c].sub # "none" /\ Fault
    /\ Ended(c, NoLonger(client[c]))
    /\ \/ pub' = pub
       \/ c \in Presence /\ client[c].sub = "sent" /\ pub' = Unsupported(pub, "subscribe")

(* A stray ends: the client takes it for its own, and forgets the one it has. *)
StrayTerminated(c) ==
    /\ SipIdle /\ client[c].stray # "none" /\ Fault
    /\ Ended(c, [NoLonger(client[c]) EXCEPT !.stray = client[c].sub])
    /\ pub' = pub

----------------------------------------------------------------------------
(* SIPEvents::subscribeClient and SIPPresence::subscribeClient *)

(* subscribeClient(uri, true) reads the account first. *)
AskSubscribe(c) ==
    /\ ApiIdle /\ Ask
    /\ client[c].listed \/ client[c].stray = "none"
    /\ call' = [call EXCEPT !["api"] = [at |-> "asked", on |-> c, can |-> CanAttemptNow,
                                        new |-> FALSE]]
    /\ asked' = [asked EXCEPT ![c] = TRUE]
    /\ told' = [told EXCEPT ![c] = FALSE]
    /\ UNCHANGED <<acc, client, sync, main, pub, raced, faults>>

(* The client is looked up, or made and put on the list. *)
SubscribeClient ==
    /\ call["api"].at = "asked"
    /\ LET c == call["api"].on
           known == client[c].listed
       IN  /\ client' = [client EXCEPT ![c].listed = TRUE, ![c].desired = TRUE]
           /\ IF call["api"].can
              THEN /\ call' = [call EXCEPT !["api"].at = "subscribe", !["api"].new = ~known]
                   /\ acc' = acc
                   /\ raced' = [raced EXCEPT ![c] = @ \/ SipHolds(c)]
              ELSE /\ call' = [call EXCEPT !["api"] = NoCall]
                   /\ acc' = [acc EXCEPT !.resub = TRUE]
                   /\ raced' = raced
    /\ UNCHANGED <<sync, main, pub, asked, told, asks, faults>>

(* unsubscribe() of a client that has nothing to unsubscribe from, or no   *)
(* way to say so, and one whose SUBSCRIBE is not sent.                     *)
UnsubscribeLocally(c) ==
    /\ client' = [client EXCEPT ![c] = [InvalidateDialog(@) EXCEPT !.desired = FALSE]]
    /\ told' = [told EXCEPT ![c] = TRUE]

(* lock() gives up: another thread has the dialog. *)
LockGivesUp(c) == call["sip"].on = c /\ call["sip"].at = "send"

(* subscribeBuddy asks whether presence is enabled and supported. *)
MayBeAsked(c) == c \in Presence => pub.enabled /\ pub.subscribe

(* subscribeClient(uri, false) *)
AskUnsubscribe(c) ==
    /\ ApiIdle /\ Ask
    /\ MayBeAsked(c)
    /\ asked' = [asked EXCEPT ![c] = FALSE]
    /\ raced' = [raced EXCEPT ![c] = @ \/ SipHolds(c)]
    /\ LET r == client[c]
           local == r.sub = "none" \/ ~TransportReady
       IN  \/ ~r.listed /\ UNCHANGED <<client, told, faults>>
           \/ r.listed /\ local /\ UnsubscribeLocally(c) /\ UNCHANGED faults
           \/ r.listed /\ ~local /\ UnsubscribeLocally(c) /\ Fault
           \/ /\ r.listed /\ ~local
              /\ client' = [client EXCEPT ![c].desired = FALSE, ![c].monitored = FALSE,
                                          ![c].leaving = TRUE]
              /\ UNCHANGED <<told, faults>>
           \/ /\ r.listed /\ LockGivesUp(c)
              /\ client' = [client EXCEPT ![c].desired = FALSE]
              /\ UNCHANGED <<told, faults>>
    /\ UNCHANGED <<acc, call, sync, main, pub>>

----------------------------------------------------------------------------
(* SIPPresence: publication *)

(* publish(): what publish_sess_ held before is overwritten, not destroyed. *)
Published(p) ==
    LET s == CHOOSE x \in Sessions : x \notin p.live
    IN  [p EXCEPT !.cur = s, !.live = @ \cup {s}]

NotPublished(p) == [p EXCEPT !.cur = NoSession]

(* publish() from state p; it fails without a transport. *)
Publish(p) ==
    \/ acc.transport /\ pub' = Published(p) /\ faults' = faults
    \/ ~acc.transport /\ pub' = NotPublished(p) /\ faults' = faults
    \/ acc.transport /\ pub' = NotPublished(p) /\ Fault

(* The bound leaves a session for the recovery. *)
SendPresence ==
    /\ ApiIdle /\ Ask
    /\ pub.enabled /\ pub.publish
    /\ Cardinality(pub.live) < MaxSessions - 1
    /\ Publish(pub)
    /\ UNCHANGED <<acc, client, call, sync, main, asked, told, raced>>

DestroySession(p, s) == [p EXCEPT !.cur = NoSession, !.live = @ \ {s}]

(* Seeded bug: the session that is destroyed stays in publish_sess_. *)
PublishFailsKept(s) ==
    /\ SipIdle /\ s \in pub.live /\ Fault
    /\ \/ pub' = [pub EXCEPT !.live = @ \ {s}]
       \/ pub' = Unsupported([pub EXCEPT !.live = @ \ {s}], "publish")
    /\ UNCHANGED <<acc, client, call, sync, main, asked, told, raced, asks>>

(* publish_cb: refused, not supported, or not to be renewed.  publish_sess_ *)
(* is cleared whichever session the answer is for.                          *)
PublishFails(s) ==
    /\ SipIdle /\ s \in pub.live /\ Fault
    /\ \/ pub' = DestroySession(pub, s)
       \/ pub' = Unsupported(DestroySession(pub, s), "publish")
    /\ UNCHANGED <<acc, client, call, sync, main, asked, told, raced, asks>>

(* 412: published anew. *)
PublishAgain(s) ==
    /\ SipIdle /\ s \in pub.live /\ Fault
    /\ pub' = IF acc.transport THEN Published(DestroySession(pub, s))
                               ELSE NotPublished(DestroySession(pub, s))
    /\ UNCHANGED <<acc, client, call, sync, main, asked, told, raced, asks>>

PublishAccepted(s) ==
    /\ SipIdle /\ s \in pub.live
    /\ pub' = [pub EXCEPT !.publish = TRUE]
    /\ UNCHANGED <<acc, client, call, sync, main, asked, told, raced, asks, faults>>

----------------------------------------------------------------------------
(* SIPAccount *)

(* Seeded bug: only the publication is marked. *)
MarkRepublishOnly(a) == [a EXCEPT !.repub = TRUE]

MarkTransportRebindRequired(a) == [a EXCEPT !.rebind = TRUE, !.resub = TRUE, !.repub = TRUE]

(* recoverTransport and prepareTransportReset up to the invalidation. *)
RecoverTransport ==
    /\ main = "idle" /\ Fault
    /\ acc' = [MarkTransportRebindRequired(acc) EXCEPT !.recovering = TRUE]
    /\ main' = "events"
    /\ UNCHANGED <<client, call, sync, pub, asked, told, raced, asks>>

Invalidated(S) ==
    [c \in Clients |-> IF c \in S /\ client[c].listed THEN InvalidateDialog(client[c])
                                                      ELSE client[c]]

InvalidateSubscriptions ==
    /\ main = "events"
    /\ main' = "presence"
    /\ client' = Invalidated(Events)
    /\ UNCHANGED <<acc, call, sync, pub, asked, told, raced, asks, faults>>

InvalidateSubscriptionsAndPublish ==
    /\ main = "presence"
    /\ main' = "drop"
    /\ client' = Invalidated(Presence)
    /\ pub' = DestroySession(pub, pub.cur)
    /\ UNCHANGED <<acc, call, sync, asked, told, raced, asks, faults>>

(* destroyRegistrationInfo and setTransport(nullptr) *)
DropTransport ==
    /\ main = "drop"
    /\ main' = "switch"
    /\ acc' = [acc EXCEPT !.transport = FALSE, !.waiting = FALSE]
    /\ client' = [c \in Clients |-> [client[c] EXCEPT !.stale = client[c].sub # "none"]]
    /\ UNCHANGED <<call, sync, pub, asked, told, raced, asks, faults>>

DoRegister(a) == [a EXCEPT !.transport = TRUE, !.reg = "TRYING", !.waiting = TRUE]

SwitchTransport ==
    /\ main = "switch"
    /\ \/ main' = "finish" /\ acc' = DoRegister(acc) /\ faults' = faults
       \/ main' = "idle" /\ acc' = [acc EXCEPT !.recovering = FALSE, !.reg = "ERROR"] /\ Fault
    /\ UNCHANGED <<client, call, sync, pub, asked, told, raced, asks>>

RecoverFinishes ==
    /\ main = "finish"
    /\ main' = "idle"
    /\ acc' = [acc EXCEPT !.recovering = FALSE]
    /\ UNCHANGED <<client, call, sync, pub, asked, told, raced, asks, faults>>

(* An OPTIONS answered on the active route renews the registration. *)
ReregisterCurrentRoute ==
    /\ SipIdle /\ Fault
    /\ acc.reg # "TRYING"
    /\ acc' = DoRegister([acc EXCEPT !.resub = TRUE, !.repub = TRUE])
    /\ UNCHANGED <<client, call, sync, main, pub, asked, told, raced, asks>>

(* The retry timer of a failed registration. *)
AutoReregister ==
    /\ SipIdle /\ acc.reg = "ERROR" /\ ~acc.waiting /\ main = "idle"
    /\ acc' = DoRegister(acc)
    /\ UNCHANGED <<client, call, sync, main, pub, asked, told, raced, asks, faults>>

(* PJSIP renews the registration before it expires, while regc_ is there. *)
RefreshRegistration ==
    /\ SipIdle /\ acc.reg = "REGISTERED" /\ ~acc.waiting /\ main # "switch"
    /\ acc' = [acc EXCEPT !.waiting = TRUE]
    /\ UNCHANGED <<client, call, sync, main, pub, asked, told, raced, asks, faults>>

RegisterFails ==
    /\ SipIdle /\ acc.waiting /\ Fault
    /\ acc' = [acc EXCEPT !.waiting = FALSE, !.reg = "ERROR"]
    /\ UNCHANGED <<client, call, sync, main, pub, asked, told, raced, asks>>

(* onRegister, a 2xx, up to runPostRegisterRecoverySync. *)
Registered ==
    /\ SipIdle /\ acc.waiting
    /\ acc' = [acc EXCEPT !.waiting = FALSE, !.reg = "REGISTERED"]
    /\ sync' = [NoSync EXCEPT !.at = "sync"]
    /\ UNCHANGED <<client, call, main, pub, asked, told, raced, asks, faults>>

Listed(S) == {c \in S : client[c].listed}

(* Seeded bug: nothing is done unless the transport was replaced. *)
SyncAfterRebindOnly ==
    /\ sync.at = "sync"
    /\ IF acc.rebind /\ acc.transport
       THEN /\ acc' = [acc EXCEPT !.rebind = FALSE, !.resub = FALSE, !.repub = FALSE]
            /\ sync' = [at |-> "events", todo |-> Listed(Events), resub |-> TRUE,
                        repub |-> acc.repub]
       ELSE sync' = NoSync /\ acc' = acc
    /\ UNCHANGED <<client, call, main, pub, asked, told, raced, asks, faults>>

(* runPostRegisterRecoverySync takes the flags, and gives them back if     *)
(* there is no transport or no contact address.                            *)
RunPostRegisterRecoverySync ==
    /\ sync.at = "sync"
    /\ LET resub == acc.rebind \/ acc.resub
       IN  \/ /\ ~resub /\ ~acc.repub
              /\ sync' = NoSync /\ UNCHANGED <<acc, faults>>
           \/ /\ resub \/ acc.repub
              /\ ~acc.transport
              /\ sync' = NoSync /\ UNCHANGED <<acc, faults>>
           \/ /\ resub \/ acc.repub
              /\ acc.transport /\ Fault
              /\ sync' = NoSync /\ UNCHANGED acc
           \/ /\ resub \/ acc.repub
              /\ acc.transport
              /\ acc' = [acc EXCEPT !.rebind = FALSE, !.resub = FALSE, !.repub = FALSE]
              /\ sync' = [at |-> "events", todo |-> IF resub THEN Listed(Events) ELSE {},
                          resub |-> resub, repub |-> acc.repub]
              /\ faults' = faults
    /\ UNCHANGED <<client, call, main, pub, asked, told, raced, asks>>

(* Seeded bug: every client on the list is subscribed again. *)
RecoverEvery(c) ==
    /\ c \in sync.todo /\ call["sip"].at = "idle"
    /\ sync' = [sync EXCEPT !.todo = @ \ {c}]
    /\ call' = [call EXCEPT !["sip"] = [NoCall EXCEPT !.at = "subscribe", !.on = c]]
    /\ raced' = [raced EXCEPT ![c] = @ \/ ApiHolds(c)]
    /\ UNCHANGED <<acc, client, main, pub, asked, told, asks, faults>>

(* recoverSubscriptions and recoverSubscriptionsAndPublish: the next client *)
(* of the copied list, subscribed again if it is still wanted.              *)
RecoverNext(c) ==
    /\ c \in sync.todo /\ call["sip"].at = "idle"
    /\ sync' = [sync EXCEPT !.todo = @ \ {c}]
    /\ IF client[c].desired
       THEN /\ call' = [call EXCEPT !["sip"] = [NoCall EXCEPT !.at = "subscribe", !.on = c]]
            /\ raced' = [raced EXCEPT ![c] = @ \/ ApiHolds(c)]
       ELSE UNCHANGED <<call, raced>>
    /\ UNCHANGED <<acc, client, main, pub, asked, told, asks, faults>>

EventsRecovered ==
    /\ sync.at = "events" /\ sync.todo = {} /\ call["sip"].at = "idle"
    /\ sync' = [sync EXCEPT !.at = "presence",
                            !.todo = IF sync.resub THEN Listed(Presence) ELSE {}]
    /\ UNCHANGED <<acc, client, call, main, pub, asked, told, raced, asks, faults>>

PresenceRecovered ==
    /\ sync.at = "presence" /\ sync.todo = {} /\ call["sip"].at = "idle"
    /\ sync' = NoSync
    /\ LET p == DestroySession(pub, pub.cur)
       IN  \/ ~sync.repub /\ UNCHANGED <<pub, faults>>
           \/ sync.repub /\ ~(pub.enabled /\ pub.publish) /\ pub' = p /\ faults' = faults
           \/ sync.repub /\ pub.enabled /\ pub.publish /\ Publish(p)
    /\ UNCHANGED <<acc, client, call, main, asked, told, raced, asks>>

----------------------------------------------------------------------------
ApiStep == SubscribeClient \/ Subscribe("api") \/ SendSubscribe("api") \/ SubscribeFails("api")

SipStep ==
    \/ RunPostRegisterRecoverySync \/ EventsRecovered \/ PresenceRecovered \/ UseDeleted
    \/ \E c \in Clients : RecoverNext(c)
    \/ Subscribe("sip") \/ SendSubscribe("sip") \/ SubscribeFails("sip")

MainStep ==
    \/ InvalidateSubscriptions \/ InvalidateSubscriptionsAndPublish \/ DropTransport
    \/ SwitchTransport \/ RecoverFinishes

Next ==
    \/ ApiStep \/ SipStep \/ MainStep
    \/ \E c \in Clients :
          \/ AskSubscribe(c) \/ AskUnsubscribe(c)
          \/ Accepted(c) \/ Left(c) \/ Terminated(c) \/ StrayTerminated(c)
    \/ SendPresence
    \/ \E s \in Sessions : PublishFails(s) \/ PublishAgain(s) \/ PublishAccepted(s)
    \/ RecoverTransport \/ ReregisterCurrentRoute \/ AutoReregister
    \/ RefreshRegistration \/ RegisterFails \/ Registered

Spec == Init /\ [][Next]_vars

(* Every thread goes on, PJSIP renews the registration in time, and a      *)
(* REGISTER is answered or times out.                                      *)
Fairness ==
    /\ WF_vars(ApiStep) /\ WF_vars(SipStep) /\ WF_vars(MainStep)
    /\ WF_vars(RefreshRegistration) /\ WF_vars(Registered \/ RegisterFails)

FairSpec == Spec /\ Fairness

----------------------------------------------------------------------------
AtRest == ApiIdle /\ SipIdle /\ main = "idle" /\ acc.reg = "REGISTERED" /\ acc.transport

(* A stray counts: the notifier serves it. *)
Subscribed(c) == client[c].sub # "none" \/ client[c].stray # "none"

(* No flag asks for another round after the next REGISTER. *)
Settled == AtRest /\ ~acc.rebind /\ ~acc.resub

(* After a recovery of the transport has taken every subscription down     *)
(* without a word to the client, each one that is still wanted is back, or *)
(* the client was told that it is off.                                     *)
NothingLost ==
    Settled => \A c \in Clients :
        client[c].listed /\ client[c].desired => Subscribed(c) \/ told[c]

(* What is wanted is subscribed over the transport the account has now,    *)
(* also when subscribe() was under way while the transport was replaced.   *)
OnCurrentTransport == Settled => \A c \in Clients : client[c].desired => ~client[c].stale

(* A subscription that the client has given up ends and stays ended,       *)
(* unless the recovery was using it at that moment.                        *)
UnwantedStaysOff ==
    ApiIdle /\ SipIdle => \A c \in Clients :
        ~asked[c] /\ ~raced[c] => client[c].sub = "none" \/ client[c].leaving

(* publish_sess_ is never a session that was destroyed. *)
PublishSessionIsLive == pub.cur # NoSession => pub.cur \in pub.live

Deferred(c) ==
    asked[c] /\ client[c].listed /\ client[c].desired /\ ~Subscribed(c) /\ ~told[c]

(* A subscription put off until the account is registered is attempted     *)
(* once it is, also when it was put off while the registration was being   *)
(* confirmed: the next refresh of the registration takes it up.            *)
DeferredIsTried ==
    \A c \in Clients :
        Deferred(c) /\ acc.reg = "REGISTERED" ~> ~Deferred(c) \/ acc.reg # "REGISTERED"

(* What the client asked for is on a list, or the client was told that it  *)
(* is off: "Deferring new event subscription ... until account is          *)
(* REGISTERED".                                                            *)
AskedIsKept ==
    ApiIdle => \A c \in Clients :
        asked[c] /\ ~raced[c] => (client[c].listed /\ client[c].desired) \/ told[c]

============================================================================
