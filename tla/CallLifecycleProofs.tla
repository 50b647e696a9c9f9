------------------------- MODULE CallLifecycleProofs -------------------------
(***************************************************************************)
(* Proofs about CallLifecycle, for any number of calls and any bound on    *)
(* the queue: what a removed call may still hold.                          *)
(***************************************************************************)
EXTENDS CallLifecycle, TLAPS

Posts == [op : Closures, c : Calls]

Threads == {sip.c, main.c, api.c}

(* Nothing of a record but its states differs. *)
Same(k, k2) ==
    /\ k2.sess = k.sess /\ k2.inv = k.inv /\ k2.trans = k.trans
    /\ k2.hup = k.hup /\ k2.media = k.media

(* The inductive invariant, of the record k of call c.  A call that was     *)
(* hung up is no longer registered; with the first conjunct it has no      *)
(* transport, so its media cannot start again.                             *)
Good(k, c) ==
    /\ k.trans => c \in registered
    /\ k.inv => c \in registered \/ c \in Threads
    /\ k.hup => c \notin registered /\ ~ k.media

IInv == TypeOK /\ \A c \in Calls : Good(call[c], c)

ThreadsOK ==
    /\ sip \in {Idle} \cup [op : SipOps, c : Calls]
    /\ main \in {Idle} \cup [op : MainOps, c : Calls]
    /\ api \in {Idle} \cup [op : ApiOps, c : Calls]

ManagerOK ==
    current \in Calls \cup {NoCall} /\ waiting \subseteq Calls /\ audio \subseteq Calls
    /\ tone \in BOOLEAN

-----------------------------------------------------------------------------
(* What the helpers on records return. *)

(* setState changes the two states only. *)
LEMMA AssignRecord ==
    ASSUME NEW k \in Call, NEW s \in CallStates, NEW x \in ConnectionStates
    PROVE  Assign(k, s, x) \in Call /\ Same(k, Assign(k, s, x))
BY ZenonT(30) DEF Assign, Call, Same

(* setState with its test changes the two states only. *)
LEMMA SetStateRecord ==
    ASSUME NEW k \in Call, NEW s \in CallStates, NEW x \in ConnectionStates
    PROVE  SetState(k, s, x) \in Call /\ Same(k, SetState(k, s, x))
BY AssignRecord DEF SetState, Same

(* ... and so does setState of the connection. *)
LEMMA SetConnectionRecord ==
    ASSUME NEW k \in Call, NEW x \in ConnectionStates
    PROVE  SetConnection(k, x) \in Call /\ Same(k, SetConnection(k, x))
BY SetStateRecord DEF SetConnection, Call

(* removeCall lets go of the session and of the transport. *)
LEMMA RemovedRecord ==
    ASSUME NEW k \in Call
    PROVE  /\ Removed(k) \in Call
           /\ ~ Removed(k).inv /\ ~ Removed(k).trans
           /\ Removed(k).hup = k.hup /\ Removed(k).media = k.media
<1>1. k.cnx \in ConnectionStates /\ "OVER" \in CallStates
  BY DEF Call, CallStates
<1>2. SetState(k, "OVER", k.cnx) \in Call /\ Same(k, SetState(k, "OVER", k.cnx))
  BY <1>1, SetStateRecord
<1> QED
  BY <1>2, ZenonT(30) DEF Removed, Same, Call

(* terminateSipSession lets go of the session and changes nothing else but states. *)
LEMMA TerminatedRecord ==
    ASSUME NEW k \in Call, NEW c \in Calls, NEW s \in CallStates
    PROVE  /\ Terminated(k, c, s) \in Call
           /\ ~ Terminated(k, c, s).inv
           /\ Terminated(k, c, s).trans = k.trans
           /\ Terminated(k, c, s).hup = k.hup /\ Terminated(k, c, s).media = k.media
<1> DEFINE e == IF k.inv /\ k.sess # "DISCONNECTED"
                   THEN [k EXCEPT !.sess = "DISCONNECTED"] ELSE k
<1> DEFINE f == IF EndsAtOnce(k, c) THEN SetState(e, s, "DISCONNECTED") ELSE e
<1>1. e \in Call /\ e.trans = k.trans /\ e.hup = k.hup /\ e.media = k.media
  BY DEF Call, Sessions
<1>2. "DISCONNECTED" \in ConnectionStates
  BY DEF ConnectionStates
<1>3. SetState(e, s, "DISCONNECTED") \in Call /\ Same(e, SetState(e, s, "DISCONNECTED"))
  <2> HIDE DEF e
  <2> QED BY <1>1, <1>2, SetStateRecord
<1>4. f \in Call /\ f.trans = k.trans /\ f.hup = k.hup /\ f.media = k.media
  <2> HIDE DEF e
  <2> QED BY <1>1, <1>3 DEF Same
<1>5. Terminated(k, c, s) = [f EXCEPT !.inv = FALSE]
  BY DEF Terminated
<1> HIDE DEF f
<1> QED
  BY <1>4, <1>5, ZenonT(30) DEF Call

(* hangup and refuse leave neither session, transport nor media. *)
LEMMA HungUpRecord ==
    ASSUME NEW k \in Call, NEW c \in Calls
    PROVE  /\ HungUp(k, c) \in Call
           /\ ~ HungUp(k, c).inv /\ ~ HungUp(k, c).trans
           /\ HungUp(k, c).hup /\ ~ HungUp(k, c).media
<1> DEFINE t == Terminated(k, c, "MERROR")
           u == [t EXCEPT !.hup = TRUE, !.media = FALSE]
           v == SetConnection(u, "DISCONNECTED")
<1>1. t \in Call
  BY TerminatedRecord DEF CallStates
<1>2. u \in Call /\ u.hup /\ ~ u.media
  <2> HIDE DEF t
  <2> QED BY <1>1, ZenonT(30) DEF Call
<1>3. v \in Call /\ v.hup /\ ~ v.media
  <2> HIDE DEF u
  <2> QED BY <1>2, SetConnectionRecord DEF Same, ConnectionStates
<1>4. HungUp(k, c) = Removed(v)
  BY DEF HungUp
<1> HIDE DEF v
<1> QED
  BY <1>3, <1>4, RemovedRecord

(* refuse leaves neither session, transport nor media. *)
LEMMA RefusedRecord ==
    ASSUME NEW k \in Call, NEW c \in Calls
    PROVE  /\ Refused(k, c) \in Call
           /\ ~ Refused(k, c).inv /\ ~ Refused(k, c).trans
           /\ Refused(k, c).hup = k.hup /\ ~ Refused(k, c).media
<1> DEFINE t == Terminated(k, c, "BUSY")
           u == [t EXCEPT !.media = FALSE]
           v == SetConnection(u, "DISCONNECTED")
<1>1. t \in Call /\ t.hup = k.hup
  BY TerminatedRecord DEF CallStates
<1>2. u \in Call /\ u.hup = k.hup /\ ~ u.media
  <2> HIDE DEF t
  <2> QED BY <1>1, ZenonT(30) DEF Call
<1>3. v \in Call /\ v.hup = k.hup /\ ~ v.media
  <2> HIDE DEF u
  <2> QED BY <1>2, SetConnectionRecord DEF Same, ConnectionStates
<1>4. Refused(k, c) = Removed(v)
  BY DEF Refused
<1> HIDE DEF v
<1> QED
  BY <1>3, <1>4, RemovedRecord

(* What is posted are closures. *)
LEMMA PostType ==
    ASSUME NEW op \in Closures, NEW c \in Calls
    PROVE  <<Doing(op, c)>> \in Seq(Posts)
<1>1. Doing(op, c) \in Posts
  BY DEF Doing, Posts
<1> HIDE DEF Posts
<1> QED
  BY <1>1

(* Ending a session posts closures of calls. *)
LEMMA TerminationPostsType ==
    ASSUME NEW k, NEW c \in Calls, NEW s
    PROVE  TerminationPosts(k, c, s) \in Seq(Posts)
<1>1. <<Doing("busy", c)>> \in Seq(Posts) /\ <<Doing("failure", c)>> \in Seq(Posts)
  BY PostType DEF Closures
<1>2. <<>> \in Seq(Posts)
  OBVIOUS
<1> QED
  BY <1>1, <1>2 DEF TerminationPosts

-----------------------------------------------------------------------------
(* Become changes the record of one call only, and keeps the types of calls and queue. *)
LEMMA BecomeType ==
    ASSUME TypeOK, NEW c \in Calls, NEW k \in Call, NEW posts \in Seq(Posts),
           Become(c, k, posts)
    PROVE  /\ call' \in [Calls -> Call]
           /\ call'[c] = k /\ \A d \in Calls \ {c} : call'[d] = call[d]
           /\ queue' \in Seq(Posts)
<1>1. call' \in [Calls -> Call] /\ call'[c] = k /\ \A d \in Calls \ {c} : call'[d] = call[d]
  BY DEF Become, TypeOK
<1>2. queue \in Seq(Posts)
  BY DEF TypeOK, Posts
<1>3. Notices(call[c], k, c) \in Seq(Posts)
  <2>1. <<Doing("audio", c)>> \in Seq(Posts) /\ <<>> \in Seq(Posts)
    BY PostType DEF Closures
  <2> QED
    BY <2>1 DEF Notices
<1> QED
  BY <1>1, <1>2, <1>3 DEF Become

(* A thread at work is at work on a call. *)
LEMMA BusyThreads ==
    ASSUME TypeOK
    PROVE  /\ sip.op \in SipOps => sip.c \in Calls
           /\ main.op \in MainOps => main.c \in Calls
           /\ api.op \in ApiOps => api.c \in Calls
BY DEF TypeOK, Idle, SipOps, MainOps, ApiOps, Closures

(* The shape of most steps: one call changes, and perhaps leaves the        *)
(* factory; it gains no transport, is not hung up in place, and keeps its  *)
(* session only while something holds it.                                  *)
LEMMA KeepInv ==
    ASSUME IInv, NEW c \in Calls, NEW k \in Call, NEW posts \in Seq(Posts),
           Become(c, k, posts), ThreadsOK', ManagerOK', created' = created,
           \/ registered' = registered
           \/ registered' = registered \ {c} /\ ~ k.trans,
           k.trans => call[c].trans,
           k.hup => ~ k.media /\ (call[c].hup \/ registered' = registered \ {c}),
           k.inv => c \in registered' \/ c \in Threads',
           \A d \in Calls \ {c} : d \in Threads => d \in Threads'
    PROVE  IInv'
<1>1. TypeOK
  BY DEF IInv
<1>2. /\ call' \in [Calls -> Call]
      /\ call'[c] = k /\ \A d \in Calls \ {c} : call'[d] = call[d]
      /\ queue' \in Seq(Posts)
  BY <1>1, BecomeType
<1>3. TypeOK'
  BY <1>1, <1>2 DEF TypeOK, ThreadsOK, ManagerOK, Posts
<1>4. Good(call[c], c)'
  BY <1>2 DEF Good, IInv
<1>5. ASSUME NEW d \in Calls \ {c} PROVE Good(call[d], d)'
  BY <1>2 DEF Good, IInv
<1> QED
  BY <1>3, <1>4, <1>5 DEF IInv

(* The destructor clears the session's pointer. *)
LEMMA DroppedRecord ==
    ASSUME NEW k \in Call, NEW c, NEW others
    PROVE  /\ Dropped(c, k, others) \in Call
           /\ Dropped(c, k, others).trans => k.trans
           /\ Dropped(c, k, others).inv => k.inv /\ c \in registered \cup others
           /\ Dropped(c, k, others).hup = k.hup
           /\ Dropped(c, k, others).media = k.media
BY ZenonT(30) DEF Dropped, Call

(* A thread that ends lets go of its call. *)
LEMMA SipEndsInv ==
    ASSUME IInv, sip.op \in SipOps, NEW k \in Call, NEW posts \in Seq(Posts),
           SipEnds(k, posts), ManagerOK', created' = created,
           \/ registered' = registered
           \/ registered' = registered \ {sip.c} /\ ~ k.trans /\ ~ k.inv,
           k.trans => call[sip.c].trans,
           k.hup => ~ k.media /\ (call[sip.c].hup \/ registered' = registered \ {sip.c})
    PROVE  IInv'
<1> DEFINE k2 == Dropped(sip.c, k, {main.c, api.c})
<1>1. sip.c \in Calls /\ TypeOK
  BY BusyThreads DEF IInv
<1>2. k2 \in Call /\ (k2.trans => k.trans) /\ k2.hup = k.hup /\ k2.media = k.media
      /\ (k2.inv => k.inv /\ sip.c \in registered \cup {main.c, api.c})
  BY DroppedRecord
<1>3. Become(sip.c, k2, posts) /\ sip' = Idle /\ UNCHANGED <<main, api>>
  BY DEF SipEnds, SipGoes
<1>4. ThreadsOK'
  BY <1>1, <1>3 DEF ThreadsOK, TypeOK
<1>5. \A d \in Calls \ {sip.c} : d \in Threads => d \in Threads'
  BY <1>3 DEF Threads
<1>6. k2.inv => sip.c \in registered' \/ sip.c \in Threads'
  BY <1>2, <1>3 DEF Threads
<1> HIDE DEF k2
<1> QED
  BY <1>1, <1>2, <1>3, <1>4, <1>5, <1>6, KeepInv

(* ... the main thread likewise *)
LEMMA MainEndsInv ==
    ASSUME IInv, main.op \in MainOps, NEW k \in Call, NEW posts \in Seq(Posts),
           MainEnds(k, posts), ManagerOK', created' = created,
           \/ registered' = registered
           \/ registered' = registered \ {main.c} /\ ~ k.trans /\ ~ k.inv,
           k.trans => call[main.c].trans,
           k.hup => ~ k.media /\ (call[main.c].hup \/ registered' = registered \ {main.c})
    PROVE  IInv'
<1> DEFINE k2 == Dropped(main.c, k, {sip.c, api.c})
<1>1. main.c \in Calls /\ TypeOK
  BY BusyThreads DEF IInv
<1>2. k2 \in Call /\ (k2.trans => k.trans) /\ k2.hup = k.hup /\ k2.media = k.media
      /\ (k2.inv => k.inv /\ main.c \in registered \cup {sip.c, api.c})
  BY DroppedRecord
<1>3. Become(main.c, k2, posts) /\ main' = Idle /\ UNCHANGED <<sip, api>>
  BY DEF MainEnds, MainGoes
<1>4. ThreadsOK'
  BY <1>1, <1>3 DEF ThreadsOK, TypeOK
<1>5. \A d \in Calls \ {main.c} : d \in Threads => d \in Threads'
  BY <1>3 DEF Threads
<1>6. k2.inv => main.c \in registered' \/ main.c \in Threads'
  BY <1>2, <1>3 DEF Threads
<1> HIDE DEF k2
<1> QED
  BY <1>1, <1>2, <1>3, <1>4, <1>5, <1>6, KeepInv

(* ... and the client thread *)
LEMMA ApiEndsInv ==
    ASSUME IInv, api.op \in ApiOps, NEW k \in Call, NEW posts \in Seq(Posts),
           ApiEnds(k, posts), ManagerOK', created' = created,
           \/ registered' = registered
           \/ registered' = registered \ {api.c} /\ ~ k.trans /\ ~ k.inv,
           k.trans => call[api.c].trans,
           k.hup => ~ k.media /\ (call[api.c].hup \/ registered' = registered \ {api.c})
    PROVE  IInv'
<1> DEFINE k2 == Dropped(api.c, k, {sip.c, main.c})
<1>1. api.c \in Calls /\ TypeOK
  BY BusyThreads DEF IInv
<1>2. k2 \in Call /\ (k2.trans => k.trans) /\ k2.hup = k.hup /\ k2.media = k.media
      /\ (k2.inv => k.inv /\ api.c \in registered \cup {sip.c, main.c})
  BY DroppedRecord
<1>3. Become(api.c, k2, posts) /\ api' = Idle /\ UNCHANGED <<sip, main>>
  BY DEF ApiEnds, ApiGoes
<1>4. ThreadsOK'
  BY <1>1, <1>3 DEF ThreadsOK, TypeOK
<1>5. \A d \in Calls \ {api.c} : d \in Threads => d \in Threads'
  BY <1>3 DEF Threads
<1>6. k2.inv => api.c \in registered' \/ api.c \in Threads'
  BY <1>2, <1>3 DEF Threads
<1> HIDE DEF k2
<1> QED
  BY <1>1, <1>2, <1>3, <1>4, <1>5, <1>6, KeepInv

-----------------------------------------------------------------------------
(* The steps of the SIP thread. *)

(* The SIP thread goes on with its call. *)
LEMMA SipSame ==
    ASSUME IInv, sip.op \in SipOps, NEW k \in Call, NEW posts \in Seq(Posts),
           Same(call[sip.c], k), SipEnds(k, posts),
           ManagerOK', UNCHANGED <<created, registered>>
    PROVE  IInv'
<1>1. sip.c \in Calls
  BY BusyThreads DEF IInv
<1>2. Good(call[sip.c], sip.c)
  BY <1>1 DEF IInv
<1> QED
  BY <1>2, SipEndsInv DEF Same, Good

(* Every step of the SIP thread keeps the invariant. *)
LEMMA SipStepInv ==
    ASSUME IInv, SipStep
    PROVE  IInv'
<1> DEFINE k == call[sip.c]
<1>1. TypeOK /\ ManagerOK /\ ThreadsOK
  BY DEF IInv, TypeOK, ManagerOK, ThreadsOK
<1>2. ASSUME sip.op \in SipOps
      PROVE  sip.c \in Calls /\ k \in Call /\ Good(k, sip.c)
  BY <1>1, <1>2, BusyThreads DEF IInv, TypeOK
<1>3. "RINGING" \in ConnectionStates /\ "DISCONNECTED" \in ConnectionStates
  BY DEF ConnectionStates
<1>4. <<>> \in Seq(Posts) /\ Same(k, k)
  BY DEF Same
<1>5. CASE IncomingRings
  <2>1. sip.op \in SipOps
    BY <1>5 DEF IncomingRings, SipOps
  <2>2. UNCHANGED <<created, registered>> /\ ManagerOK'
    BY <1>1, <1>5 DEF IncomingRings, ManagerOK
  <2>3. CASE SipEnds(k, <<>>)
    BY <1>2, <1>4, <2>1, <2>2, <2>3, SipSame, ZenonT(30)
  <2>4. CASE /\ Become(sip.c, SetConnection(k, "RINGING"), <<>>)
             /\ SipGoes(Doing("incoming", sip.c))
    <3>1. SetConnection(k, "RINGING") \in Call /\ Same(k, SetConnection(k, "RINGING"))
      BY <1>2, <1>3, <2>1, SetConnectionRecord
    <3>2. ThreadsOK' /\ Threads' = Threads
      BY <1>1, <1>2, <2>1, <2>4 DEF SipGoes, Doing, ThreadsOK, Threads, SipOps
    <3> HIDE DEF k
    <3>3. Good(k, sip.c) /\ sip.c \in Calls
      BY <1>2, <2>1
    <3> QED
      BY <1>4, <2>2, <2>4, <3>1, <3>2, <3>3, KeepInv, ZenonT(30) DEF Same, Good, k
  <2> QED
    BY <1>5, <2>3, <2>4 DEF IncomingRings
<1>6. CASE ProcessIncomingCall
  <2>1. sip.op \in SipOps
    BY <1>6 DEF ProcessIncomingCall, SipOps
  <2>2. UNCHANGED <<created, registered>> /\ ManagerOK'
    BY <1>1, <1>2, <1>6, <2>1, ZenonT(30) DEF ProcessIncomingCall, ManagerOK
  <2>3. CASE SipEnds(k, <<>>)
    BY <1>2, <1>4, <2>1, <2>2, <2>3, SipSame, ZenonT(30)
  <2>4. CASE SipGoes(Doing("incomingRing", sip.c)) /\ UNCHANGED <<call, queue>>
    <3>1. ThreadsOK' /\ Threads' = Threads
      BY <1>1, <1>2, <2>1, <2>4 DEF SipGoes, Doing, ThreadsOK, Threads, SipOps
    <3> QED
      BY <2>2, <2>4, <3>1 DEF IInv, TypeOK, ThreadsOK, ManagerOK, Good
  <2> QED
    BY <1>6, <2>3, <2>4 DEF ProcessIncomingCall
<1>7. CASE ProcessIncomingCallRefuses
  <2>1. sip.op \in SipOps
    BY <1>7 DEF ProcessIncomingCallRefuses, SipOps
  <2>2. UNCHANGED created /\ ManagerOK'
    BY <1>1, <1>7, ZenonT(30) DEF ProcessIncomingCallRefuses, ManagerOK
  <2>3. CASE SipEnds(k, <<>>) /\ UNCHANGED registered
    BY <1>2, <1>4, <2>1, <2>2, <2>3, SipSame, ZenonT(30)
  <2>4. CASE /\ SipEnds(Refused(k, sip.c), TerminationPosts(k, sip.c, "BUSY"))
             /\ registered' = registered \ {sip.c}
    BY <1>2, <2>1, <2>2, <2>4, RefusedRecord, TerminationPostsType, SipEndsInv
  <2> QED
    BY <1>7, <2>3, <2>4 DEF ProcessIncomingCallRefuses
<1>8. ASSUME NEW rings \in BOOLEAN, RingIncomingCall(rings) PROVE IInv'
  <2>1. sip.op \in SipOps
    BY <1>8 DEF RingIncomingCall, SipOps
  <2>2. UNCHANGED <<created, registered>> /\ ManagerOK'
    BY <1>1, <1>2, <1>8, <2>1 DEF RingIncomingCall, ManagerOK
  <2>3. SipEnds(SetConnection(k, "RINGING"), <<>>)
    BY <1>8 DEF RingIncomingCall
  <2> QED
    BY <1>2, <1>3, <1>4, <2>1, <2>2, <2>3, SetConnectionRecord, SipSame, ZenonT(30)
<1>9. CASE OnPeerRinging
  <2>1. sip.op \in SipOps /\ UNCHANGED <<created, registered>> /\ ManagerOK'
    BY <1>1, <1>9 DEF OnPeerRinging, SipOps, ManagerOK
  <2>2. SipEnds(SetConnection(k, "RINGING"), <<>>)
    BY <1>9 DEF OnPeerRinging
  <2> QED
    BY <1>2, <1>3, <1>4, <2>1, <2>2, SetConnectionRecord, SipSame, ZenonT(30)
<1>10. CASE OnAnswered
  <2>1. sip.op \in SipOps /\ UNCHANGED <<created, registered>> /\ ManagerOK'
    BY <1>1, <1>10 DEF OnAnswered, SipOps, ManagerOK
  <2>2. PICK op \in Closures : SipEnds(k, <<Doing(op, sip.c)>>)
    BY <1>10 DEF OnAnswered, Closures
  <2> QED
    BY <1>2, <1>4, <2>1, <2>2, PostType, SipSame, ZenonT(30)
<1>11. CASE OnMediaNegotiationComplete
  <2> DEFINE m == IF k.inv /\ k.sess # "DISCONNECTED" THEN k.trans ELSE k.media
             k2 == [k EXCEPT !.media = m]
  <2>1. sip.op \in SipOps /\ UNCHANGED <<created, registered>> /\ ManagerOK'
    BY <1>1, <1>11 DEF OnMediaNegotiationComplete, SipOps, ManagerOK
  <2>2. SipEnds(k2, <<>>)
    BY <1>11 DEF OnMediaNegotiationComplete
  <2>3. k2 \in Call /\ k2.trans = k.trans /\ k2.hup = k.hup /\ (k.hup => ~ k2.media)
    <3>1. k \in Call /\ Good(k, sip.c)
      BY <1>2, <2>1
    <3> HIDE DEF k
    <3> QED
      BY <3>1 DEF Call, Good
  <2> HIDE DEF k2
  <2> QED
    BY <1>4, <2>1, <2>2, <2>3, SipEndsInv, ZenonT(30)
<1>12. CASE MediaNegotiationFails
  <2>1. sip.op \in SipOps /\ UNCHANGED created /\ ManagerOK'
    BY <1>1, <1>12 DEF MediaNegotiationFails, SipOps, ManagerOK
  <2>2. CASE SipEnds(k, <<>>) /\ UNCHANGED registered
    BY <1>2, <1>4, <2>1, <2>2, SipSame, ZenonT(30)
  <2>3. CASE /\ SipEnds(HungUp(k, sip.c), TerminationPosts(k, sip.c, "MERROR"))
             /\ registered' = registered \ {sip.c}
    BY <1>2, <2>1, <2>3, HungUpRecord, TerminationPostsType, SipEndsInv
  <2> QED
    BY <1>12, <2>2, <2>3 DEF MediaNegotiationFails, HangUp
<1>13. CASE OnClosed
  <2>1. sip.op \in SipOps /\ UNCHANGED <<created, registered>> /\ ManagerOK'
    BY <1>1, <1>13 DEF OnClosed, SipOps, ManagerOK
  <2>2. <<Doing("closed", sip.c)>> \in Seq(Posts)
    BY <1>2, <2>1, PostType DEF Closures
  <2>3. PICK posts \in Seq(Posts) : SipEnds(k, posts)
    BY <1>4, <1>13, <2>2, ZenonT(30) DEF OnClosed
  <2> QED
    BY <1>2, <1>4, <2>1, <2>3, SipSame
<1>14. CASE OnEndTests
  <2>1. sip.op \in SipOps /\ UNCHANGED <<created, registered>> /\ ManagerOK'
    BY <1>1, <1>14 DEF OnEndTests, SipOps, ManagerOK
  <2>2. <<Doing("busy", sip.c)>> \in Seq(Posts)
    BY <1>2, <2>1, PostType DEF Closures
  <2>3. CASE \E posts \in Seq(Posts) : SipEnds(k, posts)
    BY <1>2, <1>4, <2>1, <2>3, SipSame
  <2>4. CASE \E op \in SipOps : SipGoes(Doing(op, sip.c)) /\ UNCHANGED <<call, queue>>
    <3>1. ThreadsOK' /\ Threads' = Threads
      BY <1>1, <1>2, <2>1, <2>4 DEF SipGoes, Doing, ThreadsOK, Threads
    <3> QED
      BY <2>1, <2>4, <3>1 DEF IInv, TypeOK, ThreadsOK, ManagerOK, Good
  <2> QED
    BY <1>4, <1>14, <2>2, <2>3, <2>4, ZenonT(30) DEF OnEndTests, SipOps
<1>15. CASE OnEndCommits
  <2> DEFINE s == EndState(sip.c, sip.op)
  <2>1. sip.op \in SipOps /\ UNCHANGED <<created, registered>> /\ ManagerOK'
    BY <1>1, <1>15 DEF OnEndCommits, SipOps, ManagerOK
  <2>2. s \in CallStates
    BY DEF EndState, BusyState, CallStates
  <2>3. PICK op \in Closures : SipEnds(Assign(k, s, "DISCONNECTED"), <<Doing(op, sip.c)>>)
    BY <1>15 DEF OnEndCommits, Closures
  <2> HIDE DEF s
  <2> QED
    BY <1>2, <1>3, <2>1, <2>2, <2>3, PostType, AssignRecord, SipSame, ZenonT(30)
<1> QED
  BY <1>5, <1>6, <1>7, <1>8, <1>9, <1>10, <1>11, <1>12, <1>13, <1>14, <1>15 DEF SipStep

-----------------------------------------------------------------------------
(* The steps of the main thread. *)

(* The main thread goes on with its call. *)
LEMMA MainSame ==
    ASSUME IInv, main.op \in MainOps, NEW k \in Call, NEW posts \in Seq(Posts),
           k.trans = call[main.c].trans, k.hup = call[main.c].hup,
           k.media = call[main.c].media, MainEnds(k, posts),
           ManagerOK', UNCHANGED <<created, registered>>
    PROVE  IInv'
<1>1. main.c \in Calls
  BY BusyThreads DEF IInv
<1>2. Good(call[main.c], main.c)
  BY <1>1 DEF IInv
<1> QED
  BY <1>2, MainEndsInv DEF Good

(* The thread goes on with its call, which may change. *)
LEMMA MainContinues ==
    ASSUME IInv, main.op \in MainOps, NEW op \in MainOps, NEW k \in Call,
           NEW posts \in Seq(Posts), MainGoes(Doing(op, main.c)),
           \/ Become(main.c, k, posts)
           \/ UNCHANGED <<call, queue>>,
           k.trans => call[main.c].trans, k.hup = call[main.c].hup,
           k.media => call[main.c].media,
           ManagerOK', UNCHANGED <<created, registered>>
    PROVE  IInv'
<1>1. TypeOK /\ ThreadsOK /\ main.c \in Calls
  BY BusyThreads DEF IInv, TypeOK, ThreadsOK
<1>2. ThreadsOK' /\ Threads' = Threads
  BY <1>1 DEF MainGoes, Doing, ThreadsOK, Threads
<1>3. Good(call[main.c], main.c) /\ main.c \in Threads
  BY <1>1 DEF IInv, Threads
<1>4. CASE Become(main.c, k, posts)
  BY <1>1, <1>2, <1>3, <1>4, KeepInv DEF Good
<1>5. CASE UNCHANGED <<call, queue>>
  BY <1>2, <1>5 DEF IInv, TypeOK, ThreadsOK, ManagerOK, Good
<1> QED
  BY <1>4, <1>5

(* A call that cannot be started is removed. *)
LEMMA StartFailsInv ==
    ASSUME IInv, main.op \in MainOps, NEW k \in Call, StartFails(k),
           k.trans = call[main.c].trans, k.hup = call[main.c].hup,
           k.media = call[main.c].media,
           ManagerOK', UNCHANGED <<created, registered>>
    PROVE  IInv'
<1>1. main.c \in Calls
  BY BusyThreads DEF IInv
<1>2. SetState(k, "MERROR", "DISCONNECTED") \in Call
      /\ Same(k, SetState(k, "MERROR", "DISCONNECTED"))
  BY SetStateRecord DEF CallStates, ConnectionStates
<1>3. <<Doing("failure", main.c)>> \in Seq(Posts) /\ <<>> \in Seq(Posts)
  BY <1>1, PostType DEF Closures
<1>4. PICK posts \in Seq(Posts) : MainEnds(SetState(k, "MERROR", "DISCONNECTED"), posts)
  BY <1>3, ZenonT(30) DEF StartFails
<1> QED
  BY <1>2, <1>4, MainSame DEF Same

(* RunClosure keeps the session of the call it takes up, and no other       *)
(* thread's.                                                               *)
LEMMA RunClosureInv ==
    ASSUME IInv, RunClosure
    PROVE  IInv'
<1>1. TypeOK /\ queue \in Seq(Posts) /\ queue # <<>>
  BY DEF IInv, TypeOK, Posts, RunClosure
<1>2. Head(queue) \in Posts /\ Tail(queue) \in Seq(Posts)
  BY <1>1
<1>3. queue' \in Seq(Posts) /\ (main' = Head(queue) \/ main' = Idle)
  BY <1>2 DEF RunClosure, MainGoes
<1>4. ThreadsOK'
  BY <1>1, <1>2, <1>3 DEF TypeOK, ThreadsOK, Posts, MainOps, RunClosure, MainGoes
<1>5. TypeOK'
  BY <1>1, <1>3, <1>4 DEF TypeOK, ThreadsOK, Posts, RunClosure
<1>6. \A d \in Calls : d \in Threads => d \in Threads'
  BY CallsAssumption DEF RunClosure, MainGoes, Threads, Idle
<1>7. \A d \in Calls : Good(call[d], d)'
  BY <1>6 DEF IInv, Good, RunClosure
<1> QED
  BY <1>5, <1>7 DEF IInv

(* Every step of the main thread keeps the invariant. *)
LEMMA MainStepInv ==
    ASSUME IInv, MainStep
    PROVE  IInv'
<1> DEFINE k == call[main.c]
<1>1. TypeOK /\ ManagerOK
  BY DEF IInv, TypeOK, ManagerOK
<1>2. ASSUME main.op \in MainOps
      PROVE  main.c \in Calls /\ k \in Call
  BY <1>1, <1>2, BusyThreads DEF TypeOK
<1>3. <<>> \in Seq(Posts)
  OBVIOUS
<1>4. /\ "ACTIVE" \in CallStates
      /\ {"PROGRESSING", "CONNECTED", "DISCONNECTED"} \subseteq ConnectionStates
  BY DEF CallStates, ConnectionStates
<1>5. CASE RunClosure
  BY <1>5, RunClosureInv
<1>6. CASE StartCall
  <2>1. main.op \in MainOps /\ "startSend" \in MainOps /\ ManagerOK'
    BY <1>1, <1>6 DEF StartCall, MainOps, Closures, ManagerOK
  <2> QED
    BY <1>2, <1>3, <1>6, <2>1, MainContinues, StartFailsInv, ZenonT(30) DEF StartCall
<1>7. CASE SendInvite
  <2> DEFINE k1 == [k EXCEPT !.inv = TRUE, !.sess = "EARLY"]
             k2 == [k EXCEPT !.inv = TRUE]
  <2>1. main.op \in MainOps /\ "startState" \in MainOps /\ ManagerOK'
    BY <1>1, <1>7 DEF SendInvite, MainOps, ManagerOK
  <2>2. /\ k1 \in Call /\ k1.trans = k.trans /\ k1.hup = k.hup /\ k1.media = k.media
        /\ k2 \in Call /\ k2.trans = k.trans /\ k2.hup = k.hup /\ k2.media = k.media
    BY <1>2, <2>1, ZenonT(30) DEF Call, Sessions
  <2>3. UNCHANGED <<created, registered>>
    BY <1>7 DEF SendInvite
  <2>4. \/ Become(main.c, k1, <<>>) /\ MainGoes(Doing("startState", main.c))
        \/ StartFails(k)
        \/ StartFails(k2)
    BY <1>7 DEF SendInvite
  <2> HIDE DEF k1, k2
  <2>5. CASE Become(main.c, k1, <<>>) /\ MainGoes(Doing("startState", main.c))
    BY <1>3, <2>1, <2>2, <2>3, <2>5, MainContinues, ZenonT(30)
  <2>6. CASE StartFails(k)
    BY <1>2, <2>1, <2>3, <2>6, StartFailsInv
  <2>7. CASE StartFails(k2)
    BY <2>1, <2>2, <2>3, <2>7, StartFailsInv
  <2> QED
    BY <2>4, <2>5, <2>6, <2>7
<1>8. CASE StartTestsState
  <2>1. main.op \in MainOps /\ "startCommit" \in MainOps /\ ManagerOK'
    BY <1>1, <1>8 DEF StartTestsState, MainOps, ManagerOK
  <2> QED
    BY <1>2, <1>3, <1>8, <2>1, MainContinues, MainSame, ZenonT(30) DEF StartTestsState
<1>9. CASE StartSetsState
  <2>1. main.op \in MainOps /\ ManagerOK'
    BY <1>1, <1>9 DEF StartSetsState, MainOps, ManagerOK
  <2>2. /\ Assign(k, "ACTIVE", "PROGRESSING") \in Call
        /\ Same(k, Assign(k, "ACTIVE", "PROGRESSING"))
    BY <1>2, <1>4, <2>1, AssignRecord
  <2>3. MainEnds(Assign(k, "ACTIVE", "PROGRESSING"), <<>>) /\ UNCHANGED <<created, registered>>
    BY <1>9 DEF StartSetsState
  <2> QED
    BY <1>3, <2>1, <2>2, <2>3, MainSame, ZenonT(30) DEF Same
<1>10. CASE CheckAudio
  <2>1. main.op \in MainOps
    BY <1>10 DEF CheckAudio, MainOps, Closures
  <2>2. ManagerOK'
    BY <1>1, <1>10, ZenonT(30) DEF CheckAudio, CallEnded, ManagerOK
  <2> QED
    BY <1>2, <1>3, <1>10, <2>1, <2>2, MainSame, ZenonT(30) DEF CheckAudio
<1>11. CASE PeerAnsweredCall
  <2>1. main.op \in MainOps
    BY <1>11 DEF PeerAnsweredCall, MainOps, Closures
  <2>2. ManagerOK'
    BY <1>1, <1>2, <1>11, <2>1, ZenonT(30) DEF PeerAnsweredCall, ManagerOK
  <2> QED
    BY <1>2, <1>3, <1>11, <2>1, <2>2, MainSame, ZenonT(30) DEF PeerAnsweredCall
<1>12. CASE AnsweredTestsState
  <2>1. main.op \in MainOps /\ ManagerOK' /\ UNCHANGED <<created, registered>>
    BY <1>1, <1>12 DEF AnsweredTestsState, MainOps, Closures, ManagerOK
  <2>2. CASE MainEnds(k, <<>>)
    BY <1>2, <1>3, <2>1, <2>2, MainSame, ZenonT(30)
  <2>3. CASE /\ \E op \in MainOps : MainGoes(Doing(op, main.c))
             /\ UNCHANGED <<call, queue>>
    BY <1>2, <1>3, <2>1, <2>3, MainContinues, ZenonT(30)
  <2> QED
    BY <1>12, <2>2, <2>3 DEF AnsweredTestsState, MainOps
<1>13. CASE AnsweredSetsState
  <2>1. /\ main.op \in MainOps /\ "answeredAudio" \in MainOps
        /\ ManagerOK' /\ UNCHANGED <<created, registered>>
    BY <1>1, <1>13 DEF AnsweredSetsState, MainOps, ManagerOK
  <2>2. Assign(k, "ACTIVE", "CONNECTED") \in Call /\ Same(k, Assign(k, "ACTIVE", "CONNECTED"))
    BY <1>2, <1>4, <2>1, AssignRecord
  <2>3. /\ Become(main.c, Assign(k, "ACTIVE", "CONNECTED"), <<>>)
        /\ MainGoes(Doing("answeredAudio", main.c))
    BY <1>13 DEF AnsweredSetsState
  <2> QED
    BY <1>3, <2>1, <2>2, <2>3, MainContinues, ZenonT(30) DEF Same
<1>14. CASE ClosedTests
  <2>1. main.op \in MainOps /\ "closedTeardown" \in MainOps /\ ManagerOK'
    BY <1>1, <1>14 DEF ClosedTests, MainOps, Closures, ManagerOK
  <2> QED
    BY <1>2, <1>3, <1>14, <2>1, MainContinues, MainSame, ZenonT(30) DEF ClosedTests
<1>15. CASE PeerHungupCall
  <2> DEFINE t == Terminated(k, main.c, "MERROR")
             u == [t EXCEPT !.media = FALSE]
             v == SetConnection(u, "DISCONNECTED")
  <2>1. main.op \in MainOps /\ "remove" \in MainOps
    BY <1>15 DEF PeerHungupCall, MainOps
  <2>2. ManagerOK' /\ UNCHANGED <<created, registered>>
    BY <1>1, <1>15 DEF PeerHungupCall, ManagerOK
  <2>3. t \in Call /\ t.trans = k.trans /\ t.hup = k.hup
    BY <1>2, <2>1, TerminatedRecord, ZenonT(30) DEF CallStates
  <2>4. u \in Call /\ u.trans = k.trans /\ u.hup = k.hup /\ ~ u.media
    <3> HIDE DEF t
    <3> QED BY <2>3, ZenonT(30) DEF Call
  <2>5. v \in Call /\ v.trans = k.trans /\ v.hup = k.hup /\ ~ v.media
    <3> HIDE DEF u
    <3> QED BY <1>4, <2>4, SetConnectionRecord DEF Same
  <2>6. /\ Become(main.c, v, TerminationPosts(k, main.c, "MERROR"))
        /\ MainGoes(Doing("remove", main.c))
    BY <1>15 DEF PeerHungupCall
  <2>7. TerminationPosts(k, main.c, "MERROR") \in Seq(Posts)
    BY <1>2, <2>1, TerminationPostsType
  <2> HIDE DEF v
  <2> QED
    BY <2>1, <2>2, <2>5, <2>6, <2>7, MainContinues
<1>16. CASE CallFails
  <2>1. main.op \in MainOps /\ "remove" \in MainOps
    BY <1>16 DEF CallFails, MainOps, Closures
  <2>2. ManagerOK'
    BY <1>1, <1>16 DEF CallFails, CallEnded, ManagerOK
  <2> QED
    BY <1>2, <1>3, <1>16, <2>1, <2>2, MainContinues, ZenonT(30) DEF CallFails
<1>17. CASE RemoveCall
  <2>1. main.op \in MainOps /\ ManagerOK'
    BY <1>1, <1>17 DEF RemoveCall, MainOps, ManagerOK
  <2>2. Good(k, main.c)
    BY <1>2, <2>1 DEF IInv
  <2> QED
    BY <1>2, <1>3, <1>17, <2>1, <2>2, RemovedRecord, MainEndsInv, ZenonT(30) DEF RemoveCall, Good
<1> QED
  BY <1>5, <1>6, <1>7, <1>8, <1>9, <1>10, <1>11, <1>12, <1>13, <1>14, <1>15, <1>16, <1>17
  DEF MainStep

-----------------------------------------------------------------------------
(* The steps of the client thread. *)

(* The client thread goes on with its call. *)
LEMMA ApiSame ==
    ASSUME IInv, api.op \in ApiOps, NEW k \in Call, ApiEnds(k, <<>>),
           k.trans = call[api.c].trans, k.hup = call[api.c].hup,
           k.media = call[api.c].media,
           ManagerOK', UNCHANGED <<created, registered>>
    PROVE  IInv'
<1>1. api.c \in Calls /\ <<>> \in Seq(Posts)
  BY BusyThreads DEF IInv
<1>2. Good(call[api.c], api.c)
  BY <1>1 DEF IInv
<1> QED
  BY <1>1, <1>2, ApiEndsInv, ZenonT(30) DEF Good

(* The thread goes on with its call, which may change; its media may start  *)
(* if it has a transport.                                                  *)
LEMMA ApiContinues ==
    ASSUME IInv, api.op \in ApiOps, NEW op \in ApiOps, NEW k \in Call,
           ApiGoes(Doing(op, api.c)),
           \/ Become(api.c, k, <<>>)
           \/ UNCHANGED <<call, queue>>,
           k.trans => call[api.c].trans, k.hup = call[api.c].hup,
           k.media => call[api.c].media \/ call[api.c].trans,
           ManagerOK', UNCHANGED <<created, registered>>
    PROVE  IInv'
<1>1. TypeOK /\ ThreadsOK /\ api.c \in Calls /\ <<>> \in Seq(Posts)
  BY BusyThreads DEF IInv, TypeOK, ThreadsOK
<1>2. ThreadsOK' /\ Threads' = Threads
  BY <1>1 DEF ApiGoes, Doing, ThreadsOK, Threads
<1>3. Good(call[api.c], api.c) /\ api.c \in Threads
  BY <1>1, ZenonT(30) DEF IInv, Threads
<1>4. CASE Become(api.c, k, <<>>)
  BY <1>1, <1>2, <1>3, <1>4, KeepInv, ZenonT(30) DEF Good
<1>5. CASE UNCHANGED <<call, queue>>
  BY <1>2, <1>5 DEF IInv, TypeOK, ThreadsOK, ManagerOK, Good
<1> QED
  BY <1>4, <1>5

(* SIPCall::answer, whether it succeeds or throws *)
LEMMA AnswerInv ==
    ASSUME IInv, Answer
    PROVE  IInv'
<1> DEFINE c == api.c
           k == call[c]
<1>1. TypeOK /\ ManagerOK' /\ UNCHANGED created
  BY DEF IInv, TypeOK, ManagerOK, Answer
<1>2. api.op \in ApiOps /\ "answered" \in ApiOps
  BY DEF Answer, ApiOps
<1>3. c \in Calls /\ k \in Call /\ <<>> \in Seq(Posts)
  BY <1>1, <1>2, BusyThreads DEF TypeOK
<1>4. ASSUME NEW m \in {k.media, k.trans},
             Become(c, SetState([k EXCEPT !.sess = "CONNECTING", !.media = m],
                                "ACTIVE", "CONNECTED"), <<>>),
             ApiGoes(Doing("answered", c)), UNCHANGED registered
      PROVE  IInv'
  <2> DEFINE u == [k EXCEPT !.sess = "CONNECTING", !.media = m]
             v == SetState(u, "ACTIVE", "CONNECTED")
  <2>1. u \in Call /\ u.trans = k.trans /\ u.hup = k.hup /\ u.media = m
    BY <1>3, ZenonT(30) DEF Call, Sessions
  <2>2. v \in Call /\ v.trans = k.trans /\ v.hup = k.hup /\ v.media = m
    <3> HIDE DEF u
    <3> QED BY <2>1, SetStateRecord DEF Same, CallStates, ConnectionStates
  <2>3. Become(c, v, <<>>)
    BY <1>4
  <2> HIDE DEF v
  <2> QED
    BY <1>1, <1>2, <1>4, <2>2, <2>3, ApiContinues
<1>5. CASE ApiGoes(Doing("answered", c)) /\ UNCHANGED <<call, queue, registered>>
  BY <1>1, <1>2, <1>3, <1>5, ApiContinues
<1>6. CASE ApiEnds(k, <<>>) /\ UNCHANGED registered
  BY <1>1, <1>2, <1>3, <1>6, ApiSame
<1>7. CASE ApiEnds([k EXCEPT !.inv = FALSE], <<>>) /\ UNCHANGED registered
  <2> DEFINE u == [k EXCEPT !.inv = FALSE]
  <2>1. u \in Call /\ u.trans = k.trans /\ u.hup = k.hup /\ u.media = k.media
    BY <1>3, ZenonT(30) DEF Call
  <2>2. ApiEnds(u, <<>>)
    BY <1>7
  <2> HIDE DEF u
  <2> QED
    BY <1>1, <1>2, <1>7, <2>1, <2>2, ApiSame
<1>8. CASE /\ ApiEnds(HungUp(k, c), TerminationPosts(k, c, "MERROR"))
           /\ registered' = registered \ {c}
  BY <1>1, <1>2, <1>3, <1>8, HungUpRecord, TerminationPostsType, ApiEndsInv
<1> QED
  BY <1>4, <1>5, <1>6, <1>7, <1>8 DEF Answer, HangUp

(* Every step of the client thread keeps the invariant. *)
LEMMA ApiStepInv ==
    ASSUME IInv, ApiStep
    PROVE  IInv'
<1> DEFINE k == call[api.c]
<1>1. TypeOK /\ ManagerOK
  BY DEF IInv, TypeOK, ManagerOK
<1>2. ASSUME api.op \in ApiOps
      PROVE  api.c \in Calls /\ k \in Call
  BY <1>1, <1>2, BusyThreads DEF TypeOK
<1>3. {"ACTIVE", "HOLD"} \subseteq CallStates
  BY DEF CallStates
<1>4. ASSUME api.op \in ApiOps, NEW s \in {"ACTIVE", "HOLD"}
      PROVE  SetState(k, s, k.cnx) \in Call /\ Same(k, SetState(k, s, k.cnx))
  <2>1. k \in Call /\ k.cnx \in ConnectionStates
    BY <1>2, <1>4 DEF Call
  <2> QED
    BY <1>3, <2>1, SetStateRecord
<1>5. CASE OutgoingCallReturns
  <2>1. api.op \in ApiOps
    BY <1>5 DEF OutgoingCallReturns, ApiOps
  <2>2. ManagerOK'
    BY <1>1, <1>2, <1>5, <2>1, ZenonT(30) DEF OutgoingCallReturns, ManagerOK
  <2> QED
    BY <1>2, <1>5, <2>1, <2>2, ApiSame DEF OutgoingCallReturns
<1>6. CASE Answer
  BY <1>6, AnswerInv
<1>7. CASE AnswerCallReturns
  <2>1. api.op \in ApiOps
    BY <1>7 DEF AnswerCallReturns, ApiOps
  <2>2. ManagerOK'
    BY <1>1, <1>2, <1>7, <2>1 DEF AnswerCallReturns, ManagerOK
  <2> QED
    BY <1>2, <1>7, <2>1, <2>2, ApiSame DEF AnswerCallReturns
<1>8. CASE HangupCallEnds
  <2>1. api.op \in ApiOps /\ ManagerOK' /\ UNCHANGED created
    BY <1>1, <1>8 DEF HangupCallEnds, ApiOps, ManagerOK
  <2>2. CASE ApiEnds(k, <<>>) /\ UNCHANGED registered
    BY <1>2, <2>1, <2>2, ApiSame
  <2>3. CASE /\ ApiEnds(HungUp(k, api.c), TerminationPosts(k, api.c, "MERROR"))
             /\ registered' = registered \ {api.c}
    BY <1>2, <2>1, <2>3, HungUpRecord, TerminationPostsType, ApiEndsInv
  <2> QED
    BY <1>8, <2>2, <2>3 DEF HangupCallEnds, HangUp
<1>9. CASE RefuseCallReturns
  <2>1. api.op \in ApiOps
    BY <1>9 DEF RefuseCallReturns, ApiOps
  <2>2. ManagerOK'
    BY <1>1, <1>9 DEF RefuseCallReturns, ManagerOK
  <2> QED
    BY <1>2, <1>9, <2>1, <2>2, ApiSame DEF RefuseCallReturns
<1>10. CASE HoldSetsState
  <2>1. api.op \in ApiOps /\ Holding[api.op] \in ApiOps
    BY <1>10 DEF HoldSetsState, HoldOps, Holding, ApiOps
  <2>2. ManagerOK' /\ UNCHANGED <<created, registered>>
    BY <1>1, <1>10 DEF HoldSetsState, ManagerOK
  <2>3. SetState(k, "HOLD", k.cnx) \in Call /\ Same(k, SetState(k, "HOLD", k.cnx))
    BY <1>4, <2>1
  <2>4. CASE /\ Become(api.c, SetState(k, "HOLD", k.cnx), <<>>)
             /\ ApiGoes(Doing(Holding[api.op], api.c))
    BY <2>1, <2>2, <2>3, <2>4, ApiContinues DEF Same
  <2>5. CASE ApiEnds(k, <<>>)
    BY <1>2, <2>1, <2>2, <2>5, ApiSame
  <2> QED
    BY <1>10, <2>4, <2>5 DEF HoldSetsState
<1>11. CASE HoldReinvites
  <2>1. api.op \in ApiOps
    BY <1>11 DEF HoldReinvites, ApiOps
  <2>2. ManagerOK'
    BY <1>1, <1>11 DEF HoldReinvites, ManagerOK
  <2> QED
    BY <1>2, <1>11, <2>1, <2>2, ApiSame DEF HoldReinvites
<1>12. CASE HoldFails
  <2>1. api.op \in ApiOps
    BY <1>12 DEF HoldFails, ApiOps
  <2>2. ManagerOK' /\ UNCHANGED <<created, registered>>
        /\ ApiEnds(SetState(k, "ACTIVE", k.cnx), <<>>)
    BY <1>1, <1>12 DEF HoldFails, ManagerOK
  <2>3. SetState(k, "ACTIVE", k.cnx) \in Call /\ Same(k, SetState(k, "ACTIVE", k.cnx))
    BY <1>4, <2>1
  <2> QED
    BY <2>1, <2>2, <2>3, ApiSame DEF Same
<1>13. CASE OffHoldReinvites
  <2>1. api.op \in ApiOps
    BY <1>13 DEF OffHoldReinvites, ApiOps
  <2>2. ManagerOK'
    BY <1>1, <1>2, <1>13, <2>1 DEF OffHoldReinvites, ManagerOK
  <2> QED
    BY <1>2, <1>13, <2>1, <2>2, ApiSame DEF OffHoldReinvites
<1>14. CASE OffHoldFails
  <2>1. api.op \in ApiOps /\ "rehold" \in ApiOps
    BY <1>14 DEF OffHoldFails, ApiOps
  <2>2. ManagerOK'
    BY <1>1, <1>14 DEF OffHoldFails, ManagerOK
  <2> QED
    BY <1>2, <1>14, <2>1, <2>2, ApiSame, ApiContinues DEF OffHoldFails
<1> QED
  BY <1>5, <1>6, <1>7, <1>8, <1>9, <1>10, <1>11, <1>12, <1>13, <1>14 DEF ApiStep

-----------------------------------------------------------------------------
(* What the network and the clients begin: a thread that was idle takes up  *)
(* a call, new or old, and no old call gains anything.                     *)

(* A step that makes the calls N, if any, takes no call from a thread and starts no
   media keeps the invariant. *)
LEMMA BeginInv ==
    ASSUME IInv, NEW N \in SUBSET (Calls \ created),
           created' = created \cup N, registered' = registered \cup N,
           call' \in [Calls -> Call], queue' \in Seq(Posts), ThreadsOK', ManagerOK',
           \A d \in N : ~ call'[d].hup,
           \A d \in Calls \ N : /\ call'[d].trans = call[d].trans
                                /\ call'[d].inv = call[d].inv
                                /\ call'[d].hup = call[d].hup
                                /\ call'[d].media => call[d].media,
           \A d \in Calls : d \in Threads => d \in Threads'
    PROVE  IInv'
<1>1. TypeOK'
  BY DEF IInv, TypeOK, ThreadsOK, ManagerOK, Posts
<1>2. ASSUME NEW d \in N PROVE Good(call[d], d)'
  BY DEF Good
<1>3. ASSUME NEW d \in Calls \ N PROVE Good(call[d], d)'
  BY DEF Good, IInv
<1> QED
  BY <1>1, <1>2, <1>3 DEF IInv

(* An idle SIP thread that takes up a call takes none from a thread. *)
LEMMA SipTakesUp ==
    ASSUME IInv, sip = Idle, NEW a \in {Idle} \cup [op : SipOps, c : Calls], SipGoes(a)
    PROVE  ThreadsOK' /\ \A d \in Calls : d \in Threads => d \in Threads'
BY CallsAssumption DEF IInv, TypeOK, ThreadsOK, Threads, SipGoes, Idle

(* An idle client thread that takes up a call takes none from a thread. *)
LEMMA ApiTakesUp ==
    ASSUME IInv, api = Idle, NEW a \in {Idle} \cup [op : ApiOps, c : Calls], ApiGoes(a)
    PROVE  ThreadsOK' /\ \A d \in Calls : d \in Threads => d \in Threads'
BY CallsAssumption DEF IInv, TypeOK, ThreadsOK, Threads, ApiGoes, Idle

(* The records a call starts with. *)
LEMMA NewRecords ==
    ASSUME NEW t \in BOOLEAN
    PROVE  LET k == [NewCall EXCEPT !.trans = t] IN
           /\ k \in Call /\ ~ k.hup
           /\ SetState(k, "MERROR", "DISCONNECTED") \in Call
           /\ ~ SetState(k, "MERROR", "DISCONNECTED").hup
<1> DEFINE k == [NewCall EXCEPT !.trans = t]
<1>1. k \in Call /\ ~ k.hup
  BY ZenonT(30) DEF NewCall, Call, CallStates, ConnectionStates, Sessions
<1> HIDE DEF k
<1>2. /\ SetState(k, "MERROR", "DISCONNECTED") \in Call
      /\ Same(k, SetState(k, "MERROR", "DISCONNECTED"))
  BY <1>1, SetStateRecord DEF CallStates, ConnectionStates
<1> QED
  BY <1>1, <1>2 DEF Same, k

(* Manager::outgoingCall makes a call. *)
LEMMA OutgoingInv ==
    ASSUME IInv, NEW c \in Calls, NEW t \in BOOLEAN,
           OutgoingCall(c, t) \/ OutgoingCallNoOffer(c, t)
    PROVE  IInv'
<1> DEFINE k == [NewCall EXCEPT !.trans = t]
           f == SetState(k, "MERROR", "DISCONNECTED")
<1>1. k \in Call /\ ~ k.hup /\ f \in Call /\ ~ f.hup
  BY NewRecords
<1>2. TypeOK /\ queue \in Seq(Posts) /\ c \in Calls \ created /\ ManagerOK' /\ api = Idle
  BY DEF IInv, TypeOK, Posts, ManagerOK, managerVars, OutgoingCall, OutgoingCallNoOffer,
         NewOutgoingCall, Fresh
<1>3. created' = created \cup {c} /\ registered' = registered \cup {c}
  BY DEF OutgoingCall, OutgoingCallNoOffer, NewOutgoingCall
<1>4. ThreadsOK' /\ \A d \in Calls : d \in Threads => d \in Threads'
  <2>1. Doing("dialled", c) \in [op : ApiOps, c : Calls]
    BY DEF Doing, ApiOps
  <2>2. CASE OutgoingCall(c, t)
    BY <1>2, <2>1, <2>2, ApiTakesUp DEF OutgoingCall
  <2>3. CASE OutgoingCallNoOffer(c, t)
    BY <1>2, <2>3 DEF OutgoingCallNoOffer, TypeOK, ThreadsOK, Threads
  <2> QED
    BY <2>2, <2>3
<1>5. \E k2 \in {k, f} : /\ call' = [call EXCEPT ![c] = k2]
                         /\ queue' \in Seq(Posts)
  <2>1. /\ <<Doing("start", c)>> \in Seq(Posts)
        /\ <<Doing("failure", c)>> \in Seq(Posts)
    BY PostType DEF Closures
  <2>2. CASE OutgoingCall(c, t)
    <3>1. PICK k2 \in {k, f}, posts \in Seq(Posts) : Become(c, k2, posts)
      BY <2>1, <2>2, ZenonT(30) DEF OutgoingCall, NewOutgoingCall
    <3>2. k2 \in Call
      BY <1>1, <3>1
    <3> HIDE DEF k, f
    <3> QED
      BY <1>2, <3>1, <3>2, BecomeType, ZenonT(30) DEF Become
  <2>3. CASE OutgoingCallNoOffer(c, t)
    BY <1>2, <2>3 DEF OutgoingCallNoOffer
  <2> QED
    BY <2>2, <2>3
<1> HIDE DEF k, f
<1>6. call' \in [Calls -> Call] /\ ~ call'[c].hup /\ \A d \in Calls \ {c} : call'[d] = call[d]
  BY <1>1, <1>2, <1>5 DEF TypeOK
<1>7. {c} \in SUBSET (Calls \ created) /\ queue' \in Seq(Posts)
  BY <1>2, <1>5
<1> QED
  BY <1>2, <1>3, <1>4, <1>6, <1>7, BeginInv, ZenonT(30)

(* transaction_request_cb makes a call. *)
LEMMA IncomingInv ==
    ASSUME IInv, NEW c \in Calls, IncomingInvite(c) \/ IncomingInviteDND(c)
    PROVE  IInv'
<1> DEFINE k == [NewCall EXCEPT !.trans = TRUE]
           s == [k EXCEPT !.inv = TRUE, !.sess = "EARLY"]
           e == [NewCall EXCEPT !.trans = TRUE, !.inv = TRUE, !.sess = "DISCONNECTED"]
           r == SetConnection(s, "TRYING")
<1>1. k \in Call /\ ~ k.hup /\ s \in Call /\ ~ s.hup /\ e \in Call /\ ~ e.hup
  BY ZenonT(30) DEF NewCall, Call, CallStates, ConnectionStates, Sessions
<1>2. r \in Call /\ ~ r.hup
  <2> HIDE DEF s
  <2> QED BY <1>1, SetConnectionRecord DEF Same, ConnectionStates
<1>3. /\ TypeOK /\ queue \in Seq(Posts) /\ {c} \in SUBSET (Calls \ created)
      /\ ManagerOK' /\ sip = Idle
      /\ created' = created \cup {c} /\ registered' = registered \cup {c}
  BY DEF IInv, TypeOK, Posts, ManagerOK, managerVars, IncomingInvite, IncomingInviteDND, Fresh
<1>4. ThreadsOK' /\ \A d \in Calls : d \in Threads => d \in Threads'
  <2>1. Doing("invite", c) \in [op : SipOps, c : Calls]
    BY DEF Doing, SipOps
  <2>2. CASE IncomingInvite(c)
    BY <1>3, <2>1, <2>2, SipTakesUp DEF IncomingInvite
  <2>3. CASE IncomingInviteDND(c)
    BY <1>3, <2>3 DEF IncomingInviteDND, TypeOK, ThreadsOK, Threads
  <2> QED
    BY <2>2, <2>3
<1>5. \E k2 \in {k, s, e, r} : call' = [call EXCEPT ![c] = k2] /\ queue' \in Seq(Posts)
  <2>1. CASE IncomingInvite(c)
    <3>1. PICK k2 \in {k, s, r} : Become(c, k2, <<>>)
      BY <2>1 DEF IncomingInvite
    <3> HIDE DEF k, s, e, r
    <3>2. k2 \in Call /\ <<>> \in Seq(Posts)
      BY <1>1, <1>2, <3>1
    <3>3. queue' \in Seq(Posts)
      BY <1>3, <3>1, <3>2, BecomeType, ZenonT(30)
    <3>4. call' = [call EXCEPT ![c] = k2]
      BY <3>1 DEF Become
    <3> QED
      BY <3>3, <3>4, ZenonT(30)
  <2>2. CASE IncomingInviteDND(c)
    BY <1>3, <2>2 DEF IncomingInviteDND
  <2> QED
    BY <2>1, <2>2
<1> HIDE DEF k, s, e, r
<1>6. call' \in [Calls -> Call] /\ ~ call'[c].hup /\ \A d \in Calls \ {c} : call'[d] = call[d]
  <2>1. PICK k2 \in {k, s, e, r} : call' = [call EXCEPT ![c] = k2]
    BY <1>5, ZenonT(30)
  <2>2. k2 \in Call /\ ~ k2.hup
    BY <1>1, <1>2
  <2>3. call \in [Calls -> Call]
    BY <1>3 DEF TypeOK
  <2> QED
    BY <2>1, <2>2, <2>3
<1>7. queue' \in Seq(Posts)
  BY <1>5
<1> QED
  BY <1>3, <1>4, <1>6, <1>7, BeginInv, ZenonT(30)

(* A failed INVITE is dialled again over another route. *)
LEMMA RetryInv ==
    ASSUME IInv, NEW c \in Calls, NEW d \in Calls, NEW t \in BOOLEAN, RetryOnRoute(c, d, t)
    PROVE  IInv'
<1> DEFINE k == [NewCall EXCEPT !.trans = t]
           f == SetState(k, "MERROR", "DISCONNECTED")
           o == [call[c] EXCEPT !.sess = "DISCONNECTED"]
<1>1. k \in Call /\ ~ k.hup /\ f \in Call /\ ~ f.hup
  BY NewRecords
<1>2. /\ TypeOK /\ queue \in Seq(Posts) /\ {d} \in SUBSET (Calls \ created) /\ d # c
      /\ ManagerOK' /\ sip = Idle
      /\ created' = created \cup {d} /\ registered' = registered \cup {d}
  BY DEF IInv, TypeOK, Posts, ManagerOK, managerVars, RetryOnRoute, Fresh
<1>3. ThreadsOK' /\ \A x \in Calls : x \in Threads => x \in Threads'
  <2>1. Doing("failure", c) \in [op : SipOps, c : Calls]
    BY DEF Doing, SipOps
  <2> QED
    BY <1>2, <2>1, SipTakesUp DEF RetryOnRoute
<1>4. queue' \in Seq(Posts)
  <2>1. \A op \in Closures : Doing(op, d) \in Posts
    BY DEF Doing, Posts
  <2>2. Doing("start", d) \in Posts /\ Doing("audio", d) \in Posts /\ Doing("failure", d) \in Posts
    BY <2>1 DEF Closures
  <2> HIDE DEF Posts
  <2>3. <<Doing("audio", d), Doing("failure", d)>> \in Seq(Posts)
    BY <2>2
  <2>4. \/ queue' = Append(queue, Doing("start", d))
        \/ queue' = queue \o <<Doing("audio", d), Doing("failure", d)>>
    BY DEF RetryOnRoute
  <2>5. Append(queue, Doing("start", d)) \in Seq(Posts)
    BY <1>2, <2>2
  <2>6. queue \o <<Doing("audio", d), Doing("failure", d)>> \in Seq(Posts)
    BY <1>2, <2>3
  <2> QED
    BY <2>4, <2>5, <2>6, ZenonT(30)
<1>5. o \in Call /\ o.trans = call[c].trans /\ o.inv = call[c].inv /\ o.hup = call[c].hup
      /\ o.media = call[c].media
  <2>1. call[c] \in Call
    BY <1>2 DEF TypeOK
  <2> QED
    BY <2>1 DEF Call, Sessions
<1>6. \E k2 \in {k, f} : call' = [call EXCEPT ![c] = o, ![d] = k2]
  BY DEF RetryOnRoute
<1> HIDE DEF k, f, o
<1>7. /\ call' \in [Calls -> Call] /\ ~ call'[d].hup /\ call'[c] = o
      /\ \A x \in Calls \ {c, d} : call'[x] = call[x]
  <2>1. PICK k2 \in {k, f} : call' = [call EXCEPT ![c] = o, ![d] = k2]
    BY <1>6, ZenonT(30)
  <2>2. k2 \in Call /\ ~ k2.hup
    BY <1>1
  <2>3. call \in [Calls -> Call] /\ d # c
    BY <1>2 DEF TypeOK
  <2> QED
    BY <1>5, <2>1, <2>2, <2>3
<1>8. \A x \in Calls \ {d} : /\ call'[x].trans = call[x].trans
                             /\ call'[x].inv = call[x].inv
                             /\ call'[x].hup = call[x].hup
                             /\ call'[x].media => call[x].media
  BY <1>5, <1>7
<1> QED
  BY <1>2, <1>3, <1>4, <1>7, <1>8, BeginInv, ZenonT(30)

(* What PJSIP reports keeps the invariant. *)
LEMMA EventInv ==
    ASSUME IInv, NEW c \in Calls,
           TransportLost(c) \/ \E e \in SessionEvents : SessionEvent(c, e)
    PROVE  IInv'
<1> DEFINE New == {}
<1>1. /\ TypeOK /\ queue' \in Seq(Posts) /\ ManagerOK' /\ sip = Idle
      /\ created' = created \cup New /\ registered' = registered \cup New
  BY DEF IInv, TypeOK, Posts, ManagerOK, TransportLost, SessionEvent
<1>2. ThreadsOK' /\ \A d \in Calls : d \in Threads => d \in Threads'
  <2>1. \A e \in SessionEvents : Doing(e, c) \in [op : SipOps, c : Calls]
    BY DEF Doing, SipOps, SessionEvents
  <2>2. PICK a \in {Idle} \cup [op : SipOps, c : Calls] : SipGoes(a)
    BY <2>1 DEF TransportLost, SessionEvent, SessionEvents
  <2> QED
    BY <1>1, <2>2, SipTakesUp
<1>3. PICK k \in Call : /\ call' = [call EXCEPT ![c] = k]
                        /\ k.trans = call[c].trans /\ k.inv = call[c].inv
                        /\ k.hup = call[c].hup /\ (k.media => call[c].media)
  <2>1. call[c] \in Call
    BY <1>1 DEF TypeOK
  <2>2. CASE TransportLost(c)
    <3> DEFINE k == [call[c] EXCEPT !.media = FALSE]
    <3>1. call' = [call EXCEPT ![c] = k]
      BY <2>2 DEF TransportLost
    <3>2. /\ k \in Call /\ k.trans = call[c].trans /\ k.inv = call[c].inv
          /\ k.hup = call[c].hup /\ ~ k.media
      BY <2>1, ZenonT(30) DEF Call
    <3> HIDE DEF k
    <3> QED
      BY <3>1, <3>2, ZenonT(30)
  <2>3. CASE \E e \in SessionEvents : SessionEvent(c, e)
    <3>1. PICK e \in SessionEvents : SessionEvent(c, e)
      BY <2>3
    <3> DEFINE k == [call[c] EXCEPT !.sess = SessionAfter(call[c], e)]
    <3>2. call' = [call EXCEPT ![c] = k]
      BY <3>1 DEF SessionEvent
    <3>3. SessionAfter(call[c], e) \in Sessions
      BY <2>1 DEF SessionAfter, Sessions, Call
    <3>4. /\ k \in Call /\ k.trans = call[c].trans /\ k.inv = call[c].inv
          /\ k.hup = call[c].hup /\ k.media = call[c].media
      BY <2>1, <3>3 DEF Call
    <3> HIDE DEF k
    <3> QED
      BY <3>2, <3>4, ZenonT(30)
  <2> QED
    BY <2>2, <2>3
<1>4. call' \in [Calls -> Call]
  BY <1>1, <1>3 DEF TypeOK
<1>5. \A x \in Calls \ New : /\ call'[x].trans = call[x].trans
                             /\ call'[x].inv = call[x].inv
                             /\ call'[x].hup = call[x].hup
                             /\ call'[x].media => call[x].media
  BY <1>1, <1>3 DEF TypeOK
<1>6. New \in SUBSET (Calls \ created) /\ \A d \in New : ~ call'[d].hup
  OBVIOUS
<1> HIDE DEF New
<1> QED
  BY <1>1, <1>2, <1>4, <1>5, <1>6, BeginInv, ZenonT(30)

(* What clients ask for keeps the invariant. *)
LEMMA ClientInv ==
    ASSUME IInv, NEW c \in Calls,
           AnswerCall(c) \/ HangupCall(c) \/ RefuseCall(c) \/ OnHoldCall(c) \/ OffHoldCall(c)
    PROVE  IInv'
<1> DEFINE k == call[c]
<1>1. /\ TypeOK /\ ManagerOK' /\ api = Idle /\ created' = created
      /\ k \in Call /\ Good(k, c) /\ c \in registered
  BY ZenonT(30) DEF IInv, TypeOK, ManagerOK, AnswerCall, HangupCall, RefuseCall, OnHoldCall, OffHoldCall
<1>2. ThreadsOK' /\ \A d \in Calls : d \in Threads => d \in Threads'
  <2>1. \A op \in ApiOps : Doing(op, c) \in [op : ApiOps, c : Calls]
    BY DEF Doing
  <2>2. PICK a \in {Idle} \cup [op : ApiOps, c : Calls] : ApiGoes(a)
    BY <2>1 DEF AnswerCall, HangupCall, RefuseCall, OnHoldCall, OffHoldCall, ApiOps
  <2> QED
    BY <1>1, <2>2, ApiTakesUp
<1>3. CASE UNCHANGED <<call, queue, registered>>
  BY <1>1, <1>2, <1>3, ZenonT(30) DEF IInv, TypeOK, ThreadsOK, ManagerOK, Good
<1>4. CASE /\ Become(c, Refused(k, c), TerminationPosts(k, c, "BUSY"))
           /\ registered' = registered \ {c}
  <2> DEFINE n == Refused(k, c)
             posts == TerminationPosts(k, c, "BUSY")
  <2>1. n \in Call /\ ~ n.inv /\ ~ n.trans /\ n.hup = k.hup /\ ~ n.media
    BY <1>1, RefusedRecord
  <2>2. posts \in Seq(Posts) /\ Become(c, n, posts)
    BY <1>4, TerminationPostsType
  <2>3. n.hup => ~ n.media /\ (call[c].hup \/ registered' = registered \ {c})
    BY <2>1
  <2> HIDE DEF n, posts
  <2> QED
    BY <1>1, <1>2, <1>4, <2>1, <2>2, <2>3, KeepInv
<1>5. CASE Become(c, SetState(k, "ACTIVE", k.cnx), <<>>) /\ UNCHANGED registered
  <2>1. k.cnx \in ConnectionStates /\ "ACTIVE" \in CallStates /\ <<>> \in Seq(Posts)
    BY <1>1 DEF Call, CallStates
  <2>2. SetState(k, "ACTIVE", k.cnx) \in Call /\ Same(k, SetState(k, "ACTIVE", k.cnx))
    BY <1>1, <2>1, SetStateRecord
  <2> QED
    BY <1>1, <1>2, <1>5, <2>1, <2>2, KeepInv, ZenonT(30) DEF Same, Good
<1> QED
  BY <1>3, <1>4, <1>5, ZenonT(30) DEF AnswerCall, HangupCall, RefuseCall, OnHoldCall, OffHoldCall

-----------------------------------------------------------------------------
(* At the start there is no call. *)
LEMMA InitInv == Init => IInv
<1> SUFFICES ASSUME Init PROVE IInv
  OBVIOUS
<1>1. NewCall \in Call /\ ~ NewCall.trans /\ ~ NewCall.inv /\ ~ NewCall.hup
  BY DEF NewCall, Call, CallStates, ConnectionStates, Sessions
<1> HIDE DEF NewCall
<1>2. TypeOK
  <2>1. call \in [Calls -> Call]
    BY <1>1 DEF Init
  <2>2. queue \in Seq([op : Closures, c : Calls])
    BY DEF Init
  <2> QED
    BY <2>1, <2>2, ZenonT(30) DEF Init, TypeOK
<1>3. \A c \in Calls : Good(call[c], c)
  BY <1>1 DEF Init, Good
<1> QED
  BY <1>2, <1>3 DEF IInv

(* Every step keeps the invariant. *)
LEMMA StepInv == IInv /\ [Next]_vars => IInv'
<1> SUFFICES ASSUME IInv, [Next]_vars PROVE IInv'
  OBVIOUS
<1>1. CASE SipStep
  BY <1>1, SipStepInv
<1>2. CASE MainStep
  BY <1>2, MainStepInv
<1>3. CASE ApiStep
  BY <1>3, ApiStepInv
<1>4. CASE Begin
  <2>1. PICK c \in Calls : NetworkBegins(c) \/ ClientBegins(c)
    BY <1>4 DEF Begin
  <2>2. CASE NetworkBegins(c)
    BY <2>2, IncomingInv, EventInv, RetryInv DEF NetworkBegins
  <2>3. CASE ClientBegins(c)
    BY <2>3, OutgoingInv, ClientInv DEF ClientBegins
  <2> QED
    BY <2>1, <2>2, <2>3
<1>5. CASE UNCHANGED vars
  BY <1>5 DEF vars, IInv, TypeOK, Good, Threads
<1> QED
  BY <1>1, <1>2, <1>3, <1>4, <1>5 DEF Next

(* The inductive invariant holds in every reachable state. *)
THEOREM Inductive == Spec => []IInv
BY InitInv, StepInv, PTL DEF Spec

(* Every variable keeps its type, so every callback, closure and client     *)
(* function works on a call that exists.                                   *)
THEOREM TypeCorrect == Spec => []TypeOK
<1>1. IInv => TypeOK
  BY DEF IInv
<1> QED
  BY <1>1, Inductive, PTL

(* A call out of the factory holds no transport, whichever of hangup,       *)
(* refuse and removeCall took it out: a start task still queued for it     *)
(* sends nothing (the test of SIPStartCall).                               *)
THEOREM RemovedHasNoTransport == Spec => []TransportMeansRegistered
<1>1. IInv => TransportMeansRegistered
  BY DEF IInv, Good, TransportMeansRegistered
<1> QED
  BY <1>1, Inductive, PTL

(* The raw pointer in the session's mod_data never outlives the call: it    *)
(* is set only while the factory or a thread at work holds the call.       *)
THEOREM NoDanglingSession == Spec => []SessionPointsToLiveCall
<1>1. IInv => SessionPointsToLiveCall
  BY DEF IInv, Good, SessionPointsToLiveCall, Alive, Threads
<1> QED
  BY <1>1, Inductive, PTL

(* No RTP session runs on a call this side hung up, however late the SDP    *)
(* answer is negotiated: hangup removed the transport startAllMedia needs. *)
THEOREM HungUpIsQuiet == Spec => []NoMediaAfterHangup
<1>1. IInv => NoMediaAfterHangup
  BY DEF IInv, Good, NoMediaAfterHangup
<1> QED
  BY <1>1, Inductive, PTL
=============================================================================
