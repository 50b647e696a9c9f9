----------------------- MODULE ScheduledExecutorProofs -----------------------
(***************************************************************************)
(* Proofs about the job queue: its types, that one thread drains it, that  *)
(* no job runs early and that none runs twice, for any set of jobs and any *)
(* values of the bounds.                                                   *)
(***************************************************************************)
EXTENDS ScheduledExecutor, SequenceTheorems, WellFoundedInduction, TLAPS

(* Where a job may be found. *)
InJobs(j) == \E t \in Times : \E i \in DOMAIN jobs[t] : jobs[t][i].job = j
InBatch(j) == \E w \in Threads : \E i \in DOMAIN batch[w] : batch[w][i].job = j
InBegan(j) == \E i \in DOMAIN began : began[i].job = j

(* Threads after thread_ are not made yet; those before it have left their  *)
(* loop, unless they were detached.                                         *)
WorkerInv ==
    /\ \A w \in Threads : w > thread => pc[w] = "unborn"
    /\ \A w \in Threads \ detached : w < thread => pc[w] = "exited"

(* An entry is kept under its due time, and what was taken out is due. *)
DueInv ==
    /\ \A t \in Times : \A i \in DOMAIN jobs[t] : jobs[t][i].due = t
    /\ \A w \in Threads : \A i \in DOMAIN batch[w] : batch[w][i].due <= now
    /\ NeverEarly

(* What is to be posted again is a job that repeats. *)
RearmInv ==
    \A w \in Threads : rearm[w] # <<>> =>
        rearm[w][1] \in Entry /\ rearm[w][1].job \in Posted /\ ~ OneShot(rearm[w][1].job)

(* Only what was posted is in the queue, and a one-shot job is in one place *)
(* of it at a time.                                                         *)
PostedInv ==
    \A j \in Jobs : InJobs(j) \/ InBatch(j) \/ InBegan(j) \/ j \in lost => j \in Posted

JobsOnce(j) ==
    \A t, u \in Times : \A i \in DOMAIN jobs[t], k \in DOMAIN jobs[u] :
        jobs[t][i].job = j /\ jobs[u][k].job = j => t = u /\ i = k

BatchOnce(j) ==
    \A v, w \in Threads : \A i \in DOMAIN batch[v], k \in DOMAIN batch[w] :
        batch[v][i].job = j /\ batch[w][k].job = j => v = w /\ i = k

BeganOnce(j) ==
    \A i, k \in DOMAIN began : began[i].job = j /\ began[k].job = j => i = k

OnePlace(j) ==
    /\ InJobs(j) => ~ InBatch(j) /\ ~ InBegan(j) /\ j \notin lost
    /\ InBatch(j) => ~ InBegan(j) /\ j \notin lost
    /\ InBegan(j) => j \notin lost

Once(j) == JobsOnce(j) /\ BatchOnce(j) /\ BeganOnce(j) /\ OnePlace(j)

OnceInv == \A j \in Jobs : OneShot(j) => Once(j)

PlaceInv == RearmInv /\ PostedInv /\ OnceInv

IInv == TypeOK /\ WorkerInv /\ DueInv /\ PlaceInv

-----------------------------------------------------------------------------
(* The queue *)

(* When something is queued, there is a first time at which something is:  *)
(* jobs_.begin() is a queued entry and nothing is due before it.           *)
LEMMA EarliestIsFirst ==
    ASSUME \E t \in Times : Pending(t)
    PROVE  /\ Earliest \in Times /\ Pending(Earliest)
           /\ \A s \in Times : Pending(s) => Earliest <= s
<1> DEFINE T == {t \in Times : Pending(t)}
<1>1. T \subseteq Nat /\ T # {}
    BY BoundsAssumption DEF Times
<1>2. PICK x \in T : \A y \in T : ~ (<<y, x>> \in OpToRel(<, Nat))
    <2> HIDE DEF T
    <2> QED BY <1>1, NatLessThanWellFounded, WFMin
<1>3. \A y \in T : ~ (y < x)
    BY <1>1, <1>2 DEF OpToRel
<1>4. x \in Times /\ Pending(x) /\ \A s \in Times : s < x => ~ Pending(s)
    BY <1>3
<1>5. Earliest \in Times /\ Pending(Earliest) /\ \A s \in Times : s < Earliest => ~ Pending(s)
    BY <1>4 DEF Earliest
<1> QED BY <1>5, BoundsAssumption DEF Times

(* notify_all wakes those who wait and touches no one else. *)
LEMMA NotifiedProps ==
    ASSUME TypeOK
    PROVE  /\ Notified(pc) \in [Threads -> {"unborn", "loop", "wait", "batch", "exited"}]
           /\ \A w \in Threads : pc[w] # "wait" => Notified(pc)[w] = pc[w]
           /\ \A w \in Threads : pc[w] = "wait" => Notified(pc)[w] = "loop"
BY DEF TypeOK, Notified

(* What the emplace_back of an entry makes of a vector. *)
LEMMA EnqueueProps ==
    ASSUME TypeOK, NEW j \in Jobs, NEW t, Enqueue(j, t)
    PROVE  /\ t \in Times /\ pc' = Notified(pc)
           /\ jobs' \in [Times -> Seq(Entry)]
           /\ \A u \in Times \ {t} : jobs'[u] = jobs[u]
           /\ DOMAIN jobs[t] = 1 .. Len(jobs[t]) /\ Len(jobs[t]) \in Nat
           /\ DOMAIN (jobs'[t]) = 1 .. (Len(jobs[t]) + 1)
           /\ \A i \in 1 .. Len(jobs[t]) : jobs'[t][i] = jobs[t][i]
           /\ jobs'[t][Len(jobs[t]) + 1] = [job |-> j, due |-> t]
<1> DEFINE e == [job |-> j, due |-> t]
<1>1. t \in Times /\ pc' = Notified(pc) /\ jobs' = [jobs EXCEPT ![t] = Append(jobs[t], e)]
    BY DEF Enqueue
<1>2. e \in Entry
    BY <1>1 DEF Entry
<1>3. jobs \in [Times -> Seq(Entry)] /\ jobs[t] \in Seq(Entry)
    BY <1>1 DEF TypeOK
<1>4. /\ Append(jobs[t], e) \in Seq(Entry)
      /\ Len(Append(jobs[t], e)) = Len(jobs[t]) + 1
      /\ \A i \in 1 .. Len(jobs[t]) : Append(jobs[t], e)[i] = jobs[t][i]
      /\ Append(jobs[t], e)[Len(jobs[t]) + 1] = e
    BY <1>2, <1>3, AppendProperties
<1>5. /\ DOMAIN jobs[t] = 1 .. Len(jobs[t]) /\ Len(jobs[t]) \in Nat
      /\ DOMAIN Append(jobs[t], e) = 1 .. Len(Append(jobs[t], e))
    BY <1>3, <1>4, LenProperties
<1>6. jobs'[t] = Append(jobs[t], e) /\ \A u \in Times \ {t} : jobs'[u] = jobs[u]
    BY <1>1, <1>3
<1>7. jobs' \in [Times -> Seq(Entry)]
    BY <1>1, <1>3, <1>4
<1> HIDE DEF e
<1>8. /\ DOMAIN (jobs'[t]) = 1 .. (Len(jobs[t]) + 1)
      /\ \A i \in 1 .. Len(jobs[t]) : jobs'[t][i] = jobs[t][i]
      /\ jobs'[t][Len(jobs[t]) + 1] = e
    BY <1>4, <1>5, <1>6
<1> QED BY <1>1, <1>5, <1>6, <1>7, <1>8 DEF e

(* The vector that a worker runs, without the job it takes. *)
LEMMA TailProps ==
    ASSUME TypeOK, NEW w \in Threads, batch[w] # <<>>
    PROVE  /\ Head(batch[w]) \in Entry /\ Head(batch[w]) = batch[w][1]
           /\ Tail(batch[w]) \in Seq(Entry)
           /\ DOMAIN batch[w] = 1 .. Len(batch[w]) /\ Len(batch[w]) \in Nat \ {0}
           /\ DOMAIN Tail(batch[w]) = 1 .. (Len(batch[w]) - 1)
           /\ \A i \in 1 .. (Len(batch[w]) - 1) : Tail(batch[w])[i] = batch[w][i + 1]
<1>1. batch[w] \in Seq(Entry)
    BY DEF TypeOK
<1>2. /\ Head(batch[w]) \in Entry /\ Tail(batch[w]) \in Seq(Entry)
      /\ Len(Tail(batch[w])) = Len(batch[w]) - 1
      /\ \A i \in 1 .. Len(Tail(batch[w])) : Tail(batch[w])[i] = batch[w][i + 1]
    BY <1>1, HeadTailProperties
<1>3. /\ DOMAIN batch[w] = 1 .. Len(batch[w]) /\ Len(batch[w]) \in Nat
      /\ DOMAIN Tail(batch[w]) = 1 .. Len(Tail(batch[w]))
    BY <1>1, <1>2, LenProperties
<1>4. Len(batch[w]) # 0 /\ Head(batch[w]) = batch[w][1]
    BY <1>1, EmptySeq
<1> QED BY <1>2, <1>3, <1>4

(* A job that is to be posted again is an entry. *)
LEMMA RearmProps ==
    ASSUME TypeOK, NEW w \in Threads, rearm[w] # <<>>
    PROVE  rearm[w][1] \in Entry
<1>1. rearm[w] \in Seq(Entry)
    BY DEF TypeOK
<1>2. Len(rearm[w]) \in Nat /\ Len(rearm[w]) # 0
    BY <1>1, EmptySeq, LenProperties
<1> QED BY <1>1, <1>2, ElementOfSeq

(* The history of what was posted. *)
LEMMA PostProps ==
    ASSUME TypeOK, NEW j \in Jobs, NEW t, Post(j, t)
    PROVE  /\ posted' \in Seq([job : Jobs, due : Times, at : Times])
           /\ j \notin Posted /\ Posted' = Posted \cup {j}
<1> DEFINE P == [job : Jobs, due : Times, at : Times]
           e == [job |-> j, due |-> t, at |-> now]
<1>1. e \in P /\ posted \in Seq(P) /\ posted' = Append(posted, e) /\ j \notin Posted
    BY DEF TypeOK, Post, Enqueue
<1>2. e.job = j
    OBVIOUS
<1> HIDE DEF P, e
<1>3. /\ posted' \in Seq(P) /\ Len(posted') = Len(posted) + 1
      /\ \A i \in 1 .. Len(posted) : posted'[i] = posted[i]
      /\ posted'[Len(posted) + 1] = e
    BY <1>1, AppendProperties
<1>4. /\ DOMAIN posted = 1 .. Len(posted) /\ Len(posted) \in Nat
      /\ DOMAIN posted' = 1 .. Len(posted')
    BY <1>1, <1>3, LenProperties
<1>5. Posted' = Posted \cup {j}
    BY <1>2, <1>3, <1>4 DEF Posted
<1> QED BY <1>1, <1>3, <1>5 DEF P

(* The history of what was run. *)
LEMMA BeganProps ==
    ASSUME TypeOK, NEW e \in Entry,
           began' = Append(began, [job |-> e.job, due |-> e.due, at |-> now])
    PROVE  /\ began' \in Seq([job : Jobs, due : Times, at : Times])
           /\ DOMAIN began = 1 .. Len(began) /\ Len(began) \in Nat
           /\ DOMAIN began' = 1 .. (Len(began) + 1)
           /\ \A i \in 1 .. Len(began) : began'[i] = began[i]
           /\ began'[Len(began) + 1] = [job |-> e.job, due |-> e.due, at |-> now]
<1> DEFINE P == [job : Jobs, due : Times, at : Times]
           b == [job |-> e.job, due |-> e.due, at |-> now]
<1>1. b \in P /\ began \in Seq(P) /\ began' = Append(began, b)
    BY DEF TypeOK, Entry
<1> HIDE DEF P, b
<1>2. /\ began' \in Seq(P) /\ Len(began') = Len(began) + 1
      /\ \A i \in 1 .. Len(began) : began'[i] = began[i]
      /\ began'[Len(began) + 1] = b
    BY <1>1, AppendProperties
<1>3. /\ DOMAIN began = 1 .. Len(began) /\ Len(began) \in Nat
      /\ DOMAIN began' = 1 .. Len(began')
    BY <1>1, <1>2, LenProperties
<1> QED BY <1>2, <1>3 DEF P, b

-----------------------------------------------------------------------------
(* Types *)

(* A new executor has the types. *)
LEMMA TypeInit == Init => TypeOK
BY BoundsAssumption DEF Init, TypeOK, Times, Threads

(* Every operation and every step of a worker keeps the types. *)
LEMMA TypeStep == TypeOK /\ [Next]_vars => TypeOK'
<1> SUFFICES ASSUME TypeOK, [Next]_vars PROVE TypeOK'
    OBVIOUS
<1> USE BoundsAssumption DEF BoundsAssumption
<1>1. ASSUME NEW j \in Jobs, NEW t, Post(j, t), period' \in [Jobs -> Times] PROVE TypeOK'
    BY <1>1, PostProps, EnqueueProps, NotifiedProps DEF TypeOK, Post
<1>2. ASSUME NEW j \in Jobs, Run(j) PROVE TypeOK'
    BY <1>1, <1>2 DEF Run, TypeOK
<1>3. ASSUME NEW j \in Jobs, Cancel(j) PROVE TypeOK'
    BY <1>3 DEF Cancel, TypeOK
<1>4. ASSUME NEW j \in Jobs, NEW t \in Times, Schedule(j, t) PROVE TypeOK'
    BY <1>1, <1>4 DEF Schedule, TypeOK
<1>5. ASSUME NEW j \in Jobs, NEW d \in 1 .. MaxTime, ScheduleAtFixedRate(j, d) PROVE TypeOK'
    <2>1. d \in Times /\ period' \in [Jobs -> Times]
        BY <1>5 DEF ScheduleAtFixedRate, TypeOK, Times
    <2> QED BY <1>1, <1>5, <2>1 DEF ScheduleAtFixedRate
<1>6. CASE Stop
    <2>1. /\ jobs' \in [Times -> Seq(Entry)] /\ stops' \in 0 .. MaxStops
          /\ pc' \in [Threads -> {"unborn", "loop", "wait", "batch", "exited"}]
        BY <1>6, NotifiedProps DEF Stop, TypeOK
    <2>2. lost' \in SUBSET Jobs
        BY <1>6 DEF Stop, TypeOK, QueuedOnce
    <2> QED BY <1>6, <2>1, <2>2 DEF Stop, TypeOK
<1>7. CASE Start
    BY <1>7 DEF Start, Spawn, TypeOK
<1>8. CASE StartOnWorker
    BY <1>8 DEF StartOnWorker, Spawn, TypeOK
<1>9. CASE Tick
    BY <1>9 DEF Tick, TypeOK, Times
<1>10. ASSUME NEW w \in Threads, Worker(w) PROVE TypeOK'
    <2>1. CASE LoopExit(w)
        BY <2>1 DEF LoopExit, TypeOK
    <2>2. CASE LoopWait(w)
        <3>1. ~ Empty => Earliest \in Times
            BY EarliestIsFirst DEF Empty
        <3>2. Times \subseteq 0 .. (MaxTime + 1) /\ MaxTime + 1 \in 0 .. (MaxTime + 1)
            BY DEF Times
        <3>3. (IF Empty THEN MaxTime + 1 ELSE Earliest) \in 0 .. (MaxTime + 1)
            BY <3>1, <3>2, Zenon
        <3> QED BY <2>2, <3>3 DEF LoopWait, TypeOK
    <2>3. CASE LoopWake(w)
        BY <2>3 DEF LoopWake, TypeOK
    <2>4. CASE LoopTake(w)
        <3>1. Earliest \in Times
            BY <2>4, EarliestIsFirst DEF LoopTake, NothingDue
        <3> QED BY <2>4, <3>1 DEF LoopTake, TypeOK
    <2>5. ASSUME NEW again \in BOOLEAN, LoopRun(w, again) PROVE TypeOK'
        <3> DEFINE e == Head(batch[w])
        <3>1. e \in Entry /\ Tail(batch[w]) \in Seq(Entry) /\ e.job \in Jobs
            BY <2>5, TailProps DEF LoopRun, Entry
        <3>2. batch' = [batch EXCEPT ![w] = Tail(batch[w])]
            BY <2>5 DEF LoopRun
        <3>3. batch' \in [Threads -> Seq(Entry)]
            BY <3>1, <3>2 DEF TypeOK
        <3>4. CASE e.job \in cancelled
            BY <2>5, <3>3, <3>4 DEF LoopRun, TypeOK
        <3>5. CASE e.job \notin cancelled
            <4>1. /\ began' = Append(began, [job |-> e.job, due |-> e.due, at |-> now])
                  /\ rearm' = [rearm EXCEPT ![w] = IF again THEN <<e>> ELSE <<>>]
                  /\ cancelled' = IF period[e.job] > 0 /\ ~ again
                                     THEN cancelled \cup {e.job} ELSE cancelled
                BY <2>5, <3>5 DEF LoopRun
            <4> HIDE DEF e
            <4>2. began' \in Seq([job : Jobs, due : Times, at : Times])
                BY <3>1, <4>1, BeganProps
            <4>3. <<e>> \in Seq(Entry) /\ <<>> \in Seq(Entry)
                BY <3>1
            <4>4. rearm' \in [Threads -> Seq(Entry)]
                BY <4>1, <4>3 DEF TypeOK
            <4>5. cancelled' \in SUBSET Jobs
                BY <3>1, <4>1 DEF TypeOK
            <4> QED BY <2>5, <3>3, <4>2, <4>4, <4>5 DEF LoopRun, TypeOK
        <3> QED BY <3>4, <3>5
    <2>6. CASE Reschedule(w)
        <3> DEFINE e == rearm[w][1]
                   t == e.due + period[e.job]
        <3>1. rearm' = [rearm EXCEPT ![w] = <<>>] /\ e.job \in Jobs
            BY <2>6, RearmProps DEF Reschedule, Entry
        <3>2. IF t \in Times THEN Enqueue(e.job, t) ELSE UNCHANGED <<jobs, pc>>
            BY <2>6 DEF Reschedule
        <3> HIDE DEF e, t
        <3>3. jobs' \in [Times -> Seq(Entry)]
              /\ pc' \in [Threads -> {"unborn", "loop", "wait", "batch", "exited"}]
            BY <3>1, <3>2, EnqueueProps, NotifiedProps DEF TypeOK
        <3>4. rearm' \in [Threads -> Seq(Entry)]
            BY <3>1 DEF TypeOK
        <3> QED BY <2>6, <3>3, <3>4 DEF Reschedule, TypeOK
    <2>7. CASE LoopDone(w)
        BY <2>7 DEF LoopDone, TypeOK
    <2> QED BY <1>10, <2>1, <2>2, <2>3, <2>4, <2>5, <2>6, <2>7 DEF Worker
<1>11. CASE UNCHANGED vars
    BY <1>11 DEF vars, TypeOK
<1> QED BY <1>2, <1>3, <1>4, <1>5, <1>6, <1>7, <1>8, <1>9, <1>10, <1>11 DEF Next, Client

-----------------------------------------------------------------------------
(* Workers and due times *)

(* A new executor has one worker. *)
LEMMA WorkerInit == Init => WorkerInv
BY BoundsAssumption DEF Init, WorkerInv, Threads, BoundsAssumption

(* Only a worker in its loop moves, so those that have left stay out of it; *)
(* start() makes the next thread once the last has left or is detached.     *)
LEMMA WorkerStep == TypeOK /\ WorkerInv /\ [Next]_vars => WorkerInv'
<1> SUFFICES ASSUME TypeOK, WorkerInv, [Next]_vars PROVE WorkerInv'
    OBVIOUS
<1>1. ASSUME UNCHANGED <<thread, detached>>, pc' = pc \/ pc' = Notified(pc) PROVE WorkerInv'
    BY <1>1, NotifiedProps DEF WorkerInv
<1>2. CASE Start \/ StartOnWorker
    <2>1. /\ thread' = thread + 1 /\ thread' \in Threads /\ thread \in Threads
          /\ pc' = [pc EXCEPT ![thread + 1] = "loop"]
          /\ detached \subseteq detached' /\ (thread \in detached' \/ pc[thread] = "exited")
        BY <1>2 DEF Start, StartOnWorker, Spawn, TypeOK
    <2>2. Threads \subseteq Nat
        BY BoundsAssumption DEF Threads, BoundsAssumption
    <2>3. ASSUME NEW w \in Threads, w > thread' PROVE pc'[w] = "unborn"
        BY <2>1, <2>2, <2>3 DEF WorkerInv, TypeOK
    <2>4. ASSUME NEW w \in Threads \ detached', w < thread' PROVE pc'[w] = "exited"
        <3>1. w = thread \/ w < thread
            BY <2>1, <2>2, <2>4
        <3>2. pc'[w] = pc[w]
            BY <2>1, <2>2, <2>4 DEF TypeOK
        <3> QED BY <2>1, <2>4, <3>1, <3>2 DEF WorkerInv
    <2> QED BY <2>3, <2>4 DEF WorkerInv
<1>4. ASSUME NEW w \in Threads, UNCHANGED <<thread, detached>>, NEW s,
             pc[w] \in {"loop", "wait", "batch"}, pc' = [pc EXCEPT ![w] = s]
      PROVE  WorkerInv'
    BY <1>4 DEF WorkerInv, TypeOK
<1>5. CASE Client /\ ~ Start /\ ~ StartOnWorker
    BY <1>1, <1>5
    DEF Client, Run, Schedule, ScheduleAtFixedRate, Post, Enqueue, Cancel, Stop
<1>6. ASSUME NEW w \in Threads, Worker(w) PROVE WorkerInv'
    <2>1. CASE \E again \in BOOLEAN : LoopRun(w, again)
        BY <1>1, <2>1 DEF LoopRun
    <2>2. CASE Reschedule(w)
        BY <1>1, <2>2 DEF Reschedule, Enqueue
    <2>3. CASE LoopExit(w) \/ LoopWait(w) \/ LoopWake(w) \/ LoopTake(w) \/ LoopDone(w)
        BY <1>4, <2>3 DEF LoopExit, LoopWait, LoopWake, LoopTake, LoopDone
    <2> QED BY <1>6, <2>1, <2>2, <2>3 DEF Worker
<1>7. CASE Tick
    BY <1>1, <1>7 DEF Tick
<1>8. CASE UNCHANGED vars
    BY <1>1, <1>8 DEF vars
<1> QED BY <1>2, <1>5, <1>6, <1>7, <1>8 DEF Next

(* Nothing is queued in a new executor, and nothing has run. *)
LEMMA DueInit == Init => DueInv
BY DEF Init, DueInv, NeverEarly

(* An entry goes under its due time, and the vector that a worker takes is  *)
(* the one of a time that has come.                                         *)
LEMMA DueStep == TypeOK /\ DueInv /\ [Next]_vars => DueInv'
<1> SUFFICES ASSUME TypeOK, DueInv, [Next]_vars PROVE DueInv'
    OBVIOUS
<1>1. ASSUME NEW j \in Jobs, NEW t, Enqueue(j, t), UNCHANGED <<batch, now, began>>
      PROVE  DueInv'
    <2>1. /\ t \in Times /\ \A u \in Times \ {t} : jobs'[u] = jobs[u]
          /\ DOMAIN jobs[t] = 1 .. Len(jobs[t]) /\ Len(jobs[t]) \in Nat
          /\ DOMAIN (jobs'[t]) = 1 .. (Len(jobs[t]) + 1)
          /\ \A i \in 1 .. Len(jobs[t]) : jobs'[t][i] = jobs[t][i]
          /\ jobs'[t][Len(jobs[t]) + 1] = [job |-> j, due |-> t]
        BY <1>1, EnqueueProps
    <2>2. ASSUME NEW u \in Times, NEW i \in DOMAIN (jobs'[u]) PROVE jobs'[u][i].due = u
        <3>1. CASE u # t
            BY <2>1, <2>2, <3>1 DEF DueInv
        <3>2. CASE u = t /\ i # Len(jobs[t]) + 1
            <4>1. i \in 1 .. Len(jobs[t])
                BY <2>1, <2>2, <3>2
            <4> QED BY <2>1, <3>2, <4>1 DEF DueInv
        <3>3. CASE u = t /\ i = Len(jobs[t]) + 1
            BY <2>1, <3>3
        <3> QED BY <3>1, <3>2, <3>3
    <2> QED BY <1>1, <2>2 DEF DueInv, NeverEarly
<1>2. ASSUME UNCHANGED <<jobs, batch, began, now>> PROVE DueInv'
    BY <1>2 DEF DueInv, NeverEarly
<1>3. CASE Stop
    BY <1>3 DEF Stop, DueInv, NeverEarly
<1>4. CASE Tick
    <2>1. now' = now + 1 /\ now \in Nat /\ UNCHANGED <<jobs, batch, began>>
        BY <1>4, BoundsAssumption DEF Tick, TypeOK, Times, BoundsAssumption
    <2>2. ASSUME NEW w \in Threads, NEW i \in DOMAIN batch[w] PROVE batch[w][i].due <= now + 1
        <3>1. batch[w][i].due \in Nat
            <4>1. batch[w] \in Seq(Entry)
                BY DEF TypeOK
            <4>2. i \in 1 .. Len(batch[w])
                BY <4>1, LenProperties
            <4>3. batch[w][i] \in Entry
                BY <4>1, <4>2, ElementOfSeq
            <4> QED BY <4>3, BoundsAssumption DEF Entry, Times, BoundsAssumption
        <3> QED BY <2>1, <3>1 DEF DueInv
    <2> QED BY <2>1, <2>2 DEF DueInv, NeverEarly
<1>5. CASE Client /\ ~ Stop
    BY <1>1, <1>2, <1>5
    DEF Client, Run, Schedule, ScheduleAtFixedRate, Post, Cancel, Start, StartOnWorker, Spawn
<1>6. ASSUME NEW w \in Threads, Worker(w) PROVE DueInv'
    <2>1. ASSUME NEW again \in BOOLEAN, LoopRun(w, again) PROVE DueInv'
        <3> DEFINE e == Head(batch[w])
        <3>1. e \in Entry /\ e.due <= now
            <4>1. batch[w] # <<>>
                BY <2>1 DEF LoopRun
            <4>2. e \in Entry /\ e = batch[w][1] /\ 1 \in DOMAIN batch[w]
                BY <4>1, TailProps
            <4> QED BY <4>2 DEF DueInv
        <3>2. batch' = [batch EXCEPT ![w] = Tail(batch[w])] /\ UNCHANGED <<jobs, now>>
            BY <2>1 DEF LoopRun
        <3>3. ASSUME NEW v \in Threads, NEW i \in DOMAIN (batch'[v]) PROVE batch'[v][i].due <= now'
            <4>1. CASE v # w
                BY <3>2, <3>3, <4>1 DEF DueInv, TypeOK
            <4>2. CASE v = w
                <5>1. batch'[w] = Tail(batch[w]) /\ batch[w] # <<>>
                    BY <2>1, <3>2 DEF TypeOK, LoopRun
                <5>2. batch'[w][i] = batch[w][i + 1] /\ i + 1 \in DOMAIN batch[w]
                    BY <3>3, <4>2, <5>1, TailProps
                <5> QED BY <3>2, <4>2, <5>2 DEF DueInv
            <4> QED BY <4>1, <4>2
        <3>4. began' = began \/ began' = Append(began, [job |-> e.job, due |-> e.due, at |-> now])
            BY <2>1 DEF LoopRun
        <3> HIDE DEF e
        <3>5. NeverEarly'
            <4>1. CASE began' = began
                BY <4>1 DEF DueInv, NeverEarly
            <4>2. CASE began' = Append(began, [job |-> e.job, due |-> e.due, at |-> now])
                <5>1. ASSUME NEW i \in DOMAIN began' PROVE began'[i].at >= began'[i].due
                    <6>1. CASE i \in DOMAIN began
                        BY <3>1, <4>2, <6>1, BeganProps DEF DueInv, NeverEarly
                    <6>2. CASE i \notin DOMAIN began
                        <7>1. i = Len(began) + 1
                            BY <3>1, <4>2, <5>1, <6>2, BeganProps
                        <7>2. began'[i].at = now /\ began'[i].due = e.due
                            BY <3>1, <4>2, <7>1, BeganProps
                        <7> QED BY <3>1, <7>2, BoundsAssumption
                                DEF Entry, TypeOK, Times, BoundsAssumption
                    <6> QED BY <6>1, <6>2
                <5> QED BY <5>1 DEF NeverEarly
            <4> QED BY <3>4, <4>1, <4>2
        <3> QED BY <3>2, <3>3, <3>5 DEF DueInv
    <2>2. CASE Reschedule(w)
        <3>1. rearm[w][1] \in Entry
            BY <2>2, RearmProps DEF Reschedule
        <3>2. rearm[w][1].job \in Jobs
            BY <3>1 DEF Entry
        <3> QED BY <1>1, <1>2, <2>2, <3>2 DEF Reschedule
    <2>3. CASE LoopTake(w)
        <3>0. PICK d \in Times : Pending(d) /\ ~ (d > now)
            BY <2>3, Zenon DEF LoopTake, NothingDue
        <3>1. Earliest \in Times /\ Earliest <= now
            <4>1. Earliest \in Times /\ Earliest <= d
                BY <3>0, EarliestIsFirst, Zenon
            <4>2. d \in Nat /\ now \in Nat /\ (Earliest \in Times => Earliest \in Nat)
                BY <3>0, BoundsAssumption DEF TypeOK, Times, BoundsAssumption
            <4> QED BY <3>0, <4>1, <4>2
        <3> DEFINE x == Earliest
        <3>2. /\ batch' = [batch EXCEPT ![w] = jobs[x]] /\ jobs' = [jobs EXCEPT ![x] = <<>>]
              /\ UNCHANGED <<now, began>>
            BY <2>3 DEF LoopTake
        <3> HIDE DEF x
        <3>3. x \in Times /\ x <= now
            BY <3>1 DEF x
        <3>4. \A i \in DOMAIN jobs[x] : jobs[x][i].due <= now
            BY <3>3 DEF DueInv
        <3>5. /\ jobs'[x] = <<>> /\ \A u \in Times \ {x} : jobs'[u] = jobs[u]
              /\ batch'[w] = jobs[x] /\ \A v \in Threads \ {w} : batch'[v] = batch[v]
            BY <3>2, <3>3 DEF TypeOK
        <3>6. \A t \in Times : \A i \in DOMAIN jobs'[t] : jobs'[t][i].due = t
            BY <3>5 DEF DueInv
        <3>7. \A v \in Threads : \A i \in DOMAIN batch'[v] : batch'[v][i].due <= now
            BY <3>4, <3>5 DEF DueInv
        <3> QED BY <3>2, <3>6, <3>7 DEF DueInv, NeverEarly
    <2>4. CASE LoopExit(w) \/ LoopWait(w) \/ LoopWake(w) \/ LoopDone(w)
        BY <1>2, <2>4 DEF LoopExit, LoopWait, LoopWake, LoopDone
    <2> QED BY <1>6, <2>1, <2>2, <2>3, <2>4 DEF Worker
<1>7. CASE UNCHANGED vars
    BY <1>2, <1>7 DEF vars
<1> QED BY <1>3, <1>4, <1>5, <1>6, <1>7 DEF Next

-----------------------------------------------------------------------------
(* Places of a job *)

(* A posting adds its job to the queue and moves no other. *)
LEMMA EnqueuePlaces ==
    ASSUME TypeOK, NEW j \in Jobs, NEW t, Enqueue(j, t), NEW k
    PROVE  /\ InJobs(k)' => InJobs(k) \/ k = j
           /\ JobsOnce(k) /\ (k # j \/ ~ InJobs(k)) => JobsOnce(k)'
<1> DEFINE n == Len(jobs[t])
<1>1. /\ t \in Times /\ \A u \in Times \ {t} : jobs'[u] = jobs[u]
      /\ DOMAIN jobs[t] = 1 .. n /\ n \in Nat
      /\ DOMAIN (jobs'[t]) = 1 .. (n + 1)
      /\ \A i \in 1 .. n : jobs'[t][i] = jobs[t][i]
      /\ jobs'[t][n + 1] = [job |-> j, due |-> t]
    BY EnqueueProps
<1> HIDE DEF n
<1>2. ASSUME NEW u \in Times, NEW i \in DOMAIN (jobs'[u]), jobs'[u][i].job = k
      PROVE  \/ u = t /\ i = n + 1 /\ k = j
             \/ i \in DOMAIN jobs[u] /\ jobs[u][i].job = k
    <2>1. CASE u # t
        BY <1>1, <1>2, <2>1
    <2>2. CASE u = t /\ i = n + 1
        BY <1>1, <1>2, <2>2
    <2>3. CASE u = t /\ i # n + 1
        BY <1>1, <1>2, <2>3
    <2> QED BY <2>1, <2>2, <2>3
<1>3. InJobs(k)' => InJobs(k) \/ k = j
    BY <1>2 DEF InJobs
<1>4. ASSUME JobsOnce(k), k # j \/ ~ InJobs(k),
             NEW u \in Times, NEW v \in Times,
             NEW i \in DOMAIN (jobs'[u]), NEW l \in DOMAIN (jobs'[v]),
             jobs'[u][i].job = k, jobs'[v][l].job = k
      PROVE  u = v /\ i = l
    <2>1. CASE k # j
        BY <1>2, <1>4, <2>1 DEF JobsOnce
    <2>2. CASE k = j /\ ~ InJobs(k)
        BY <1>2, <1>4, <2>2 DEF InJobs
    <2> QED BY <1>4, <2>1, <2>2
<1>5. JobsOnce(k) /\ (k # j \/ ~ InJobs(k)) => JobsOnce(k)'
    BY <1>4 DEF JobsOnce
<1> QED BY <1>3, <1>5

(* A worker that takes a vector moves its jobs from the queue to itself. *)
LEMMA TakePlaces ==
    ASSUME TypeOK, NEW w \in Threads, LoopTake(w), NEW k
    PROVE  /\ InJobs(k)' => InJobs(k)
           /\ InBatch(k)' => InBatch(k) \/ InJobs(k)
           /\ Once(k) => Once(k)'
<1> DEFINE x == Earliest
<1>1. x \in Times
    BY EarliestIsFirst DEF LoopTake, NothingDue
<1>2. /\ batch' = [batch EXCEPT ![w] = jobs[x]] /\ jobs' = [jobs EXCEPT ![x] = <<>>]
      /\ UNCHANGED <<began, lost>>
    BY DEF LoopTake
<1> HIDE DEF x
<1>3. /\ jobs'[x] = <<>> /\ batch'[w] = jobs[x]
      /\ \A u \in Times \ {x} : jobs'[u] = jobs[u]
      /\ \A v \in Threads \ {w} : batch'[v] = batch[v]
    BY <1>1, <1>2 DEF TypeOK
<1>4. ASSUME NEW u \in Times, NEW i \in DOMAIN (jobs'[u])
      PROVE  u # x /\ i \in DOMAIN jobs[u] /\ jobs'[u][i] = jobs[u][i]
    BY <1>3, <1>4
<1>5. InJobs(k)' => \E u \in Times \ {x} : \E i \in DOMAIN jobs[u] : jobs[u][i].job = k
    BY <1>4 DEF InJobs
<1>6. InBatch(k)' => InBatch(k) \/ \E i \in DOMAIN jobs[x] : jobs[x][i].job = k
    BY <1>3 DEF InBatch
<1>7. InBegan(k)' <=> InBegan(k)
    BY <1>2 DEF InBegan
<1>8. InJobs(k)' => InJobs(k)
    BY <1>5 DEF InJobs
<1>9. InBatch(k)' => InBatch(k) \/ InJobs(k)
    BY <1>1, <1>6 DEF InJobs
<1>10. ASSUME Once(k) PROVE Once(k)'
    <2>1. JobsOnce(k)'
        BY <1>4, <1>10 DEF Once, JobsOnce
    <2>2. BeganOnce(k)'
        BY <1>2, <1>10 DEF Once, BeganOnce
    <2>3. InJobs(k)' => ~ InBatch(k)'
        BY <1>1, <1>5, <1>6, <1>8, <1>10 DEF Once, OnePlace, JobsOnce
    <2>4. OnePlace(k)'
        BY <1>2, <1>7, <1>8, <1>9, <1>10, <2>3 DEF Once, OnePlace
    <2>5. ASSUME NEW v \in Threads, NEW y \in Threads,
                 NEW i \in DOMAIN (batch'[v]), NEW l \in DOMAIN (batch'[y]),
                 batch'[v][i].job = k, batch'[y][l].job = k
          PROVE  v = y /\ i = l
        <3>1. CASE v # w /\ y # w
            <4>1. batch'[v] = batch[v] /\ batch'[y] = batch[y]
                BY <1>3, <3>1
            <4> QED BY <1>10, <2>5, <4>1 DEF Once, BatchOnce
        <3>2. CASE v = w /\ y = w
            BY <1>1, <1>3, <1>10, <2>5, <3>2 DEF Once, JobsOnce
        <3>3. CASE (v = w) # (y = w)
            <4>1. InBatch(k) /\ InJobs(k)
                BY <1>1, <1>3, <2>5, <3>3 DEF InBatch, InJobs
            <4> QED BY <1>10, <4>1 DEF Once, OnePlace
        <3> QED BY <3>1, <3>2, <3>3
    <2>6. BatchOnce(k)'
        BY <2>5 DEF BatchOnce
    <2> QED BY <2>1, <2>2, <2>4, <2>6 DEF Once
<1> QED BY <1>8, <1>9, <1>10

(* A worker that runs a job moves it from its vector to the history. *)
LEMMA RunPlaces ==
    ASSUME TypeOK, NEW w \in Threads, NEW again \in BOOLEAN, LoopRun(w, again), NEW k
    PROVE  /\ InBatch(k)' => InBatch(k)
           /\ InBegan(k)' => InBegan(k) \/ InBatch(k)
           /\ Once(k) => Once(k)'
<1> DEFINE e == batch[w][1]
           n == Len(batch[w])
<1>1. /\ Head(batch[w]) = e /\ e \in Entry /\ DOMAIN batch[w] = 1 .. n /\ n \in Nat \ {0}
      /\ DOMAIN Tail(batch[w]) = 1 .. (n - 1)
      /\ \A i \in 1 .. (n - 1) : Tail(batch[w])[i] = batch[w][i + 1]
    BY TailProps DEF LoopRun
<1>2. batch' = [batch EXCEPT ![w] = Tail(batch[w])] /\ UNCHANGED <<jobs, lost>>
    BY DEF LoopRun
<1>3. began' = began \/ began' = Append(began, [job |-> e.job, due |-> e.due, at |-> now])
    BY <1>1 DEF LoopRun
<1>4. batch'[w] = Tail(batch[w]) /\ \A v \in Threads \ {w} : batch'[v] = batch[v]
    BY <1>2 DEF TypeOK
<1> HIDE DEF e, n
<1>5. e = batch[w][1] /\ 1 \in DOMAIN batch[w]
    BY <1>1 DEF e
<1>6. ASSUME NEW v \in Threads, NEW i \in DOMAIN (batch'[v])
      PROVE  \E l \in DOMAIN batch[v] :
                 /\ batch'[v][i] = batch[v][l]
                 /\ v # w => l = i
                 /\ v = w => i \in Nat /\ l = i + 1 /\ l # 1
    <2>1. CASE v # w
        BY <1>4, <1>6, <2>1
    <2>2. CASE v = w
        <3>1. i \in 1 .. (n - 1)
            BY <1>1, <1>4, <1>6, <2>2
        <3>2. i + 1 \in DOMAIN batch[w] /\ batch'[w][i] = batch[w][i + 1] /\ i + 1 # 1 /\ i \in Nat
            BY <1>1, <1>4, <3>1
        <3> QED BY <2>2, <3>2
    <2> QED BY <2>1, <2>2
<1>7. InBatch(k)' => InBatch(k)
    BY <1>6 DEF InBatch
<1>8. InBegan(k)' => InBegan(k) \/ (e.job = k /\ began' # began)
  <2>1. CASE began' = began
    BY <2>1 DEF InBegan
  <2>2. CASE began' = Append(began, [job |-> e.job, due |-> e.due, at |-> now])
    <3>1. /\ DOMAIN began = 1 .. Len(began) /\ Len(began) \in Nat
          /\ DOMAIN began' = 1 .. (Len(began) + 1)
          /\ \A i \in 1 .. Len(began) : began'[i] = began[i]
          /\ began'[Len(began) + 1] = [job |-> e.job, due |-> e.due, at |-> now]
        BY <1>1, <2>2, BeganProps, Zenon
    <3>2. began' # began
        BY <3>1
    <3>3. ASSUME NEW i \in DOMAIN began', began'[i].job = k
          PROVE  InBegan(k) \/ e.job = k
        <4>1. CASE i \in 1 .. Len(began)
            BY <3>1, <3>3, <4>1 DEF InBegan
        <4>2. CASE i = Len(began) + 1
            BY <3>1, <3>3, <4>2
        <4> QED BY <3>1, <4>1, <4>2
    <3> QED BY <3>2, <3>3 DEF InBegan
  <2> QED BY <1>3, <2>1, <2>2
<1>9. e.job = k => InBatch(k)
    BY <1>5 DEF InBatch
<1>10. ASSUME Once(k) PROVE Once(k)'
    <2>1. JobsOnce(k)' /\ (InJobs(k)' <=> InJobs(k))
        BY <1>2, <1>10 DEF Once, JobsOnce, InJobs
    <2>2. BatchOnce(k)'
        <3>1. ASSUME NEW v \in Threads, NEW y \in Threads,
                     NEW i \in DOMAIN (batch'[v]), NEW l \in DOMAIN (batch'[y]),
                     batch'[v][i].job = k, batch'[y][l].job = k
              PROVE  v = y /\ i = l
            <4>1. PICK a \in DOMAIN batch[v] :
                     /\ batch'[v][i] = batch[v][a]
                     /\ v # w => a = i
                     /\ v = w => i \in Nat /\ a = i + 1 /\ a # 1
                BY <1>6, Zenon
            <4>2. PICK b \in DOMAIN batch[y] :
                     /\ batch'[y][l] = batch[y][b]
                     /\ y # w => b = l
                     /\ y = w => l \in Nat /\ b = l + 1 /\ b # 1
                BY <1>6, Zenon
            <4>3. batch[v][a].job = k /\ batch[y][b].job = k
                BY <3>1, <4>1, <4>2
            <4>4. BatchOnce(k)
                BY <1>10 DEF Once
            <4>5. v = y /\ a = b
                BY <4>3, <4>4, Zenon DEF BatchOnce
            <4>6. CASE v # w
                BY <4>1, <4>2, <4>5, <4>6, Zenon
            <4>7. CASE v = w
                <5>1. i \in Nat /\ l \in Nat /\ a = i + 1 /\ a = l + 1
                    BY <4>1, <4>2, <4>5, <4>7, Zenon
                <5>2. i = l
                    BY <5>1
                <5> QED BY <4>5, <5>2
            <4> QED BY <4>6, <4>7
        <3> QED BY <3>1 DEF BatchOnce
    <2>3. e.job = k => ~ InBatch(k)'
        <3>1. ASSUME e.job = k, NEW v \in Threads, NEW i \in DOMAIN (batch'[v]), batch'[v][i].job = k
              PROVE  FALSE
            <4>1. PICK a \in DOMAIN batch[v] : batch'[v][i] = batch[v][a] /\ (v = w => a # 1)
                BY <1>6
            <4>2. BatchOnce(k) /\ batch[v][a].job = k /\ batch[w][1].job = k
                BY <1>5, <1>10, <3>1, <4>1 DEF Once
            <4>3. v = w /\ a = 1
                BY <1>5, <4>2, Zenon DEF BatchOnce
            <4> QED BY <4>1, <4>3
        <3> QED BY <3>1 DEF InBatch
    <2>4. BeganOnce(k)'
        <3>1. CASE began' = began
            BY <1>10, <3>1 DEF Once, BeganOnce
        <3>2. CASE began' = Append(began, [job |-> e.job, due |-> e.due, at |-> now])
            <4>1. /\ DOMAIN began = 1 .. Len(began) /\ Len(began) \in Nat
                  /\ DOMAIN began' = 1 .. (Len(began) + 1)
                  /\ \A i \in 1 .. Len(began) : began'[i] = began[i]
                  /\ began'[Len(began) + 1].job = e.job
                <5>1. /\ DOMAIN began = 1 .. Len(began) /\ Len(began) \in Nat
                      /\ DOMAIN began' = 1 .. (Len(began) + 1)
                      /\ \A i \in 1 .. Len(began) : began'[i] = began[i]
                      /\ began'[Len(began) + 1] = [job |-> e.job, due |-> e.due, at |-> now]
                    BY <1>1, <3>2, BeganProps, Zenon
                <5>2. began'[Len(began) + 1].job = e.job
                    BY <5>1
                <5> QED BY <5>1, <5>2, Zenon
            <4>2. e.job = k => \A i \in DOMAIN began : began[i].job # k
                BY <1>9, <1>10 DEF Once, OnePlace, InBegan
            <4>3. ASSUME NEW i \in DOMAIN began', NEW l \in DOMAIN began',
                         began'[i].job = k, began'[l].job = k
                  PROVE  i = l
                <5>1. CASE i \in DOMAIN began /\ l \in DOMAIN began
                    BY <1>10, <4>1, <4>3, <5>1 DEF Once, BeganOnce
                <5>2. CASE i = Len(began) + 1 \/ l = Len(began) + 1
                    BY <4>1, <4>2, <4>3, <5>2
                <5> QED BY <4>1, <4>3, <5>1, <5>2
            <4> QED BY <4>3 DEF BeganOnce
        <3> QED BY <1>3, <3>1, <3>2
    <2>5. OnePlace(k)'
        BY <1>2, <1>7, <1>8, <1>9, <1>10, <2>1, <2>3 DEF Once, OnePlace
    <2> QED BY <2>1, <2>2, <2>4, <2>5 DEF Once
<1> QED BY <1>7, <1>8, <1>9, <1>10

(* At first no job is in any place. *)
LEMMA PlaceInit == Init => PlaceInv
<1> SUFFICES ASSUME Init PROVE PlaceInv
    OBVIOUS
<1>0. /\ \A t \in Times : DOMAIN jobs[t] = {}
      /\ \A w \in Threads : DOMAIN batch[w] = {}
      /\ DOMAIN began = {} /\ lost = {}
    BY DEF Init
<1>1. \A j \in Jobs : ~ InJobs(j) /\ ~ InBatch(j) /\ ~ InBegan(j) /\ j \notin lost
    BY <1>0 DEF InJobs, InBatch, InBegan
<1>2. \A j \in Jobs : JobsOnce(j) /\ BatchOnce(j) /\ BeganOnce(j)
    BY <1>0 DEF JobsOnce, BatchOnce, BeganOnce
<1>3. RearmInv
    BY DEF Init, RearmInv
<1> QED BY <1>1, <1>2, <1>3 DEF PlaceInv, PostedInv, OnceInv, Once, OnePlace

(* A step that moves no job. *)
LEMMA PlaceFrame ==
    ASSUME PlaceInv, UNCHANGED <<jobs, batch, began, lost, rearm, period, posted>>
    PROVE  PlaceInv'
<1>1. ASSUME NEW k
      PROVE  /\ InJobs(k)' <=> InJobs(k)
             /\ InBatch(k)' <=> InBatch(k)
             /\ InBegan(k)' <=> InBegan(k)
             /\ OneShot(k)' <=> OneShot(k)
             /\ JobsOnce(k)' <=> JobsOnce(k)
             /\ BatchOnce(k)' <=> BatchOnce(k)
             /\ BeganOnce(k)' <=> BeganOnce(k)
  <2>1. (InJobs(k)' <=> InJobs(k)) /\ (JobsOnce(k)' <=> JobsOnce(k))
    BY DEF InJobs, JobsOnce
  <2>2. (InBatch(k)' <=> InBatch(k)) /\ (BatchOnce(k)' <=> BatchOnce(k))
    BY DEF InBatch, BatchOnce
  <2>3. (InBegan(k)' <=> InBegan(k)) /\ (BeganOnce(k)' <=> BeganOnce(k))
    BY DEF InBegan, BeganOnce
  <2>4. OneShot(k)' <=> OneShot(k)
    BY DEF OneShot
  <2> QED BY <2>1, <2>2, <2>3, <2>4
<1>2. Posted' = Posted
    BY DEF Posted
<1>3. PostedInv'
    BY <1>1, <1>2 DEF PlaceInv, PostedInv
<1>4. RearmInv'
    BY <1>1, <1>2 DEF PlaceInv, RearmInv
<1>5. OnceInv'
    BY <1>1 DEF PlaceInv, OnceInv, Once, OnePlace
<1> QED BY <1>3, <1>4, <1>5 DEF PlaceInv

(* A new job is in no place yet, so its posting is its first; a period is   *)
(* given to a job only then.                                                *)
LEMMA PlacePost ==
    ASSUME TypeOK, PlaceInv, NEW j \in Jobs, NEW t, Post(j, t),
           \A k \in Jobs \ {j} : period'[k] = period[k]
    PROVE  PlaceInv'
<1>1. /\ j \notin Posted /\ Posted' = Posted \cup {j} /\ Enqueue(j, t)
      /\ UNCHANGED <<batch, rearm, began, lost>>
    BY PostProps DEF Post
<1>2. ~ InJobs(j) /\ ~ InBatch(j) /\ ~ InBegan(j) /\ j \notin lost
    BY <1>1 DEF PlaceInv, PostedInv
<1>3. ASSUME NEW k \in Jobs
      PROVE  /\ InJobs(k)' => InJobs(k) \/ k = j
             /\ InBatch(k)' <=> InBatch(k)
             /\ InBegan(k)' <=> InBegan(k)
    BY <1>1, EnqueuePlaces DEF InBatch, InBegan
<1>4. PostedInv'
    BY <1>1, <1>3 DEF PlaceInv, PostedInv
<1>5. RearmInv'
    BY <1>1 DEF PlaceInv, RearmInv, OneShot, Entry
<1>6. ASSUME NEW k \in Jobs, OneShot(k)' PROVE Once(k)'
    <2>0. batch' = batch /\ began' = began
        BY <1>1
    <2>1. BatchOnce(k) /\ BeganOnce(k) => (BatchOnce(k) /\ BeganOnce(k))'
        BY <2>0 DEF BatchOnce, BeganOnce
    <2>2. CASE k # j
        <3>1. Once(k)
            BY <1>6, <2>2 DEF PlaceInv, OnceInv, OneShot
        <3>2. JobsOnce(k)'
            BY <1>1, <2>2, <3>1, EnqueuePlaces DEF Once
        <3> QED BY <1>1, <1>3, <2>1, <2>2, <3>1, <3>2 DEF Once, OnePlace
    <2>3. CASE k = j
        <3>1. JobsOnce(k) /\ BatchOnce(k) /\ BeganOnce(k)
            BY <1>2, <2>3 DEF JobsOnce, BatchOnce, BeganOnce, InJobs, InBatch, InBegan
        <3>2. JobsOnce(k)'
            BY <1>1, <1>2, <2>3, <3>1, EnqueuePlaces
        <3> QED BY <1>1, <1>2, <1>3, <2>1, <2>3, <3>1, <3>2 DEF Once, OnePlace
    <2> QED BY <2>2, <2>3
<1>7. OnceInv'
    BY <1>6 DEF OnceInv
<1> QED BY <1>4, <1>5, <1>7 DEF PlaceInv

(* Jobs move from the queue to a worker and from there to the history, and  *)
(* only a job that repeats comes back.                                      *)
LEMMA PlaceStep == TypeOK /\ PlaceInv /\ [Next]_vars => PlaceInv'
<1> SUFFICES ASSUME TypeOK, PlaceInv, [Next]_vars PROVE PlaceInv'
    OBVIOUS
<1>1. ASSUME NEW j \in Jobs, NEW t, Post(j, t), UNCHANGED period PROVE PlaceInv'
    BY <1>1, PlacePost
<1>2. ASSUME NEW j \in Jobs, NEW d \in 1 .. MaxTime, ScheduleAtFixedRate(j, d) PROVE PlaceInv'
    <2>1. \A k \in Jobs \ {j} : period'[k] = period[k]
        BY <1>2 DEF ScheduleAtFixedRate, TypeOK
    <2> QED BY <1>2, <2>1, PlacePost DEF ScheduleAtFixedRate
<1>3. CASE Stop
    <2>1. /\ jobs' = [t \in Times |-> <<>>] /\ lost' = lost \cup QueuedOnce
          /\ UNCHANGED <<batch, rearm, period, posted, began>>
        BY <1>3 DEF Stop
    <2>2. ASSUME NEW k \in QueuedOnce PROVE k \in Jobs /\ InJobs(k)
        <3>1. PICK t \in Times : \E i \in DOMAIN jobs[t] : jobs[t][i] = [job |-> k, due |-> t]
            BY <2>2 DEF QueuedOnce, InSeq
        <3>2. \E i \in DOMAIN jobs[t] : jobs[t][i].job = k
            BY <3>1
        <3> QED BY <2>2, <3>2 DEF QueuedOnce, InJobs
    <2>3. ASSUME NEW k \in Jobs
          PROVE  /\ ~ InJobs(k)' /\ JobsOnce(k)'
                 /\ InBatch(k)' <=> InBatch(k)
                 /\ InBegan(k)' <=> InBegan(k)
                 /\ BatchOnce(k)' <=> BatchOnce(k)
                 /\ BeganOnce(k)' <=> BeganOnce(k)
                 /\ OneShot(k)' <=> OneShot(k)
        <3>1. ~ InJobs(k)' /\ JobsOnce(k)'
            BY <2>1 DEF InJobs, JobsOnce
        <3>2. (InBatch(k)' <=> InBatch(k)) /\ (BatchOnce(k)' <=> BatchOnce(k))
            BY <2>1 DEF InBatch, BatchOnce
        <3>3. (InBegan(k)' <=> InBegan(k)) /\ (BeganOnce(k)' <=> BeganOnce(k))
            BY <2>1 DEF InBegan, BeganOnce
        <3>4. OneShot(k)' <=> OneShot(k)
            BY <2>1 DEF OneShot
        <3> QED BY <3>1, <3>2, <3>3, <3>4
    <2>4. Posted' = Posted
        BY <2>1 DEF Posted
    <2>5. PostedInv'
        BY <2>1, <2>2, <2>3, <2>4 DEF PlaceInv, PostedInv
    <2>6. OnceInv'
        BY <2>1, <2>2, <2>3 DEF PlaceInv, OnceInv, Once, OnePlace
    <2>7. RearmInv'
        BY <2>1, <2>4 DEF PlaceInv, RearmInv, OneShot
    <2> QED BY <2>5, <2>6, <2>7 DEF PlaceInv
<1>4. ASSUME NEW w \in Threads, LoopTake(w) PROVE PlaceInv'
    <2>1. UNCHANGED <<rearm, period, posted, began, lost>>
        BY <1>4 DEF LoopTake
    <2>2. Posted' = Posted /\ \A k \in Jobs : (OneShot(k)' <=> OneShot(k)) /\ (InBegan(k)' <=> InBegan(k))
        BY <2>1 DEF Posted, OneShot, InBegan
    <2>3. PostedInv'
        BY <1>4, <2>1, <2>2, TakePlaces DEF PlaceInv, PostedInv
    <2>4. OnceInv'
        BY <1>4, <2>2, TakePlaces DEF PlaceInv, OnceInv
    <2>5. RearmInv'
        BY <2>1, <2>2 DEF PlaceInv, RearmInv, OneShot
    <2> QED BY <2>3, <2>4, <2>5 DEF PlaceInv
<1>5. ASSUME NEW w \in Threads, NEW again \in BOOLEAN, LoopRun(w, again) PROVE PlaceInv'
    <2>1. UNCHANGED <<jobs, period, posted, lost>>
        BY <1>5 DEF LoopRun
    <2>2. Posted' = Posted /\ \A k \in Jobs : (OneShot(k)' <=> OneShot(k)) /\ (InJobs(k)' <=> InJobs(k))
        BY <2>1 DEF Posted, OneShot, InJobs
    <2>3. PostedInv'
        BY <1>5, <2>1, <2>2, RunPlaces DEF PlaceInv, PostedInv
    <2>4. OnceInv'
        BY <1>5, <2>2, RunPlaces DEF PlaceInv, OnceInv
    <2>5. RearmInv'
        <3> DEFINE e == Head(batch[w])
        <3>1. e \in Entry /\ e = batch[w][1] /\ 1 \in DOMAIN batch[w]
            <4>1. batch[w] # <<>>
                BY <1>5 DEF LoopRun
            <4> QED BY <4>1, TailProps
        <3>2. e.job \in Jobs /\ e.job \in Posted
            BY <3>1 DEF PlaceInv, PostedInv, InBatch, Entry
        <3>3. \/ rearm' = rearm
              \/ rearm' = [rearm EXCEPT ![w] = <<>>]
              \/ rearm' = [rearm EXCEPT ![w] = <<e>>] /\ period[e.job] > 0
            BY <1>5 DEF LoopRun
        <3> HIDE DEF e
        <3>4. \A v \in Threads : \/ rearm'[v] = rearm[v] \/ rearm'[v] = <<>>
                                 \/ rearm'[v] = <<e>> /\ period[e.job] > 0
            BY <3>3 DEF TypeOK
        <3>5. period[e.job] > 0 => ~ OneShot(e.job)
            BY <3>2, BoundsAssumption DEF OneShot, TypeOK, Times, BoundsAssumption
        <3>6. <<e>>[1] = e
            OBVIOUS
        <3> QED BY <2>1, <2>2, <3>1, <3>2, <3>4, <3>5, <3>6 DEF PlaceInv, RearmInv, OneShot
    <2> QED BY <2>3, <2>4, <2>5 DEF PlaceInv
<1>6. ASSUME NEW w \in Threads, Reschedule(w) PROVE PlaceInv'
    <2> DEFINE e == rearm[w][1]
               t == e.due + period[e.job]
    <2>1. e \in Entry /\ e.job \in Jobs /\ e.job \in Posted /\ ~ OneShot(e.job)
        BY <1>6 DEF Reschedule, PlaceInv, RearmInv, Entry
    <2>2. /\ rearm' = [rearm EXCEPT ![w] = <<>>] /\ UNCHANGED <<batch, period, posted, began, lost>>
          /\ Enqueue(e.job, t) \/ UNCHANGED jobs
        BY <1>6 DEF Reschedule
    <2> HIDE DEF e, t
    <2>3. ASSUME NEW k \in Jobs
          PROVE  /\ InJobs(k)' => InJobs(k) \/ k = e.job
                 /\ JobsOnce(k) /\ k # e.job => JobsOnce(k)'
                 /\ InBatch(k)' <=> InBatch(k)
                 /\ InBegan(k)' <=> InBegan(k)
                 /\ BatchOnce(k)' <=> BatchOnce(k)
                 /\ BeganOnce(k)' <=> BeganOnce(k)
                 /\ OneShot(k)' <=> OneShot(k)
        <3>1. InJobs(k)' => InJobs(k) \/ k = e.job
            BY <2>1, <2>2, EnqueuePlaces DEF InJobs
        <3>2. JobsOnce(k) /\ k # e.job => JobsOnce(k)'
            <4>1. CASE Enqueue(e.job, t)
                BY <2>1, <4>1, EnqueuePlaces
            <4>2. CASE UNCHANGED jobs
                BY <4>2 DEF JobsOnce
            <4> QED BY <2>2, <4>1, <4>2
        <3>3. (InBatch(k)' <=> InBatch(k)) /\ (BatchOnce(k)' <=> BatchOnce(k))
            BY <2>2 DEF InBatch, BatchOnce
        <3>4. (InBegan(k)' <=> InBegan(k)) /\ (BeganOnce(k)' <=> BeganOnce(k))
            BY <2>2 DEF InBegan, BeganOnce
        <3>5. OneShot(k)' <=> OneShot(k)
            BY <2>2 DEF OneShot
        <3> QED BY <3>1, <3>2, <3>3, <3>4, <3>5
    <2>4. Posted' = Posted
        BY <2>2 DEF Posted
    <2>5. PostedInv'
        BY <2>1, <2>2, <2>3, <2>4 DEF PlaceInv, PostedInv
    <2>6. OnceInv'
        BY <2>1, <2>2, <2>3 DEF PlaceInv, OnceInv, Once, OnePlace
    <2>7. RearmInv'
        BY <2>2, <2>4 DEF PlaceInv, RearmInv, OneShot, TypeOK
    <2> QED BY <2>5, <2>6, <2>7 DEF PlaceInv
<1>7. CASE UNCHANGED <<jobs, batch, began, lost, rearm, period, posted>>
    BY <1>7, PlaceFrame
<1>8. CASE Client
    BY <1>1, <1>2, <1>3, <1>7, <1>8
    DEF Client, Run, Schedule, Cancel, Start, StartOnWorker, Spawn
<1>9. ASSUME NEW w \in Threads, Worker(w) PROVE PlaceInv'
    BY <1>4, <1>5, <1>6, <1>7, <1>9 DEF Worker, LoopExit, LoopWait, LoopWake, LoopDone
<1> QED BY <1>7, <1>8, <1>9 DEF Next, Tick, vars

-----------------------------------------------------------------------------
(* Theorems *)

(* What the invariant says of the three properties. *)
LEMMA InvImplies == IInv => SingleWorker /\ NeverEarly /\ AtMostOnce
<1> SUFFICES ASSUME IInv PROVE SingleWorker /\ NeverEarly /\ AtMostOnce
    OBVIOUS
<1>1. SingleWorker
    <2>1. \A w \in Threads \ detached : pc[w] \in {"loop", "wait", "batch"} => w = thread
        <3>1. \A w \in Threads : w < thread \/ w = thread \/ w > thread
            BY BoundsAssumption DEF IInv, TypeOK, Threads, BoundsAssumption
        <3> QED BY <3>1 DEF IInv, WorkerInv
    <2> QED BY <2>1 DEF SingleWorker
<1>2. AtMostOnce
    <2> SUFFICES ASSUME NEW i \in DOMAIN began, OneShot(began[i].job)
                 PROVE  /\ began[i].job \notin lost
                        /\ \A k \in DOMAIN began : began[k].job = began[i].job => k = i
        BY DEF AtMostOnce
    <2>1. began[i].job \in Jobs
        <3>1. began \in Seq([job : Jobs, due : Times, at : Times])
            BY DEF IInv, TypeOK
        <3>2. began[i] \in [job : Jobs, due : Times, at : Times]
            BY <3>1, LenProperties, ElementOfSeq
        <3> QED BY <3>2
    <2>2. Once(began[i].job) /\ InBegan(began[i].job)
        BY <2>1 DEF IInv, PlaceInv, OnceInv, InBegan
    <2> QED BY <2>2 DEF Once, BeganOnce, OnePlace
<1> QED BY <1>1, <1>2 DEF IInv, DueInv

(* The invariant is inductive: every operation of a client and every step  *)
(* of a worker keeps it.                                                   *)
THEOREM Inductive == Spec => []IInv
<1>1. Init => IInv
    BY TypeInit, WorkerInit, DueInit, PlaceInit DEF IInv
<1>2. IInv /\ [Next]_vars => IInv'
    BY TypeStep, WorkerStep, DueStep, PlaceStep DEF IInv
<1> QED BY <1>1, <1>2, PTL DEF Spec

(* Type correctness of the queue, its workers and its histories. *)
THEOREM TypeCorrect == Spec => []TypeOK
<1>1. IInv => TypeOK
    BY DEF IInv
<1> QED BY <1>1, Inductive, PTL

(* No job runs before its time, for any number of jobs, delays, restarts    *)
(* and threads (loop()).                                                    *)
THEOREM JobsAreNeverEarly == Spec => []NeverEarly
BY InvImplies, Inductive, PTL

(* What runs "on the main thread" excludes everything else that does, as    *)
(* long as no job has restarted the executor it runs on (start(), stop()).  *)
THEOREM OneThreadDrains == Spec => []SingleWorker
BY InvImplies, Inductive, PTL

(* A one-shot job runs once at most, and never after a stop() that found it *)
(* in the queue.                                                            *)
THEOREM JobsRunOnce == Spec => []AtMostOnce
BY InvImplies, Inductive, PTL
=============================================================================
