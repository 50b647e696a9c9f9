-------------------------- MODULE ScheduledExecutor --------------------------
(***************************************************************************)
(* The job queue of src/src/scheduled_executor.{h,cpp}: a map from due     *)
(* times to vectors of jobs, drained by one thread.  Manager's "main       *)
(* thread" (runOnMainThread, scheduleTask, scheduleTaskIn) is this thread. *)
(*                                                                         *)
(* Every posting operation holds jobLock_, so it is one step.  A worker    *)
(* takes the lock once per batch, and runs the jobs of the batch unlocked, *)
(* one step each: stop(), start(), cancel() and further postings interleave*)
(* with a batch.  The condition variable is explicit: a worker that found  *)
(* nothing due sleeps until a notify_all or until the deadline it computed.*)
(*                                                                         *)
(* Bounds: the clock stops at MaxTime, every job is posted once, stop() is *)
(* called at most MaxStops times.  The job's own code is abstracted to     *)
(* whether it is run; a repeated job says whether it wants another round.  *)
(***************************************************************************)
EXTENDS Naturals, Sequences

CONSTANTS
    Jobs,       \* the callables that may be posted
    MaxTime,    \* bound: last instant of the clock
    MaxStops    \* bound: how often stop() may be called

ASSUME BoundsAssumption == MaxTime \in Nat /\ MaxStops \in Nat

Times == 0 .. MaxTime

(* Thread 1 is the constructor's; every start() makes one more. *)
Threads == 1 .. (MaxStops + 1)

VARIABLES
    jobs,       \* jobs_: due time -> vector of jobs
    running,    \* *running_, shared by every thread the object ever made
    thread,     \* thread_: the thread object the executor owns
    detached,   \* threads that start() detached instead of joining
    pc,         \* each thread: "unborn", "loop", "wait", "batch", "exited"
    deadline,   \* wait_until's argument; MaxTime + 1 for a plain wait
    batch,      \* the local vector `jobs` of loop(), with its key
    rearm,      \* a RepeatedTask that returned true, not yet rescheduled
    period,     \* dt of a RepeatedTask, 0 for a one-shot job
    cancelled,  \* tasks whose cancel() was called
    now,        \* clock::now()
    stops,      \* how often stop() was called
    posted,     \* history: [job, due, at] in the order of posting
    began,      \* history: [job, due, at] in the order of execution
    lost        \* history: one-shot jobs that a stop() found in the queue

vars == <<jobs, running, thread, detached, pc, deadline, batch, rearm, period,
          cancelled, now, stops, posted, began, lost>>

Entry == [job : Jobs, due : Times]

Init ==
    /\ jobs = [t \in Times |-> <<>>]
    /\ running = TRUE
    /\ thread = 1
    /\ detached = {}
    /\ pc = [w \in Threads |-> IF w = 1 THEN "loop" ELSE "unborn"]
    /\ deadline = [w \in Threads |-> 0]
    /\ batch = [w \in Threads |-> <<>>]
    /\ rearm = [w \in Threads |-> <<>>]
    /\ period = [j \in Jobs |-> 0]
    /\ cancelled = {}
    /\ now = 0
    /\ stops = 0
    /\ posted = <<>>
    /\ began = <<>>
    /\ lost = {}

-----------------------------------------------------------------------------
(* The queue. *)

Pending(t) == jobs[t] # <<>>

Empty == \A t \in Times : ~ Pending(t)

NothingDue == \A t \in Times : Pending(t) => t > now

(* jobs_.begin()->first *)
Earliest == CHOOSE t \in Times : Pending(t) /\ \A s \in Times : s < t => ~ Pending(s)

InSeq(x, s) == \E i \in DOMAIN s : s[i] = x

Posted == {posted[i].job : i \in DOMAIN posted}

(* Seeded bug: the notify_all is forgotten. *)
NotifyNobody(p) == p

(* cv_.notify_all *)
Notified(p) == [w \in Threads |-> IF p[w] = "wait" THEN "loop" ELSE p[w]]

(* Seeded bug: the new job goes to the front of its vector. *)
EnqueueFront(j, t) ==
    /\ t \in Times
    /\ jobs' = [jobs EXCEPT ![t] = <<[job |-> j, due |-> t]>> \o @]
    /\ pc' = Notified(pc)

(* jobs_[t].emplace_back; cv_.notify_all, under jobLock_ *)
Enqueue(j, t) ==
    /\ t \in Times
    /\ jobs' = [jobs EXCEPT ![t] = Append(@, [job |-> j, due |-> t])]
    /\ pc' = Notified(pc)

-----------------------------------------------------------------------------
(* The operations of any thread. *)

Post(j, t) ==
    /\ j \notin Posted
    /\ Enqueue(j, t)
    /\ posted' = Append(posted, [job |-> j, due |-> t, at |-> now])
    /\ UNCHANGED <<running, thread, detached, deadline, batch, rearm, cancelled, now,
                   stops, began, lost>>

Run(j) == Post(j, now) /\ UNCHANGED period

(* schedule(job, t), and scheduleIn, which reads the clock before it takes  *)
(* the lock: t may have passed when the entry is made.                      *)
Schedule(j, t) == Post(j, t) /\ UNCHANGED period

ScheduleAtFixedRate(j, d) == Post(j, now) /\ period' = [period EXCEPT ![j] = d]

(* Task::cancel and RepeatedTask::cancel: the queue entry stays. *)
Cancel(j) ==
    /\ j \in Posted \ cancelled
    /\ cancelled' = cancelled \cup {j}
    /\ UNCHANGED <<jobs, running, thread, detached, pc, deadline, batch, rearm, period,
                   now, stops, posted, began, lost>>

QueuedOnce == {j \in Jobs : period[j] = 0 /\ \E t \in Times : InSeq([job |-> j, due |-> t], jobs[t])}

Stop ==
    /\ stops < MaxStops
    /\ stops' = stops + 1
    /\ running' = FALSE
    /\ jobs' = [t \in Times |-> <<>>]
    /\ lost' = lost \cup QueuedOnce
    /\ pc' = Notified(pc)
    /\ UNCHANGED <<thread, detached, deadline, batch, rearm, period, cancelled, now,
                   posted, began>>

(* start() once the old thread is joined or detached *)
Spawn ==
    /\ ~ running
    /\ thread + 1 \in Threads
    /\ running' = TRUE
    /\ thread' = thread + 1
    /\ pc' = [pc EXCEPT ![thread + 1] = "loop"]
    /\ UNCHANGED <<jobs, deadline, batch, rearm, period, cancelled, now, stops,
                   posted, began, lost>>

(* Called by another thread: join() blocks until the worker has left. *)
Start == pc[thread] = "exited" /\ Spawn /\ UNCHANGED detached

(* Called by a job of the worker that is owned: detach(). *)
StartOnWorker ==
    /\ pc[thread] = "batch"
    /\ Spawn
    /\ detached' = detached \cup {thread}

-----------------------------------------------------------------------------
(* The worker: loop() for as long as running_ is set. *)

LoopExit(w) ==
    /\ pc[w] = "loop"
    /\ ~ running
    /\ pc' = [pc EXCEPT ![w] = "exited"]
    /\ UNCHANGED <<jobs, running, thread, detached, deadline, batch, rearm, period,
                   cancelled, now, stops, posted, began, lost>>

LoopWait(w) ==
    /\ pc[w] = "loop"
    /\ running
    /\ NothingDue
    /\ pc' = [pc EXCEPT ![w] = "wait"]
    /\ deadline' = [deadline EXCEPT ![w] = IF Empty THEN MaxTime + 1 ELSE Earliest]
    /\ UNCHANGED <<jobs, running, thread, detached, batch, rearm, period, cancelled, now,
                   stops, posted, began, lost>>

(* wait_until times out *)
LoopWake(w) ==
    /\ pc[w] = "wait"
    /\ deadline[w] <= now
    /\ pc' = [pc EXCEPT ![w] = "loop"]
    /\ UNCHANGED <<jobs, running, thread, detached, deadline, batch, rearm, period,
                   cancelled, now, stops, posted, began, lost>>

LoopTake(w) ==
    /\ pc[w] = "loop"
    /\ running
    /\ ~ NothingDue
    /\ batch' = [batch EXCEPT ![w] = jobs[Earliest]]
    /\ jobs' = [jobs EXCEPT ![Earliest] = <<>>]
    /\ pc' = [pc EXCEPT ![w] = "batch"]
    /\ UNCHANGED <<running, thread, detached, deadline, rearm, period, cancelled, now,
                   stops, posted, began, lost>>

(* One job of the batch.  A cancelled task does nothing.  `again` is what a *)
(* RepeatedTask's function returned; a job that throws is a job that ended. *)
LoopRun(w, again) ==
    /\ pc[w] = "batch"
    /\ batch[w] # <<>> /\ rearm[w] = <<>>
    /\ LET e == Head(batch[w]) IN
        /\ batch' = [batch EXCEPT ![w] = Tail(@)]
        /\ IF e.job \in cancelled
              THEN ~ again /\ UNCHANGED <<began, cancelled, rearm>>
              ELSE /\ began' = Append(began, [job |-> e.job, due |-> e.due, at |-> now])
                   /\ again => period[e.job] > 0
                   /\ rearm' = [rearm EXCEPT ![w] = IF again THEN <<e>> ELSE <<>>]
                   /\ cancelled' = IF period[e.job] > 0 /\ ~ again
                                      THEN cancelled \cup {e.job} ELSE cancelled
    /\ UNCHANGED <<jobs, running, thread, detached, pc, deadline, period, now, stops,
                   posted, lost>>

(* reschedule(task, t + dt, dt); past the clock's bound the entry is beyond *)
(* everything the instance can reach and is left out.                       *)
Reschedule(w) ==
    /\ rearm[w] # <<>>
    /\ rearm' = [rearm EXCEPT ![w] = <<>>]
    /\ LET e == rearm[w][1]
           t == e.due + period[e.job]
       IN  IF t \in Times THEN Enqueue(e.job, t) ELSE UNCHANGED <<jobs, pc>>
    /\ UNCHANGED <<running, thread, detached, deadline, batch, period, cancelled, now,
                   stops, posted, began, lost>>

LoopDone(w) ==
    /\ pc[w] = "batch"
    /\ batch[w] = <<>> /\ rearm[w] = <<>>
    /\ pc' = [pc EXCEPT ![w] = "loop"]
    /\ UNCHANGED <<jobs, running, thread, detached, deadline, batch, rearm, period,
                   cancelled, now, stops, posted, began, lost>>

Tick ==
    /\ now < MaxTime
    /\ now' = now + 1
    /\ UNCHANGED <<jobs, running, thread, detached, pc, deadline, batch, rearm, period,
                   cancelled, stops, posted, began, lost>>

-----------------------------------------------------------------------------

Client ==
    \/ \E j \in Jobs : Run(j) \/ Cancel(j)
    \/ \E j \in Jobs, t \in Times : Schedule(j, t)
    \/ \E j \in Jobs, d \in 1 .. MaxTime : ScheduleAtFixedRate(j, d)
    \/ Stop
    \/ Start
    \/ StartOnWorker

Worker(w) ==
    \/ LoopExit(w)
    \/ LoopWait(w)
    \/ LoopWake(w)
    \/ LoopTake(w)
    \/ \E again \in BOOLEAN : LoopRun(w, again)
    \/ Reschedule(w)
    \/ LoopDone(w)

Next == Client \/ Tick \/ \E w \in Threads : Worker(w)

Spec == Init /\ [][Next]_vars

(* The operating system schedules the worker threads and the clock runs. *)
Fairness == WF_vars(Tick) /\ \A w \in Threads : WF_vars(Worker(w))

FairSpec == Spec /\ Fairness

-----------------------------------------------------------------------------
(* Properties. *)

TypeOK ==
    /\ jobs \in [Times -> Seq(Entry)]
    /\ running \in BOOLEAN
    /\ thread \in Threads /\ detached \in SUBSET Threads
    /\ pc \in [Threads -> {"unborn", "loop", "wait", "batch", "exited"}]
    /\ deadline \in [Threads -> 0 .. (MaxTime + 1)]
    /\ batch \in [Threads -> Seq(Entry)]
    /\ rearm \in [Threads -> Seq(Entry)]
    /\ period \in [Jobs -> Times]
    /\ cancelled \in SUBSET Jobs
    /\ now \in Times
    /\ stops \in 0 .. MaxStops
    /\ posted \in Seq([job : Jobs, due : Times, at : Times])
    /\ began \in Seq([job : Jobs, due : Times, at : Times])
    /\ lost \in SUBSET Jobs

(* A job is never run before the instant it was posted for, whatever mix of *)
(* delays, wake-ups and restarts came before (loop()'s comparison of        *)
(* jobs_.begin()->first with clock::now()).                                 *)
NeverEarly == \A i \in DOMAIN began : began[i].at >= began[i].due

(* One-shot jobs run in the order of their due times, and in posting order  *)
(* when those are equal: nothing overtakes a job that was not posted late.  *)
(* In particular what run() posts (every runOnMainThread closure of the SIP *)
(* thread's callbacks) runs in the order it was posted, across batches,     *)
(* delayed tasks and restarts.                                              *)
PostPos(j) == CHOOSE i \in DOMAIN posted : posted[i].job = j
OneShot(j) == period[j] = 0
RunOrder ==
    detached = {} => \A i, k \in DOMAIN began :
        LET a == PostPos(began[i].job)
            b == PostPos(began[k].job)
        IN  /\ i < k /\ OneShot(began[i].job) /\ OneShot(began[k].job)
            /\ posted[b].due >= posted[b].at
            => posted[a].due < posted[b].due \/ (posted[a].due = posted[b].due /\ a < b)

(* A one-shot job runs at most once, and a job that was still queued when   *)
(* stop() cleared the queue never runs, not even after a later start().     *)
AtMostOnce ==
    \A i \in DOMAIN began : OneShot(began[i].job) =>
        /\ began[i].job \notin lost
        /\ \A k \in DOMAIN began : began[k].job = began[i].job => k = i

(* At most one thread drains the queue: start() joins the thread it         *)
(* replaces ("finish thread before starting new").  This is what makes      *)
(* "on the main thread" mean mutual exclusion.  A worker whose own job       *)
(* called start() goes on beside the new one.                               *)
SingleWorker ==
    \A v, w \in Threads \ detached : pc[v] \in {"loop", "wait", "batch"}
                       /\ pc[w] \in {"loop", "wait", "batch"} => v = w

(* A posted job is not forgotten: while the executor runs, a queued job is  *)
(* run, unless it is cancelled or a stop() intervenes.  No wake-up is lost  *)
(* between loop()'s test and the condition variable, a shorter delay posted *)
(* while the worker sleeps on a longer one wakes it, and a restarted        *)
(* executor serves its queue again.                                         *)
Queued(j) == \E t \in Times : InSeq([job |-> j, due |-> t], jobs[t])
Ran(j) == \E i \in DOMAIN began : began[i].job = j
EventuallyRuns ==
    \A j \in Jobs, k \in 0 .. MaxStops :
        (Queued(j) /\ running /\ stops = k) ~> (Ran(j) \/ j \in cancelled \/ stops > k)
=============================================================================
