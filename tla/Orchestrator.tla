----------------------------- MODULE Orchestrator -----------------------------
(***************************************************************************)
(* The orchestrator process (orchestrator/api/main.py): the scheduler task *)
(* and, on the same event loop, the request handlers that touch the queue. *)
(* enqueue_generation accepts a job: three Redis commands and a database   *)
(* write, awaited one after the other.  /health sweeps the active hash     *)
(* (GlobalQueue.stats, cleanup_active).  Every await lets the others run,  *)
(* so their steps interleave.  The process may die and be started again;   *)
(* Redis, the database and the workers live on.                            *)
(***************************************************************************)
EXTENDS Scheduler

VARIABLES
    enq,       \* where the handler of each generation request is
    sweepAt,   \* where the handler of a /health request is
    sweepIds   \* the active ids it has listed

requestVars == <<enq, sweepAt, sweepIds>>

vars == <<queueVars, schedulerVars, requestVars>>

\* The call a request awaits, or how it ended: answered with the job,
\* answered 503, answered 500, or cut off by the end of the process.
Enqueuing == {"save", "push", "index", "store"}

EnqState == {"none"} \cup Enqueuing \cup {"acked", "rejected", "errored", "died"}

-----------------------------------------------------------------------------
(* enqueue_generation.                                                     *)

\* The next request arrives and its job object is built.
Submit(j) ==
    /\ pc # "down"
    /\ enq[j] = "none"
    /\ \A k \in 1 .. (j - 1) : enq[k] # "none"
    /\ enq' = [enq EXCEPT ![j] = "save"]
    /\ UNCHANGED <<queueVars, schedulerVars, sweepAt, sweepIds>>

\* The request awaits a command of enqueue: next if it returns, 503 if not.
Enqueue(j, at, next, o) ==
    /\ enq[j] = at
    /\ enq' = [enq EXCEPT ![j] = IF Raised(o) THEN "rejected" ELSE next]
    /\ UNCHANGED <<schedulerVars, sweepAt, sweepIds>>

EnqSave(j, o) ==
    /\ Enqueue(j, "save", "push", o)
    /\ SaveJob(j, NewJob, o)
    /\ UNCHANGED <<ready, delayed, active, jobIds>>

EnqPush(j, o) ==
    /\ Enqueue(j, "push", "index", o)
    /\ PushReady(j, o)
    /\ UNCHANGED <<delayed, active, jobs, jobIds>>

EnqIndex(j, o) ==
    /\ Enqueue(j, "index", "store", o)
    /\ IndexJob(j, o)
    /\ UNCHANGED <<ready, delayed, active, jobs>>

\* The database write of the job object the request built.
EnqStore(j, o) ==
    /\ enq[j] = "store"
    /\ enq' = [enq EXCEPT ![j] = IF Raised(o) THEN "errored" ELSE "acked"]
    /\ store' = IF Applied(o) THEN [store EXCEPT ![j] = NewJob.state] ELSE store
    /\ UNCHANGED <<queueVars, localVars, copies, age, sweepAt, sweepIds>>

-----------------------------------------------------------------------------
(* cleanup_active: list the ids, read their jobs, delete the stale ones.   *)

SweepList ==
    /\ "health" \in Events
    /\ pc # "down"
    /\ sweepAt = "idle"
    /\ active # {}
    /\ sweepAt' = "read"
    /\ sweepIds' = active
    /\ UNCHANGED <<queueVars, schedulerVars, enq>>

SweepRead ==
    /\ sweepAt = "read"
    /\ sweepIds' = StaleActive(sweepIds)
    /\ sweepAt' = IF sweepIds' = {} THEN "idle" ELSE "drop"
    /\ UNCHANGED <<queueVars, schedulerVars, enq>>

SweepDrop(o) ==
    /\ sweepAt = "drop"
    /\ DropActive(sweepIds, o)
    /\ sweepAt' = "idle"
    /\ sweepIds' = {}
    /\ UNCHANGED <<ready, delayed, jobs, jobIds, schedulerVars, enq>>

-----------------------------------------------------------------------------
(* The process ends between two calls (a crash, or the shutdown that       *)
(* cancels the scheduler task wherever it awaits) and is started again.    *)

Crash ==
    /\ "crash" \in Events
    /\ pc # "down"
    /\ pc' = "down"
    /\ hand' = NoJob
    /\ job' = Absent
    /\ attempt' = 0
    /\ snap' = EmptySnap
    /\ enq' = [j \in Jobs |-> IF enq[j] \in Enqueuing THEN "died" ELSE enq[j]]
    /\ sweepAt' = "idle"
    /\ sweepIds' = {}
    /\ UNCHANGED <<queueVars, store, copies, age>>

Restart ==
    /\ pc = "down"
    /\ pc' = "sync"
    /\ UNCHANGED <<hand, job, attempt, snap, queueVars, store, copies, age,
                   requestVars>>

-----------------------------------------------------------------------------
Init ==
    /\ QueueInit
    /\ SchedulerInit
    /\ enq = [j \in Jobs |-> "none"]
    /\ sweepAt = "idle"
    /\ sweepIds = {}

EnqueueStep(j) ==
    \/ \E o \in Outcome("redis") : EnqSave(j, o) \/ EnqPush(j, o) \/ EnqIndex(j, o)
    \/ \E o \in Outcome("store") : EnqStore(j, o)

SweepStep == SweepRead \/ \E o \in Outcome("redis") : SweepDrop(o)

Next ==
    \/ (SchedulerStep \/ Environment) /\ UNCHANGED requestVars
    \/ \E j \in Jobs : Submit(j) \/ EnqueueStep(j)
    \/ SweepList \/ SweepStep
    \/ Crash \/ Restart

Spec == Init /\ [][Next]_vars

-----------------------------------------------------------------------------
(* Safety.                                                                 *)

TypeOK ==
    /\ QueueTypeOK
    /\ SchedulerTypeOK
    /\ enq \in [Jobs -> EnqState]
    /\ sweepAt \in {"idle", "read", "drop"}
    /\ sweepIds \subseteq Jobs

\* The scheduler holds job j and may still put its id back into the queue.
Held(j) == hand = j /\ pc \notin {"sync_save", "sync_store", "fail_store"}

\* The request that creates j has not pushed its id yet.
Unpushed(j) == enq[j] \in {"none", "save", "push"}

\* The right to dispatch a job is never duplicated, by no failed command, no
\* crash and no interleaving of scheduler and requests: its id is at most once
\* in ready, and ready, delayed, the scheduler's hand and the request that
\* still has to push it exclude each other.
OneTicket ==
    /\ \A a, b \in DOMAIN ready : ready[a] = ready[b] => a = b
    /\ \A j \in Jobs :
        /\ ~(InReady(j) /\ j \in delayed)
        /\ Held(j) => ~Ticketed(j)
        /\ Unpushed(j) => ~Ticketed(j) /\ hand # j

\* A job that waits for its turn is stored as waiting: what pop_ready loads is
\* never a job in progress or a finished one.  requeue saves before it pushes,
\* and nobody writes the stored job while its id is in the queue.
TicketIsWaiting == \A j \in Jobs : Ticketed(j) => jobs[j].state \in Waiting

\* A finished job stays as it is: no late write of the scheduler, which saves
\* job objects it loaded many awaits before, no request and no restart changes
\* its stored form.
TerminalIsFinal ==
    [][\A j \in Jobs : jobs[j].state \in Terminal => jobs'[j] = jobs[j]]_vars

\* The scheduler records an end only for a reason: COMPLETED is what the very
\* local job the record names reported, FAILED that or a spent retry budget.
VerdictIsJustified ==
    \A j \in Jobs :
        LET reported(end) ==
                /\ jobs[j].wjob \in DOMAIN copies[j]
                /\ copies[j][jobs[j].wjob] = [worker |-> jobs[j].worker, state |-> end]
        IN  /\ jobs[j].state = "COMPLETED" => reported("COMPLETED")
            /\ jobs[j].state = "FAILED" =>
                   reported("FAILED") \/ jobs[j].retries > MaxRetries

\* However replies are lost and whenever the process dies, a job is run at most
\* PostAttempts times per attempt the retry budget allows.
DispatchBudget ==
    \A j \in Jobs : Len(copies[j]) <= PostAttempts * (MaxRetries + 1)

\* The database never shows an end that Redis does not have.
StoreTerminalIsTrue ==
    \A j \in Jobs : store[j] \in Terminal => store[j] = jobs[j].state

\* On a worker that the status sync can ask.
OnWorker(rec) == rec.state = "PROCESSING" /\ rec.worker # NoWorker /\ rec.wjob # 0

\* Job j is in the queue, in the scheduler's hand, on a worker, or finished.
\* Nothing ever finds one that is not.
InSight(j) == Ticketed(j) \/ hand = j \/ OnWorker(jobs[j]) \/ jobs[j].state \in Terminal

\* While nothing but workers fails, a job whose id is indexed is never out of
\* everyone's sight.
Accounted == \A j \in jobIds : InSight(j)

\* The calls made with a job in hand whose exception is caught by _loop alone:
\* those of pop_ready and requeue, of _dispatch before its try and in its except.
OutsideTry ==
    {"get", "wait_save", "wait_push", "mark_active", "mark_save", "mark_store",
     "fail_hdel", "fail_save", "requeue_save", "requeue_push", "failed_save"}

CallRaises ==
    \/ \E o \in Outcome("redis") \ {"ok"} : RedisStep(o)
    \/ \E o \in Outcome("store") \ {"ok"} : StoreStep(o)

\* Whatever fails, a job gets out of sight in four ways only: RPOP takes its id
\* and the reply is lost; the process dies while it holds the job; one of the calls
\* outside the try raises; or the worker has accepted it without naming its local
\* job.  An exception within the try, of the sync or of a request handler, a worker
\* that refuses or is silent, and the sweep of active entries lose none.
LossIsNamed ==
    [][\A j \in Jobs : InSight(j) /\ ~InSight(j)' =>
          \/ (\E o \in Outcome("redis") \ {"ok"} : Pop(o)) /\ ready # <<>> /\ j = Head(ready)
          \/ Crash /\ Held(j)
          \/ CallRaises /\ hand = j /\ pc \in OutsideTry
          \/ OkStore("ok") /\ hand = j /\ job.wjob = 0]_vars

\* The stored jobs follow the life cycle of JobLifecycle.
Lifecycle == INSTANCE JobLifecycle WITH
    state <- [j \in Jobs |-> jobs[j].state],
    retries <- [j \in Jobs |-> jobs[j].retries]

FollowsLifecycle == Lifecycle!Spec

-----------------------------------------------------------------------------
(* The inductive invariant behind the safety properties: what the label    *)
(* the scheduler stands at says about its locals and about the stored form *)
(* of the job in its hand.                                                 *)

InAttempt == {"ASSIGNED", "PROCESSING"}

LocalsOK ==
    /\ hand \in IF pc \in IdleLabel THEN {NoJob} ELSE Jobs
    /\ job \in IF pc \in IdleLabel \cup GetLabel THEN {Absent} ELSE JobRecord
    /\ pc = "post" => attempt > 0
    /\ pc \notin SyncLabel \cup {"probe"} => DOMAIN snap = {}

\* Where the stored job is still the waiting one that was popped, where its
\* assignment is stored, where the end of the attempt is not yet stored.
StoredOK ==
    /\ pc \in {"get", "select", "wait_save", "wait_push", "mark_active", "mark_save",
               "requeue_push"} => jobs[hand].state \in Waiting
    /\ pc \in {"mark_store", "post", "ok_hdel", "ok_save", "ok_store", "fail_hdel",
               "fail_save", "requeue_save", "failed_save"} => jobs[hand].state \in InAttempt
    /\ pc = "sync_save" => jobs[hand].state = "PROCESSING"

JobStateOK ==
    /\ pc = "wait_save" \/ pc = "requeue_save" => job.state = "RETRYING"
    /\ pc \in {"mark_active", "mark_save", "mark_store", "post"} =>
           job.state = "ASSIGNED" /\ job.worker # NoWorker
    /\ pc \in {"ok_hdel", "ok_save", "ok_store"} => job.state = "PROCESSING"
    /\ pc \in {"fail_hdel", "fail_save"} => job.state \in InAttempt

SnapshotCurrent ==
    \A j \in DOMAIN snap : jobs[j] = snap[j] /\ snap[j].state = "PROCESSING" /\ hand # j

RequestsOK ==
    \A j \in Jobs :
        /\ enq[j] \in {"none", "save"} => jobs[j] = Absent
        /\ enq[j] = "push" => jobs[j].state \in Waiting

Consistent ==
    /\ LocalsOK /\ StoredOK /\ JobStateOK /\ SnapshotCurrent /\ RequestsOK
    /\ OneTicket /\ TicketIsWaiting

-----------------------------------------------------------------------------
(* Liveness.  The process runs its coroutines, workers end their jobs and  *)
(* time passes (weak fairness).  Strong fairness on three choices that     *)
(* come back for ever: a sync is due now and then, a delayed job falls due *)
(* at last, and a worker is free now and then when the scheduler looks.    *)

Fairness ==
    /\ WF_vars(SchedulerStep /\ UNCHANGED requestVars)
    /\ SF_vars(SyncList /\ UNCHANGED requestVars)
    /\ SF_vars((\E w \in Workers : SelectWorker(w)) /\ UNCHANGED requestVars)
    /\ \A j \in Jobs :
        /\ SF_vars(Release("ok") /\ j \in delayed \ delayed' /\ UNCHANGED requestVars)
        /\ WF_vars(TimePasses(j) /\ UNCHANGED requestVars)
        /\ WF_vars(EnqueueStep(j))
        /\ WF_vars((\E n \in DOMAIN copies[j] : CopyEnds(j, n)) /\ UNCHANGED requestVars)

LiveSpec == Spec /\ Fairness

\* An acknowledged job ends, whatever the workers do to it.
AckedEnds == \A j \in Jobs : enq[j] = "acked" ~> jobs[j].state \in Terminal

-----------------------------------------------------------------------------
(* What the documentation and the messages of the code say, and the code   *)
(* does not do.                                                            *)

\* "the job stays in the global Redis queue and is retried until capacity
\* opens" (README.md): an accepted job that no worker was asked to run is in
\* the queue, or in the hand of the scheduler that puts it back.
WaitingStaysQueued ==
    \A j \in Jobs :
        enq[j] = "acked" /\ jobs[j].state \in Waiting => Ticketed(j) \/ hand = j

\* "global queue unavailable" (main.py): the client of a request answered 503
\* is told that the queue did not take the job.
RejectedNeverRuns == \A j \in Jobs : enq[j] = "rejected" => copies[j] = <<>>

\* "MongoDB state store" (README.md): once the handler and the scheduler are
\* done with a finished job, the database shows how it ended.
StoreCatchesUp ==
    \A j \in Jobs :
        enq[j] = "acked" /\ hand # j /\ jobs[j].state \in Terminal
            => store[j] = jobs[j].state

\* "Stale processing job timed out" (service.py): a job that is given up has
\* been in processing for stale_processing_seconds.
TimeoutMeansStale == [][\A j \in Jobs : ProbeTimeout(j) => age[j] = "stale"]_vars

=============================================================================
