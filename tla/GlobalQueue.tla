----------------------------- MODULE GlobalQueue -----------------------------
(***************************************************************************)
(* The global job queue (orchestrator/queue/manager.py and models.py): the *)
(* five Redis keys it keeps and the commands it sends.  The methods of the *)
(* class await one command after the other and hold no lock, so the unit   *)
(* of atomicity is one Redis command: each operator below is the effect of *)
(* one command, and the processes that issue commands (the scheduler, the  *)
(* request handlers) interleave between them.                              *)
(*                                                                         *)
(* Jobs are numbered in the order of their created_at, which is the score  *)
(* of the job_ids set: a greater number is a more recent job.              *)
(***************************************************************************)
EXTENDS Naturals, SequencesExt

CONSTANTS
    NumJobs,      \* how many generation requests the clients may send
    Workers,      \* the VPS workers a job can be assigned to
    NoWorker,     \* assigned_worker_id = None
    MaxRetries,   \* queue.max_retries, copied into every job
    RetryDelay,   \* queue.retry_delay_seconds (0: straight to the ready list)
    SyncLimit,    \* the limit the status sync passes to list_jobs
    Events        \* what may happen around the orchestrator

Jobs == 1 .. NumJobs

NoJob == 0

\* A call on Redis, on the database or on a worker's POST /jobs fails; a
\* worker does not answer a status request; a worker accepts a job without
\* naming it; a job outlives stale_processing_seconds; /health is requested;
\* the process dies.
EventKinds == {"redis", "store", "post", "unreachable", "no_id", "slow",
               "health", "crash"}

ASSUME QueueAssumption ==
    /\ NumJobs \in Nat
    /\ NoWorker \notin Workers
    /\ MaxRetries \in Nat
    /\ RetryDelay \in Nat
    /\ SyncLimit \in Nat
    /\ Events \subseteq EventKinds

VARIABLES
    ready,    \* list <name>:ready, written with the next job to pop first
    delayed,  \* sorted set <name>:delayed
    active,   \* the keys of the hash <name>:active
    jobs,     \* hash <name>:jobs: the stored form of every job
    jobIds    \* sorted set <name>:job_ids

queueVars == <<ready, delayed, active, jobs, jobIds>>

-----------------------------------------------------------------------------
(* The job record: the fields of GlobalJob that the control flow reads.    *)
(* wjob is worker_job_id; the code tests it only for truth before it uses  *)
(* it, so None and "" are both 0.                                          *)

Terminal == {"COMPLETED", "FAILED", "TIMEOUT"}

Waiting == {"QUEUED", "RETRYING"}

JobState == Waiting \cup {"ASSIGNED", "PROCESSING"} \cup Terminal

JobRecord == [state : JobState, retries : Nat,
              worker : Workers \cup {NoWorker}, wjob : Nat]

NewJob == [state |-> "QUEUED", retries |-> 0, worker |-> NoWorker, wjob |-> 0]

\* An id with no entry in the jobs hash.
Absent == [NewJob EXCEPT !.state = "ABSENT"]

-----------------------------------------------------------------------------
(* How a call ends for the process that awaits it: it returns, it raises   *)
(* although the server carried it out (the reply was lost), or it raises   *)
(* and the server never saw it.                                            *)

Outcome(event) == IF event \in Events THEN {"ok", "lost", "refused"} ELSE {"ok"}

Applied(o) == o # "refused"

Raised(o) == o # "ok"

-----------------------------------------------------------------------------
(* The commands.                                                           *)

\* save: HSET jobs.
SaveJob(j, rec, o) ==
    jobs' = IF Applied(o) THEN [jobs EXCEPT ![j] = rec] ELSE jobs

\* LPUSH ready: behind every job that waits already.
PushReady(j, o) ==
    ready' = IF Applied(o) THEN Append(ready, j) ELSE ready

\* Mutation of PopReady: the id is read and not removed.
PopReadyPeek(o) == UNCHANGED ready

\* RPOP ready: the job pushed first.
PopReady(o) ==
    ready' = IF Applied(o) /\ ready # <<>> THEN Tail(ready) ELSE ready

\* ZADD delayed.
AddDelayed(j, o) ==
    delayed' = IF Applied(o) THEN delayed \cup {j} ELSE delayed

\* Mutation of ReleaseDue: the ZREM is forgotten.
ReleaseDueKeeping(due, o) ==
    /\ ready' = IF Applied(o) THEN ready \o due ELSE ready
    /\ UNCHANGED delayed

\* The transaction of release_due_delayed: the jobs that are due, in the
\* order of their due times, leave delayed and enter ready.  Which jobs are
\* due is the clock's choice.
ReleaseDue(due, o) ==
    /\ ready' = IF Applied(o) THEN ready \o due ELSE ready
    /\ delayed' = IF Applied(o) THEN delayed \ Range(due) ELSE delayed

\* HSET active and HDEL active.
AddActive(j, o) == active' = IF Applied(o) THEN active \cup {j} ELSE active

DropActive(ids, o) == active' = IF Applied(o) THEN active \ ids ELSE active

\* ZADD job_ids.
IndexJob(j, o) == jobIds' = IF Applied(o) THEN jobIds \cup {j} ELSE jobIds

\* Mutation of Requeue: without a delay the id is not pushed.
RequeueDelayedOnly(j, delay, o) ==
    /\ IF delay > 0 THEN AddDelayed(j, o) ELSE UNCHANGED delayed
    /\ UNCHANGED ready

\* requeue: to the delayed set if there is a delay, else to the ready list.
Requeue(j, delay, o) ==
    \/ delay > 0 /\ AddDelayed(j, o) /\ UNCHANGED ready
    \/ delay = 0 /\ PushReady(j, o) /\ UNCHANGED delayed

-----------------------------------------------------------------------------
(* list_jobs(limit): the active ids and the limit most recent ids, those   *)
(* in an unfinished state first, then the most recent first, cut at limit. *)

\* Mutation of Recent: the end of ZREVRANGE taken for exclusive.
RecentButOne(limit) ==
    {j \in jobIds : Cardinality({k \in jobIds : k > j}) + 1 < limit}

Recent(limit) ==
    {j \in jobIds : Cardinality({k \in jobIds : k > j}) < limit}

ListedBefore(a, b) ==
    LET unfinished(j) == jobs[j].state \notin Terminal
    IN  \/ unfinished(a) /\ ~unfinished(b)
        \/ unfinished(a) = unfinished(b) /\ a > b

ListJobs(limit) ==
    LET found == {j \in active \cup Recent(limit) : jobs[j] # Absent}
    IN  {j \in found : Cardinality({k \in found : ListedBefore(k, j)}) < limit}

\* cleanup_active: the ids of a listing of active whose job is not ASSIGNED.
StaleActive(ids) == {j \in ids : jobs[j].state # "ASSIGNED"}

-----------------------------------------------------------------------------
(* A ticket is a job id in ready or delayed: the right to be dispatched.   *)

InReady(j) == \E i \in DOMAIN ready : ready[i] = j

Ticketed(j) == InReady(j) \/ j \in delayed

QueueTypeOK ==
    /\ ready \in Seq(Jobs)
    /\ delayed \subseteq Jobs
    /\ active \subseteq Jobs
    /\ jobs \in [Jobs -> JobRecord \cup {Absent}]
    /\ jobIds \subseteq Jobs

QueueInit ==
    /\ ready = <<>>
    /\ delayed = {}
    /\ active = {}
    /\ jobs = [j \in Jobs |-> Absent]
    /\ jobIds = {}

=============================================================================
