------------------------------ MODULE Scheduler ------------------------------
(***************************************************************************)
(* The scheduler task (orchestrator/scheduler/service.py): one coroutine   *)
(* that in turn syncs the PROCESSING jobs with the workers, pops one job   *)
(* from the queue and dispatches it.  An action is the code from one await *)
(* to the next, so every call on Redis, on the database or on a worker is  *)
(* an action of its own, and the label in pc names the call the task       *)
(* awaits.  hand and job are its local variables: the job object it works  *)
(* on, which may differ from the stored form.                              *)
(*                                                                         *)
(* The workers are external.  A worker is known here by the local jobs it  *)
(* has created for a global job (copies), which only it can end.           *)
(***************************************************************************)
EXTENDS GlobalQueue

CONSTANT PostAttempts   \* WorkerClient._retries

ASSUME SchedulerAssumption == PostAttempts \in Nat \ {0}

VARIABLES
    pc,       \* the call the scheduler task awaits
    hand,     \* the id of the job it holds, NoJob between jobs
    job,      \* its job object, Absent while none is loaded
    attempt,  \* the running attempt of _request_with_retries, 0 outside it
    snap,     \* jobs of the running sync that are still to be asked about
    store,    \* state column of the jobs collection in the database
    copies,   \* local jobs on the workers for each global job, oldest first
    age       \* how a job's clocks compare with stale_processing_seconds

localVars == <<pc, hand, job, attempt, snap>>

schedulerVars == <<localVars, store, copies, age>>

\* "fresh": created less than the limit ago.  "old": created longer ago than
\* the limit.  "stale": the current assignment, too, is older than the limit.
Age == {"fresh", "old", "stale"}

Copy == [worker : Workers, state : {"RUNNING"} \cup Terminal]

EmptySnap == [j \in {} |-> Absent]

\* Where the task holds no job: at the top of the loop, between the calls of
\* a sync, before a job id is popped, and when the process does not run.
IdleLabel == {"sync", "probe", "release", "rpop", "down"}

\* Where it holds an id whose job is not loaded yet.
GetLabel == {"get"}

\* Where it holds a job and no worker has been asked to run it.
BeforePost == {"select", "wait_save", "wait_push",
               "mark_active", "mark_save", "mark_store"}

\* Where a request to run the job has been sent, until the next loop.
AfterPost == {"post", "ok_hdel", "ok_save", "ok_store", "fail_hdel", "fail_save",
              "requeue_save", "requeue_push", "failed_save", "fail_store"}

\* Where it records what a worker reported.
SyncLabel == {"sync_save", "sync_store"}

Label == IdleLabel \cup GetLabel \cup BeforePost \cup AfterPost \cup SyncLabel

-----------------------------------------------------------------------------
(* Moves of the task that several actions share.                           *)

\* Await the next call with job object rec.
Await(label, rec) ==
    /\ pc' = label
    /\ job' = rec
    /\ UNCHANGED <<hand, attempt, snap>>

\* Go to the top of the loop: the locals are dropped.  This is also what an
\* exception that reaches _loop does.
LoopTop ==
    /\ pc' = "sync"
    /\ hand' = NoJob
    /\ job' = Absent
    /\ attempt' = 0
    /\ snap' = EmptySnap

\* Mutation of DispatchFailed: the attempt is not counted.
DispatchFailedUncounted ==
    /\ pc' = "fail_hdel"
    /\ attempt' = 0
    /\ UNCHANGED <<hand, job, snap>>

\* The except branch of _dispatch.
DispatchFailed ==
    /\ pc' = "fail_hdel"
    /\ job' = [job EXCEPT !.retries = @ + 1]
    /\ attempt' = 0
    /\ UNCHANGED <<hand, snap>>

\* save_job of the database layer.
SaveStore(o) ==
    store' = IF Applied(o) THEN [store EXCEPT ![hand] = job.state] ELSE store

-----------------------------------------------------------------------------
(* _sync_processing_jobs_if_due.                                           *)

\* Mutation of SyncSet: jobs in any state are asked about.
SyncSetAnyState == {j \in ListJobs(SyncLimit) : jobs[j].worker # NoWorker /\ jobs[j].wjob # 0}

\* The jobs a sync asks the workers about.
SyncSet == {j \in ListJobs(SyncLimit) :
                /\ jobs[j].state = "PROCESSING"
                /\ jobs[j].worker # NoWorker
                /\ jobs[j].wjob # 0}

\* Not due yet.
SyncSkip ==
    /\ pc = "sync"
    /\ Await("release", job)
    /\ UNCHANGED <<queueVars, store, copies, age>>

\* Due: the job objects are read once and used until the sync ends.
SyncList ==
    /\ pc = "sync"
    /\ pc' = "probe"
    /\ snap' = [j \in SyncSet |-> jobs[j]]
    /\ UNCHANGED <<hand, job, attempt, queueVars, store, copies, age>>

\* What the worker answers about a local job: its state, or nothing usable
\* (no such job there, worker gone, no state in the reply).
Report(j, rec) ==
    IF /\ rec.wjob \in DOMAIN copies[j]
       /\ copies[j][rec.wjob].worker = rec.worker
    THEN copies[j][rec.wjob].state
    ELSE "UNKNOWN"

\* The worker reports the end of the local job.
ProbeEnded(j) ==
    /\ pc = "probe"
    /\ j \in DOMAIN snap
    /\ Report(j, snap[j]) \in Terminal
    /\ pc' = "sync_save"
    /\ hand' = j
    /\ job' = [snap[j] EXCEPT !.state = Report(j, snap[j])]
    /\ snap' = [k \in DOMAIN snap \ {j} |-> snap[k]]
    /\ UNCHANGED <<attempt, queueVars, store, copies, age>>

\* No end is reported: the worker cannot be reached, does not know the local
\* job, or reports it unfinished.
Unfinished(j) ==
    /\ pc = "probe"
    /\ j \in DOMAIN snap
    /\ "unreachable" \in Events \/ Report(j, snap[j]) \notin Terminal

\* ... and the job is too young to give up: _timeout_stale_processing_job
\* returns without effect.
ProbeKeep(j) ==
    /\ Unfinished(j)
    /\ age[j] = "fresh"
    /\ snap' = [k \in DOMAIN snap \ {j} |-> snap[k]]
    /\ UNCHANGED <<pc, hand, job, attempt, queueVars, store, copies, age>>

\* ... and it was created too long ago.
ProbeTimeout(j) ==
    /\ Unfinished(j)
    /\ age[j] # "fresh"
    /\ pc' = "sync_save"
    /\ hand' = j
    /\ job' = [snap[j] EXCEPT !.state = "TIMEOUT"]
    /\ snap' = [k \in DOMAIN snap \ {j} |-> snap[k]]
    /\ UNCHANGED <<attempt, queueVars, store, copies, age>>

\* Mutation of SyncSave: an exception of the save is swallowed.
SyncSaveSwallow(o) ==
    /\ pc = "sync_save"
    /\ SaveJob(hand, job, o)
    /\ Await("sync_store", job)
    /\ UNCHANGED <<ready, delayed, active, jobIds, store, copies, age>>

SyncSave(o) ==
    /\ pc = "sync_save"
    /\ SaveJob(hand, job, o)
    /\ IF Raised(o) THEN LoopTop ELSE Await("sync_store", job)
    /\ UNCHANGED <<ready, delayed, active, jobIds, store, copies, age>>

SyncStore(o) ==
    /\ pc = "sync_store"
    /\ SaveStore(o)
    /\ \/ Raised(o) /\ LoopTop
       \/ /\ ~Raised(o)
          /\ pc' = "probe"
          /\ hand' = NoJob
          /\ job' = Absent
          /\ UNCHANGED <<attempt, snap>>
    /\ UNCHANGED <<queueVars, copies, age>>

SyncDone ==
    /\ pc = "probe"
    /\ DOMAIN snap = {}
    /\ Await("release", job)
    /\ UNCHANGED <<queueVars, store, copies, age>>

-----------------------------------------------------------------------------
(* pop_ready and select_worker.                                            *)

Release(o) ==
    /\ pc = "release"
    /\ \E due \in SetToAllKPermutations(delayed) : ReleaseDue(due, o)
    /\ IF Raised(o) THEN LoopTop ELSE Await("rpop", job)
    /\ UNCHANGED <<active, jobs, jobIds, store, copies, age>>

Pop(o) ==
    /\ pc = "rpop"
    /\ PopReady(o)
    /\ \/ /\ Raised(o) \/ ready = <<>>
          /\ LoopTop
       \/ /\ ~Raised(o) /\ ready # <<>>
          /\ pc' = "get"
          /\ hand' = Head(ready)
          /\ UNCHANGED <<job, attempt, snap>>
    /\ UNCHANGED <<delayed, active, jobs, jobIds, store, copies, age>>

\* Load the job.  An id without an entry counts as an empty queue.
Get(o) ==
    /\ pc = "get"
    /\ IF Raised(o) \/ jobs[hand] = Absent
       THEN LoopTop
       ELSE Await("select", jobs[hand])
    /\ UNCHANGED <<queueVars, store, copies, age>>

\* Mutation of SelectNone: the job is not put back.
SelectNoneDrop ==
    /\ pc = "select"
    /\ LoopTop
    /\ UNCHANGED <<queueVars, store, copies, age>>

\* No worker has capacity: requeue(job, 3).
SelectNone ==
    /\ pc = "select"
    /\ Await("wait_save", [job EXCEPT !.state = "RETRYING"])
    /\ UNCHANGED <<queueVars, store, copies, age>>

WaitSave(o) ==
    /\ pc = "wait_save"
    /\ SaveJob(hand, job, o)
    /\ IF Raised(o) THEN LoopTop ELSE Await("wait_push", job)
    /\ UNCHANGED <<ready, delayed, active, jobIds, store, copies, age>>

WaitPush(o) ==
    /\ pc = "wait_push"
    /\ Requeue(hand, 3, o)
    /\ LoopTop
    /\ UNCHANGED <<active, jobs, jobIds, store, copies, age>>

\* A worker has capacity: _dispatch stamps the assignment, and mark_active
\* sets the state before its first command.
SelectWorker(w) ==
    /\ pc = "select"
    /\ Await("mark_active", [job EXCEPT !.worker = w, !.state = "ASSIGNED"])
    /\ age' = [age EXCEPT ![hand] = IF @ = "stale" THEN "old" ELSE @]
    /\ UNCHANGED <<queueVars, store, copies>>

-----------------------------------------------------------------------------
(* _dispatch: the two writes before the request.  They stand outside its   *)
(* try, so an exception ends the handling of the job.                      *)

MarkActive(o) ==
    /\ pc = "mark_active"
    /\ AddActive(hand, o)
    /\ IF Raised(o) THEN LoopTop ELSE Await("mark_save", job)
    /\ UNCHANGED <<ready, delayed, jobs, jobIds, store, copies, age>>

MarkSave(o) ==
    /\ pc = "mark_save"
    /\ SaveJob(hand, job, o)
    /\ IF Raised(o) THEN LoopTop ELSE Await("mark_store", job)
    /\ UNCHANGED <<ready, delayed, active, jobIds, store, copies, age>>

MarkStore(o) ==
    /\ pc = "mark_store"
    /\ SaveStore(o)
    /\ \/ Raised(o) /\ LoopTop
       \/ /\ ~Raised(o)
          /\ pc' = "post"
          /\ attempt' = 1
          /\ UNCHANGED <<hand, job, snap>>
    /\ UNCHANGED <<queueVars, copies, age>>

-----------------------------------------------------------------------------
(* The request itself: POST /jobs with retries on connection errors and    *)
(* read timeouts, under wait_for.                                          *)

\* The worker creates a local job for the one in hand.
WorkerTakes ==
    copies' = [copies EXCEPT ![hand] =
                  Append(@, [worker |-> job.worker, state |-> "RUNNING"])]

\* What a failed request left behind: a local job if only the reply is lost.
WorkerMayTake == WorkerTakes \/ UNCHANGED copies

\* A reply with the local job's id, or with none.
PostAccepted ==
    /\ pc = "post"
    /\ WorkerTakes
    /\ pc' = "ok_hdel"
    /\ \E id \in {Len(copies[hand]) + 1} \cup (IF "no_id" \in Events THEN {0} ELSE {}) :
          job' = [job EXCEPT !.wjob = id, !.state = "PROCESSING"]
    /\ attempt' = 0
    /\ UNCHANGED <<hand, snap, queueVars, store, age>>

\* Mutation of PostRetried: attempts are not limited.
PostRetriedForever ==
    /\ pc = "post"
    /\ "post" \in Events
    /\ WorkerMayTake
    /\ attempt' = attempt + 1
    /\ UNCHANGED <<pc, hand, job, snap, queueVars, store, age>>

\* A connection error or a read timeout, and attempts are left.
PostRetried ==
    /\ pc = "post"
    /\ "post" \in Events
    /\ attempt < PostAttempts
    /\ WorkerMayTake
    /\ attempt' = attempt + 1
    /\ UNCHANGED <<pc, hand, job, snap, queueVars, store, age>>

\* The last attempt failed, or an error that is not retried: an error status,
\* an unreadable reply, wait_for's timeout.
PostFailed ==
    /\ pc = "post"
    /\ "post" \in Events
    /\ WorkerMayTake
    /\ DispatchFailed
    /\ UNCHANGED <<queueVars, store, age>>

-----------------------------------------------------------------------------
(* The rest of the try: remove_active and save_job.                        *)

OkHdel(o) ==
    /\ pc = "ok_hdel"
    /\ DropActive({hand}, o)
    /\ IF Raised(o) THEN DispatchFailed ELSE Await("ok_save", job)
    /\ UNCHANGED <<ready, delayed, jobs, jobIds, store, copies, age>>

\* Mutation of OkSave: the save stands behind the try.
OkSaveUncaught(o) ==
    /\ pc = "ok_save"
    /\ SaveJob(hand, job, o)
    /\ IF Raised(o) THEN LoopTop ELSE Await("ok_store", job)
    /\ UNCHANGED <<ready, delayed, active, jobIds, store, copies, age>>

OkSave(o) ==
    /\ pc = "ok_save"
    /\ SaveJob(hand, job, o)
    /\ IF Raised(o) THEN DispatchFailed ELSE Await("ok_store", job)
    /\ UNCHANGED <<ready, delayed, active, jobIds, store, copies, age>>

OkStore(o) ==
    /\ pc = "ok_store"
    /\ SaveStore(o)
    /\ IF Raised(o) THEN DispatchFailed ELSE LoopTop
    /\ UNCHANGED <<queueVars, copies, age>>

-----------------------------------------------------------------------------
(* The except branch: remove_active, then requeue or give up, then         *)
(* save_job.                                                               *)

FailHdel(o) ==
    /\ pc = "fail_hdel"
    /\ DropActive({hand}, o)
    /\ IF Raised(o) THEN LoopTop ELSE Await("fail_save", job)
    /\ UNCHANGED <<ready, delayed, jobs, jobIds, store, copies, age>>

\* Mutations of FailSave: one retry too few, one too many, and a job put back
\* in the state of the failed attempt.
FailSaveEarly(o) ==
    /\ pc = "fail_save"
    /\ SaveJob(hand, job, o)
    /\ \/ Raised(o) /\ LoopTop
       \/ /\ ~Raised(o) /\ job.retries < MaxRetries
          /\ Await("requeue_save", [job EXCEPT !.state = "RETRYING"])
       \/ /\ ~Raised(o) /\ job.retries >= MaxRetries
          /\ Await("failed_save", [job EXCEPT !.state = "FAILED"])
    /\ UNCHANGED <<ready, delayed, active, jobIds, store, copies, age>>

FailSaveLate(o) ==
    /\ pc = "fail_save"
    /\ SaveJob(hand, job, o)
    /\ \/ Raised(o) /\ LoopTop
       \/ /\ ~Raised(o) /\ job.retries <= MaxRetries + 1
          /\ Await("requeue_save", [job EXCEPT !.state = "RETRYING"])
       \/ /\ ~Raised(o) /\ job.retries > MaxRetries + 1
          /\ Await("failed_save", [job EXCEPT !.state = "FAILED"])
    /\ UNCHANGED <<ready, delayed, active, jobIds, store, copies, age>>

FailSaveStale(o) ==
    /\ pc = "fail_save"
    /\ SaveJob(hand, job, o)
    /\ \/ Raised(o) /\ LoopTop
       \/ /\ ~Raised(o) /\ job.retries <= MaxRetries
          /\ Await("requeue_save", job)
       \/ /\ ~Raised(o) /\ job.retries > MaxRetries
          /\ Await("failed_save", [job EXCEPT !.state = "FAILED"])
    /\ UNCHANGED <<ready, delayed, active, jobIds, store, copies, age>>

FailSave(o) ==
    /\ pc = "fail_save"
    /\ SaveJob(hand, job, o)
    /\ \/ Raised(o) /\ LoopTop
       \/ /\ ~Raised(o) /\ job.retries <= MaxRetries
          /\ Await("requeue_save", [job EXCEPT !.state = "RETRYING"])
       \/ /\ ~Raised(o) /\ job.retries > MaxRetries
          /\ Await("failed_save", [job EXCEPT !.state = "FAILED"])
    /\ UNCHANGED <<ready, delayed, active, jobIds, store, copies, age>>

RequeueSave(o) ==
    /\ pc = "requeue_save"
    /\ SaveJob(hand, job, o)
    /\ IF Raised(o) THEN LoopTop ELSE Await("requeue_push", job)
    /\ UNCHANGED <<ready, delayed, active, jobIds, store, copies, age>>

RequeuePush(o) ==
    /\ pc = "requeue_push"
    /\ Requeue(hand, RetryDelay, o)
    /\ IF Raised(o) THEN LoopTop ELSE Await("fail_store", job)
    /\ UNCHANGED <<active, jobs, jobIds, store, copies, age>>

FailedSave(o) ==
    /\ pc = "failed_save"
    /\ SaveJob(hand, job, o)
    /\ IF Raised(o) THEN LoopTop ELSE Await("fail_store", job)
    /\ UNCHANGED <<ready, delayed, active, jobIds, store, copies, age>>

FailStore(o) ==
    /\ pc = "fail_store"
    /\ SaveStore(o)
    /\ LoopTop
    /\ UNCHANGED <<queueVars, copies, age>>

-----------------------------------------------------------------------------
(* The environment: the workers and the clock.                             *)

CopyEnds(j, n) ==
    /\ n \in DOMAIN copies[j]
    /\ copies[j][n].state = "RUNNING"
    /\ \E end \in Terminal : copies' = [copies EXCEPT ![j][n].state = end]
    /\ UNCHANGED <<localVars, queueVars, store, age>>

TimePasses(j) ==
    /\ "slow" \in Events
    /\ \/ jobs[j] # Absent /\ age[j] = "fresh" /\ age' = [age EXCEPT ![j] = "old"]
       \/ /\ jobs[j].worker # NoWorker /\ age[j] = "old"
          /\ age' = [age EXCEPT ![j] = "stale"]
    /\ UNCHANGED <<localVars, queueVars, store, copies>>

-----------------------------------------------------------------------------
RedisStep(o) ==
    \/ SyncSave(o) \/ Release(o) \/ Pop(o) \/ Get(o) \/ WaitSave(o) \/ WaitPush(o)
    \/ MarkActive(o) \/ MarkSave(o) \/ OkHdel(o) \/ OkSave(o)
    \/ FailHdel(o) \/ FailSave(o) \/ RequeueSave(o) \/ RequeuePush(o) \/ FailedSave(o)

StoreStep(o) == SyncStore(o) \/ MarkStore(o) \/ OkStore(o) \/ FailStore(o)

SyncStep ==
    \/ SyncSkip \/ SyncList \/ SyncDone
    \/ \E j \in Jobs : ProbeEnded(j) \/ ProbeKeep(j) \/ ProbeTimeout(j)

DispatchStep ==
    \/ SelectNone \/ \E w \in Workers : SelectWorker(w)
    \/ PostAccepted \/ PostRetried \/ PostFailed

SchedulerStep ==
    \/ \E o \in Outcome("redis") : RedisStep(o)
    \/ \E o \in Outcome("store") : StoreStep(o)
    \/ SyncStep
    \/ DispatchStep

Environment ==
    \E j \in Jobs : TimePasses(j) \/ \E n \in DOMAIN copies[j] : CopyEnds(j, n)

SchedulerTypeOK ==
    /\ pc \in Label
    /\ hand \in Jobs \cup {NoJob}
    /\ job \in JobRecord \cup {Absent}
    /\ attempt \in 0 .. PostAttempts
    /\ DOMAIN snap \subseteq Jobs
    /\ \A j \in DOMAIN snap : snap[j] \in JobRecord
    /\ store \in [Jobs -> JobState \cup {"ABSENT"}]
    /\ copies \in [Jobs -> Seq(Copy)]
    /\ age \in [Jobs -> Age]

SchedulerInit ==
    /\ pc = "sync"
    /\ hand = NoJob
    /\ job = Absent
    /\ attempt = 0
    /\ snap = EmptySnap
    /\ store = [j \in Jobs |-> "ABSENT"]
    /\ copies = [j \in Jobs |-> <<>>]
    /\ age = [j \in Jobs |-> "fresh"]

=============================================================================
