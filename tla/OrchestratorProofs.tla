------------------------- MODULE OrchestratorProofs -------------------------
(***************************************************************************)
(* Theorems about Orchestrator, for every number of jobs, set of workers,  *)
(* retry limit, delay and combination of failures: type correctness,       *)
(* unique tickets, waiting tickets, ends that are final, true in the       *)
(* database and justified, the four ways to lose a job, and none of them   *)
(* taken while only workers fail.                                          *)
(***************************************************************************)
EXTENDS SchedulerProofs

USE QueueAssumption, SchedulerAssumption DEF Jobs, NoJob

-----------------------------------------------------------------------------
(* Request handlers, the sweep, crash and restart, the environment.        *)

\* A request arrives; its job is not stored yet.
LEMMA SubmitKeeps ==
    ASSUME Inv, NEW j \in Jobs, Submit(j)
    PROVE  Inv'
<1>1. enq[j] = "none" /\ enq' = [enq EXCEPT ![j] = "save"]
  BY DEF Submit
<1>2. TypeOK'
  BY <1>1 DEF Submit, queueVars, schedulerVars, localVars, Inv, TypeOK, QueueTypeOK,
              SchedulerTypeOK, EnqState, Enqueuing
<1>3. Consistent'
  BY <1>1 DEF Submit, queueVars, schedulerVars, localVars, Inv, TypeOK, Consistent,
              LocalsOK, StoredOK, JobStateOK, SnapshotCurrent, RequestsOK, OneTicket,
              TicketIsWaiting, Held, Unpushed, Ticketed, InReady
<1> QED
  BY <1>2, <1>3 DEF Inv

\* The first form of the job is saved, waiting.
LEMMA EnqSaveKeeps ==
    ASSUME Inv, NEW j \in Jobs, NEW o, EnqSave(j, o)
    PROVE  Inv'
<1>1. /\ enq[j] = "save" /\ enq' \in [Jobs -> EnqState]
      /\ enq'[j] \in {"push", "rejected"}
      /\ \A k \in Jobs : k # j => enq'[k] = enq[k]
      /\ UNCHANGED <<ready, delayed, active, jobIds, schedulerVars, sweepAt, sweepIds>>
  BY DEF EnqSave, Enqueue, Inv, TypeOK, EnqState, Enqueuing
<1>2. NewJob \in JobRecord /\ NewJob.state \in Waiting /\ jobs[j] = Absent
  BY <1>1 DEF NewJob, JobRecord, JobState, Waiting, Inv, Consistent, RequestsOK
<1>3. /\ jobs' \in [Jobs -> JobRecord \cup {Absent}]
      /\ \A k \in Jobs : k # j => jobs'[k] = jobs[k]
      /\ enq'[j] = "push" => jobs'[j].state \in Waiting
  BY <1>2 DEF EnqSave, Enqueue, SaveJob, Applied, Raised, Inv, TypeOK, QueueTypeOK
<1>4. hand # j /\ j \notin DOMAIN snap /\ ~Ticketed(j)
  BY <1>1, <1>2 DEF Inv, TypeOK, SchedulerTypeOK, Consistent, OneTicket, Unpushed,
                    SnapshotCurrent, Absent, NewJob
<1>5. TypeOK'
  BY <1>1, <1>3 DEF schedulerVars, localVars, Inv, TypeOK, QueueTypeOK, SchedulerTypeOK
<1>6. LocalsOK' /\ JobStateOK' /\ SnapshotCurrent'
  BY <1>1, <1>3, <1>4 DEF schedulerVars, localVars, Inv, TypeOK, SchedulerTypeOK, Consistent,
                          LocalsOK, JobStateOK, SnapshotCurrent
<1>7. StoredOK'
  BY <1>1, <1>3, <1>4 DEF schedulerVars, localVars, Inv, Consistent, LocalsOK, StoredOK, IdleLabel
<1>8. RequestsOK' /\ OneTicket' /\ TicketIsWaiting'
  BY <1>1, <1>3, <1>4 DEF schedulerVars, localVars, Inv, Consistent, RequestsOK, OneTicket,
                          TicketIsWaiting, Held, Unpushed, Ticketed, InReady
<1> QED
  BY <1>5, <1>6, <1>7, <1>8 DEF Inv, Consistent

\* The id enters the list for the first time, and its request is done with it.
LEMMA EnqPushKeeps ==
    ASSUME Inv, NEW j \in Jobs, NEW o, EnqPush(j, o)
    PROVE  Inv'
<1>1. /\ enq[j] = "push" /\ enq' \in [Jobs -> EnqState]
      /\ enq'[j] \in {"index", "rejected"}
      /\ \A k \in Jobs : k # j => enq'[k] = enq[k]
      /\ UNCHANGED <<delayed, active, jobs, jobIds, schedulerVars, sweepAt, sweepIds>>
  BY DEF EnqPush, Enqueue, Inv, TypeOK, EnqState, Enqueuing
<1>2. hand # j /\ ~Ticketed(j) /\ jobs[j].state \in Waiting
  BY <1>1 DEF Inv, Consistent, OneTicket, Unpushed, RequestsOK
<1>3. /\ ready' \in Seq(Jobs) /\ Distinct(ready')
      /\ \A x : Occurs(ready', x) => Occurs(ready, x) \/ x = j
  BY <1>2, PushEffect DEF EnqPush
<1>4. TypeOK'
  BY <1>1, <1>3 DEF schedulerVars, localVars, Inv, TypeOK, QueueTypeOK, SchedulerTypeOK
<1>5. LocalsOK' /\ StoredOK' /\ JobStateOK' /\ SnapshotCurrent' /\ RequestsOK'
  BY <1>1 DEF schedulerVars, localVars, Inv, Consistent, LocalsOK, StoredOK, JobStateOK,
              SnapshotCurrent, RequestsOK
<1>6. TicketIsWaiting'
  BY <1>1, <1>2, <1>3 DEF Inv, Consistent, TicketIsWaiting, Ticketed, InReady, Occurs
<1>7. \A k \in Jobs : InReady(k)' => InReady(k) \/ k = j
  BY <1>3 DEF InReady, Occurs
<1>8. \A k \in Jobs : Held(k)' <=> Held(k)
  BY <1>1 DEF Held, schedulerVars, localVars
<1>9. OneTicket'
  BY <1>1, <1>2, <1>3, <1>7, <1>8 DEF Inv, Consistent, OneTicket, Held, Unpushed, Ticketed,
              Distinct, schedulerVars, localVars
<1> QED
  BY <1>4, <1>5, <1>6, <1>9 DEF Inv, Consistent

\* The index holds ids only.
LEMMA EnqIndexKeeps ==
    ASSUME Inv, NEW j \in Jobs, NEW o, EnqIndex(j, o)
    PROVE  Inv'
<1>1. /\ enq[j] = "index" /\ enq' \in [Jobs -> EnqState]
      /\ enq'[j] \in {"store", "rejected"}
      /\ \A k \in Jobs : k # j => enq'[k] = enq[k]
      /\ jobIds' \subseteq Jobs
      /\ UNCHANGED <<ready, delayed, active, jobs, schedulerVars, sweepAt, sweepIds>>
  BY DEF EnqIndex, Enqueue, IndexJob, Inv, TypeOK, QueueTypeOK, EnqState, Enqueuing
<1>2. TypeOK'
  BY <1>1 DEF schedulerVars, localVars, Inv, TypeOK, QueueTypeOK, SchedulerTypeOK
<1>3. Consistent'
  BY <1>1 DEF schedulerVars, localVars, Inv, Consistent, LocalsOK, StoredOK, JobStateOK,
              SnapshotCurrent, RequestsOK, OneTicket, TicketIsWaiting, Held, Unpushed,
              Ticketed, InReady
<1> QED
  BY <1>2, <1>3 DEF Inv

\* The database write of the request touches the state column alone.
LEMMA EnqStoreKeeps ==
    ASSUME Inv, NEW j \in Jobs, NEW o, EnqStore(j, o)
    PROVE  Inv'
<1>1. /\ enq[j] = "store" /\ enq' \in [Jobs -> EnqState]
      /\ enq'[j] \in {"acked", "errored"}
      /\ \A k \in Jobs : k # j => enq'[k] = enq[k]
      /\ store' \in [Jobs -> JobState \cup {"ABSENT"}]
      /\ UNCHANGED <<queueVars, localVars, copies, age, sweepAt, sweepIds>>
  BY DEF EnqStore, Inv, TypeOK, SchedulerTypeOK, EnqState, NewJob, JobState, Waiting
<1>2. TypeOK'
  BY <1>1 DEF queueVars, localVars, Inv, TypeOK, QueueTypeOK, SchedulerTypeOK
<1>3. Consistent'
  BY <1>1 DEF queueVars, localVars, Inv, Consistent, LocalsOK, StoredOK, JobStateOK,
              SnapshotCurrent, RequestsOK, OneTicket, TicketIsWaiting, Held, Unpushed,
              Ticketed, InReady
<1> QED
  BY <1>2, <1>3 DEF Inv

\* The sweep of active touches nothing the invariant relates.
LEMMA SweepKeeps ==
    ASSUME Inv, SweepList \/ SweepStep
    PROVE  Inv'
<1>1. /\ UNCHANGED <<ready, delayed, jobs, jobIds, schedulerVars, enq>>
      /\ active' \subseteq Jobs
      /\ sweepAt' \in {"idle", "read", "drop"} /\ sweepIds' \subseteq Jobs
  BY DEF SweepList, SweepStep, SweepRead, SweepDrop, DropActive, StaleActive, queueVars,
         Inv, TypeOK, QueueTypeOK
<1>2. TypeOK'
  BY <1>1 DEF schedulerVars, localVars, Inv, TypeOK, QueueTypeOK, SchedulerTypeOK
<1>3. Consistent'
  BY <1>1 DEF schedulerVars, localVars, Inv, Consistent, LocalsOK, StoredOK, JobStateOK,
              SnapshotCurrent, RequestsOK, OneTicket, TicketIsWaiting, Held, Unpushed,
              Ticketed, InReady
<1> QED
  BY <1>2, <1>3 DEF Inv

\* A crash takes the ticket in hand away and gives none to anyone.
LEMMA CrashKeeps ==
    ASSUME Inv, Crash
    PROVE  Inv'
<1>1. /\ pc' = "down" /\ hand' = NoJob /\ job' = Absent /\ attempt' = 0 /\ DOMAIN snap' = {}
      /\ enq' \in [Jobs -> EnqState] /\ sweepAt' = "idle" /\ sweepIds' = {}
      /\ \A j \in Jobs : enq'[j] = enq[j] \/ enq'[j] = "died"
      /\ UNCHANGED <<queueVars, store, copies, age>>
  BY DEF Crash, EmptySnap, Inv, TypeOK, EnqState
<1>2. TypeOK'
  BY <1>1 DEF queueVars, Inv, TypeOK, QueueTypeOK, SchedulerTypeOK, Label, IdleLabel
<1>3. LocalsOK' /\ StoredOK' /\ JobStateOK' /\ SnapshotCurrent'
  BY <1>1 DEF LocalsOK, StoredOK, JobStateOK, SnapshotCurrent, IdleLabel, GetLabel, SyncLabel
<1>4. RequestsOK' /\ OneTicket' /\ TicketIsWaiting'
  BY <1>1 DEF queueVars, Inv, Consistent, RequestsOK, OneTicket, TicketIsWaiting, Held,
              Unpushed, Ticketed, InReady
<1> QED
  BY <1>2, <1>3, <1>4 DEF Inv, Consistent

\* A restarted process holds nothing.
LEMMA RestartKeeps ==
    ASSUME Inv, Restart
    PROVE  Inv'
<1>1. /\ pc = "down" /\ pc' = "sync" /\ hand = NoJob /\ job = Absent
      /\ UNCHANGED <<hand, job, attempt, snap, queueVars, store, copies, age, requestVars>>
  BY DEF Restart, Inv, Consistent, LocalsOK, IdleLabel, GetLabel
<1>2. TypeOK'
  BY <1>1 DEF queueVars, requestVars, Inv, TypeOK, QueueTypeOK, SchedulerTypeOK, Label, IdleLabel
<1>3. Consistent'
  BY <1>1 DEF queueVars, requestVars, Inv, Consistent, LocalsOK, StoredOK, JobStateOK,
              SnapshotCurrent, RequestsOK, OneTicket, TicketIsWaiting, Held, Unpushed,
              Ticketed, InReady, IdleLabel, GetLabel, SyncLabel
<1> QED
  BY <1>2, <1>3 DEF Inv

\* Workers and clock change nothing the invariant relates.
LEMMA EnvironmentKeeps ==
    ASSUME Inv, Environment, UNCHANGED requestVars
    PROVE  Inv'
<1>1. UNCHANGED <<localVars, queueVars, store, requestVars>>
  BY DEF Environment, TimePasses, CopyEnds
<1>2. copies' \in [Jobs -> Seq(Copy)] /\ age' \in [Jobs -> Age]
  <2>1. CASE \E j \in Jobs : TimePasses(j)
    BY <2>1 DEF TimePasses, Inv, TypeOK, SchedulerTypeOK, Age
  <2>2. ASSUME NEW j \in Jobs, NEW n \in DOMAIN copies[j], CopyEnds(j, n)
        PROVE  copies' \in [Jobs -> Seq(Copy)] /\ age' \in [Jobs -> Age]
    <3>1. copies[j] \in Seq(Copy)
      BY DEF Inv, TypeOK, SchedulerTypeOK
    <3>2. PICK end \in Terminal : copies' = [copies EXCEPT ![j][n].state = end]
      BY <2>2 DEF CopyEnds
    <3>3. [copies[j][n] EXCEPT !.state = end] \in Copy
      <4>1. copies[j][n] \in Copy
        BY <3>1
      <4> QED
        BY <4>1 DEF Copy
    <3>4. [copies[j] EXCEPT ![n] = [copies[j][n] EXCEPT !.state = end]] \in Seq(Copy)
      BY <3>1, <3>3, ExceptSeq, LenProperties
    <3>5. age' = age
      BY <2>2 DEF CopyEnds
    <3> QED
      BY <3>2, <3>4, <3>5 DEF Inv, TypeOK, SchedulerTypeOK
  <2> QED
    BY <2>1, <2>2 DEF Environment
<1>3. TypeOK'
  BY <1>1, <1>2 DEF localVars, queueVars, requestVars, Inv, TypeOK, QueueTypeOK, SchedulerTypeOK
<1>4. Consistent'
  BY <1>1 DEF localVars, queueVars, requestVars, Inv, Consistent, LocalsOK, StoredOK,
              JobStateOK, SnapshotCurrent, RequestsOK, OneTicket, TicketIsWaiting, Held,
              Unpushed, Ticketed, InReady
<1> QED
  BY <1>3, <1>4 DEF Inv

\* A stutter.
LEMMA StutterKeeps ==
    ASSUME Inv, UNCHANGED vars
    PROVE  Inv'
<1>1. TypeOK'
  BY DEF vars, schedulerVars, localVars, queueVars, requestVars, Inv, TypeOK, QueueTypeOK,
         SchedulerTypeOK
<1>2. Consistent'
  BY DEF vars, schedulerVars, localVars, queueVars, requestVars, Inv, Consistent, LocalsOK,
         StoredOK, JobStateOK, SnapshotCurrent, RequestsOK, OneTicket, TicketIsWaiting, Held,
         Unpushed, Ticketed, InReady
<1> QED
  BY <1>1, <1>2 DEF Inv

\* The invariant holds when the process first starts.
LEMMA InitHolds == Init => Inv
<1> SUFFICES ASSUME Init PROVE Inv
  OBVIOUS
<1>1. TypeOK
  BY DEF Init, QueueInit, SchedulerInit, TypeOK, QueueTypeOK, SchedulerTypeOK, Label,
         IdleLabel, EnqState, JobState, Age, EmptySnap
<1>2. Consistent
  BY DEF Init, QueueInit, SchedulerInit, Consistent, LocalsOK, StoredOK, JobStateOK,
         SnapshotCurrent, RequestsOK, OneTicket, TicketIsWaiting, Held, Unpushed, Ticketed,
         InReady, IdleLabel, GetLabel, SyncLabel, EmptySnap
<1> QED
  BY <1>1, <1>2 DEF Inv

-----------------------------------------------------------------------------
(* The steps of the processes keep the invariant.                          *)

\* Every step of the scheduler task keeps the invariant.
LEMMA SchedulerKeeps ==
    ASSUME Inv, SchedulerStep, UNCHANGED requestVars
    PROVE  Inv'
<1>1. ASSUME NEW o, RedisStep(o)
      PROVE  Inv'
  BY <1>1, SyncSaveKeeps, ReleaseKeeps, PopKeeps, GetKeeps, WaitSaveKeeps, WaitPushKeeps,
     MarkActiveKeeps, MarkSaveKeeps, OkHdelKeeps, OkSaveKeeps, FailHdelKeeps, FailSaveKeeps,
     RequeueSaveKeeps, RequeuePushKeeps, FailedSaveKeeps DEF RedisStep
<1>2. ASSUME NEW o, StoreStep(o)
      PROVE  Inv'
  BY <1>2, SyncStoreKeeps, MarkStoreKeeps, OkStoreKeeps, FailStoreKeeps DEF StoreStep
<1>3. CASE SyncStep
  BY <1>3, SyncSkipKeeps, SyncListKeeps, SyncDoneKeeps, ProbeEndedKeeps, ProbeKeepKeeps,
     ProbeTimeoutKeeps DEF SyncStep
<1>4. CASE DispatchStep
  BY <1>4, SelectNoneKeeps, SelectWorkerKeeps, PostAcceptedKeeps, PostRetriedKeeps,
     PostFailedKeeps DEF DispatchStep
<1> QED
  BY <1>1, <1>2, <1>3, <1>4 DEF SchedulerStep

\* Every step of a request handler keeps the invariant.
LEMMA EnqueueKeeps ==
    ASSUME Inv, NEW j \in Jobs, Submit(j) \/ EnqueueStep(j)
    PROVE  Inv'
  BY SubmitKeeps, EnqSaveKeeps, EnqPushKeeps, EnqIndexKeeps, EnqStoreKeeps DEF EnqueueStep

\* Every step, and every stutter, keeps the invariant.
LEMMA NextKeeps ==
    ASSUME Inv, [Next]_vars
    PROVE  Inv'
<1>1. CASE SchedulerStep /\ UNCHANGED requestVars
  BY <1>1, SchedulerKeeps
<1>2. CASE Environment /\ UNCHANGED requestVars
  BY <1>2, EnvironmentKeeps
<1>3. CASE \E j \in Jobs : Submit(j) \/ EnqueueStep(j)
  BY <1>3, EnqueueKeeps
<1>4. CASE SweepList \/ SweepStep
  BY <1>4, SweepKeeps
<1>5. CASE Crash \/ Restart
  BY <1>5, CrashKeeps, RestartKeeps
<1>6. CASE UNCHANGED vars
  BY <1>6, StutterKeeps
<1> QED
  BY <1>1, <1>2, <1>3, <1>4, <1>5, <1>6 DEF Next

-----------------------------------------------------------------------------
(* The theorems.                                                           *)

\* Inv holds in every reachable state.
THEOREM Invariance == Spec => []Inv
<1>1. Inv /\ [Next]_vars => Inv'
  BY NextKeeps
<1> QED
  BY <1>1, InitHolds, PTL DEF Spec

\* Every variable keeps its type: what Redis, the database and the locals of
\* the tasks hold is always of the form the code expects.
THEOREM TypeCorrect == Spec => []TypeOK
<1>1. Inv => TypeOK
  BY DEF Inv
<1> QED
  BY <1>1, Invariance, PTL

\* However many jobs, workers, lost replies and crashes there are, a job's id
\* is never twice in the queue, and never in the queue while the scheduler
\* holds it or the request that creates it has not pushed it.
THEOREM TicketsAreUnique == Spec => []OneTicket
<1>1. Inv => OneTicket
  BY DEF Inv, Consistent
<1> QED
  BY <1>1, Invariance, PTL

\* What pop_ready loads is always stored as waiting.
THEOREM TicketsWait == Spec => []TicketIsWaiting
<1>1. Inv => TicketIsWaiting
  BY DEF Inv, Consistent
<1> QED
  BY <1>1, Invariance, PTL

\* The locals of the scheduler agree with its label and with the stored job.
THEOREM SchedulerIsConsistent == Spec => []Consistent
<1>1. Inv => Consistent
  BY DEF Inv
<1> QED
  BY <1>1, Invariance, PTL

-----------------------------------------------------------------------------
(* Ends are final: whoever writes a stored job finds it unfinished.        *)

EndsKept == \A j \in Jobs : jobs[j].state \in Terminal => jobs'[j] = jobs[j]

\* Wherever the scheduler saves the job in hand, the stored form that it
\* replaces is not an end.
LEMMA SaveKeepsEnds ==
    ASSUME Inv, NEW o, SaveJob(hand, job, o),
           pc \in {"sync_save", "wait_save", "mark_save", "ok_save", "fail_save",
                   "requeue_save", "failed_save"}
    PROVE  EndsKept
<1>1. \A k \in Jobs : k # hand => jobs'[k] = jobs[k]
  BY SaveEffect DEF IdleLabel, GetLabel
<1>2. jobs[hand].state \notin Terminal
  BY DEF Inv, Consistent, StoredOK, Waiting, InAttempt, Terminal
<1> QED
  BY <1>1, <1>2 DEF EndsKept

\* No step rewrites a finished job.
LEMMA NextKeepsEnds ==
    ASSUME Inv, [Next]_vars
    PROVE  EndsKept
<1>1. CASE UNCHANGED jobs
  BY <1>1 DEF EndsKept
<1>2. ASSUME NEW o, RedisStep(o)
      PROVE  EndsKept
  <2>1. CASE \/ SyncSave(o) \/ WaitSave(o) \/ MarkSave(o) \/ OkSave(o)
             \/ FailSave(o) \/ RequeueSave(o) \/ FailedSave(o)
    <3>1. /\ SaveJob(hand, job, o)
          /\ pc \in {"sync_save", "wait_save", "mark_save", "ok_save", "fail_save",
                     "requeue_save", "failed_save"}
      BY <2>1 DEF SyncSave, WaitSave, MarkSave, OkSave, FailSave, RequeueSave, FailedSave
    <3> QED
      BY <3>1, SaveKeepsEnds
  <2>2. CASE \/ Release(o) \/ Pop(o) \/ Get(o) \/ WaitPush(o) \/ MarkActive(o)
             \/ OkHdel(o) \/ FailHdel(o) \/ RequeuePush(o)
    BY <1>1, <2>2 DEF Release, Pop, Get, WaitPush, MarkActive, OkHdel, FailHdel,
       RequeuePush, queueVars
  <2> QED
    BY <1>2, <2>1, <2>2 DEF RedisStep
<1>3. ASSUME NEW o, StoreStep(o)
      PROVE  EndsKept
  BY <1>1, <1>3 DEF StoreStep, SyncStore, MarkStore, OkStore, FailStore, queueVars
<1>4. CASE SyncStep \/ DispatchStep \/ Environment
  BY <1>1, <1>4 DEF SyncStep, SyncSkip, SyncList, SyncDone, ProbeEnded, ProbeKeep,
     ProbeTimeout, DispatchStep, SelectNone, SelectWorker, PostAccepted, PostRetried,
     PostFailed, Environment, TimePasses, CopyEnds, queueVars
<1>5. ASSUME NEW j \in Jobs, NEW o, EnqSave(j, o)
      PROVE  EndsKept
  <2>1. jobs[j].state \notin Terminal
    BY <1>5 DEF EnqSave, Enqueue, Inv, Consistent, RequestsOK, Absent, NewJob, Terminal
  <2>2. \A k \in Jobs : k # j => jobs'[k] = jobs[k]
    BY <1>5 DEF EnqSave, SaveJob, Inv, TypeOK, QueueTypeOK
  <2> QED
    BY <2>1, <2>2 DEF EndsKept
<1>6. CASE \E j \in Jobs : Submit(j) \/ EnqueueStep(j)
  BY <1>1, <1>5, <1>6 DEF Submit, EnqueueStep, EnqPush, EnqIndex, EnqStore, queueVars
<1>7. CASE SweepList \/ SweepStep \/ Crash \/ Restart \/ UNCHANGED vars
  BY <1>1, <1>7 DEF SweepList, SweepStep, SweepRead, SweepDrop, Crash, Restart, vars,
     queueVars
<1> QED
  BY <1>2, <1>3, <1>4, <1>6, <1>7 DEF Next, SchedulerStep

\* A job that is stored as COMPLETED, FAILED or TIMEOUT is never written again:
\* no save of a job object the scheduler loaded earlier can undo its end.
THEOREM EndsAreFinal == Spec => TerminalIsFinal
<1>1. Inv /\ [Next]_vars => EndsKept
  BY NextKeepsEnds
<1>2. Inv /\ [Next]_vars =>
          [\A j \in Jobs : jobs[j].state \in Terminal => jobs'[j] = jobs[j]]_vars
  BY <1>1 DEF EndsKept
<1> QED
  BY <1>2, Invariance, PTL DEF Spec, TerminalIsFinal

-----------------------------------------------------------------------------
(* Ends are true: the scheduler holds a job object that says COMPLETED,    *)
(* FAILED or TIMEOUT only between the call that found out and the two      *)
(* writes that record it, and the database write comes second.             *)

EndInHand ==
    job.state \in Terminal =>
        \/ pc \in {"sync_save", "failed_save"}
        \/ pc \in {"sync_store", "fail_store"} /\ jobs[hand] = job

\* A job object that is dropped, or whose state is no end, is harmless.
LEMMA NoEndInHand ==
    ASSUME job' = Absent \/ job'.state \in Waiting \cup InAttempt
    PROVE  EndInHand'
  BY DEF EndInHand, Absent, NewJob, Waiting, InAttempt, Terminal

\* The writes of an end.
LEMMA EndWritesInHand ==
    ASSUME Inv, EndInHand, NEW o, SyncSave(o) \/ FailedSave(o)
    PROVE  EndInHand'
<1>1. pc \in {"sync_save", "failed_save"} /\ SaveJob(hand, job, o)
  BY DEF SyncSave, FailedSave
<1>2. CASE Raised(o)
  BY <1>2, NoEndInHand DEF SyncSave, FailedSave, LoopTop
<1>3. CASE ~Raised(o)
  <2>1. jobs'[hand] = job
    BY <1>1, <1>3, SaveEffect DEF Raised, Applied, IdleLabel, GetLabel
  <2>2. pc' \in {"sync_store", "fail_store"} /\ UNCHANGED <<hand, job>>
    BY <1>3 DEF SyncSave, FailedSave, Await
  <2> QED
    BY <2>1, <2>2 DEF EndInHand
<1> QED
  BY <1>2, <1>3

\* The calls of a dispatch, made with a job in progress or on its way back.
LEMMA AttemptInHand ==
    ASSUME Inv, EndInHand, NEW o,
           \/ SelectNone \/ \E w \in Workers : SelectWorker(w)
           \/ WaitSave(o) \/ MarkActive(o) \/ MarkSave(o) \/ MarkStore(o)
           \/ PostAccepted \/ PostRetried \/ PostFailed
           \/ OkHdel(o) \/ OkSave(o) \/ OkStore(o) \/ FailHdel(o) \/ FailSave(o)
           \/ RequeueSave(o) \/ RequeuePush(o)
    PROVE  EndInHand'
<1>1. pc \notin IdleLabel \cup GetLabel
  BY DEF SelectNone, SelectWorker, WaitSave, MarkActive, MarkSave, MarkStore, PostAccepted,
         PostRetried, PostFailed, OkHdel, OkSave, OkStore, FailHdel, FailSave, RequeueSave,
         RequeuePush, IdleLabel, GetLabel
<1>2. job \in JobRecord /\ job.state \notin Terminal
  <2>1. pc \notin {"sync_save", "failed_save", "sync_store", "fail_store"}
    BY DEF SelectNone, SelectWorker, WaitSave, MarkActive, MarkSave, MarkStore, PostAccepted,
           PostRetried, PostFailed, OkHdel, OkSave, OkStore, FailHdel, FailSave, RequeueSave,
           RequeuePush
  <2> QED
    BY <1>1, <2>1, HoldsJob DEF EndInHand
<1>3. CASE job' = job
  BY <1>2, <1>3 DEF EndInHand
<1>4. CASE LoopTop
  BY <1>4, NoEndInHand DEF LoopTop
<1>5. CASE DispatchFailed
  BY <1>1, <1>2, <1>5, FailedEffect DEF EndInHand
<1>6. CASE SelectNone
  BY <1>6, SelectNoneEffect, NoEndInHand DEF Waiting
<1>7. ASSUME NEW w \in Workers, SelectWorker(w)
      PROVE  EndInHand'
  BY <1>7, SelectWorkerEffect, NoEndInHand DEF InAttempt
<1>8. CASE PostAccepted
  BY <1>8, AcceptedEffect, NoEndInHand DEF InAttempt
<1>9. CASE FailSave(o) /\ ~Raised(o)
  <2>1. CASE pc' = "requeue_save" /\ job'.state = "RETRYING"
    BY <2>1, NoEndInHand DEF Waiting
  <2>2. CASE pc' = "failed_save"
    BY <2>2 DEF EndInHand
  <2> QED
    BY <1>9, <2>1, <2>2, FailSaveEffect
<1> QED
  BY <1>3, <1>4, <1>5, <1>6, <1>7, <1>8, <1>9
     DEF WaitSave, MarkActive, MarkSave, MarkStore, PostRetried, PostFailed, OkHdel, OkSave,
         OkStore, FailHdel, FailSave, RequeueSave, RequeuePush, Await

\* The steps between two jobs.
LEMMA BetweenJobsInHand ==
    ASSUME Inv, EndInHand, NEW o,
           \/ SyncStep \/ Release(o) \/ Pop(o) \/ Get(o) \/ WaitPush(o) \/ SyncStore(o)
           \/ FailStore(o)
    PROVE  EndInHand'
<1>1. CASE job' = Absent
  BY <1>1, NoEndInHand
<1>2. CASE pc \in IdleLabel \cup GetLabel /\ job' = job
  <2>1. job = Absent
    BY <1>2 DEF Inv, Consistent, LocalsOK
  <2> QED
    BY <1>1, <1>2, <2>1
<1>3. ASSUME NEW j \in Jobs, ProbeEnded(j) \/ ProbeTimeout(j)
      PROVE  EndInHand'
  BY <1>3 DEF ProbeEnded, ProbeTimeout, EndInHand
<1>4. CASE Get(o) /\ job' = jobs[hand]
  <2>1. jobs[hand].state \in Waiting
    BY <1>4 DEF Get, Inv, Consistent, StoredOK
  <2> QED
    BY <1>4, <2>1, NoEndInHand
<1> QED
  BY <1>1, <1>2, <1>3, <1>4
     DEF SyncStep, SyncSkip, SyncList, SyncDone, ProbeKeep, Unfinished, Release, Pop, Get,
         WaitPush, SyncStore, FailStore, LoopTop, Await, IdleLabel, GetLabel, SyncLabel

\* Every step keeps it: others leave the locals, and an end that is stored
\* stays stored.
LEMMA NextInHand ==
    ASSUME Inv, EndInHand, [Next]_vars
    PROVE  EndInHand'
<1>1. CASE SchedulerStep
  BY <1>1, EndWritesInHand, AttemptInHand, BetweenJobsInHand
     DEF SchedulerStep, RedisStep, StoreStep, DispatchStep
<1>2. CASE UNCHANGED localVars
  <2>1. job.state \in Terminal /\ pc \in {"sync_store", "fail_store"} =>
            hand \in Jobs
    BY HoldsJob DEF IdleLabel, GetLabel
  <2>2. EndsKept
    BY NextKeepsEnds
  <2> QED
    BY <1>2, <2>1, <2>2 DEF localVars, EndInHand, EndsKept
<1>3. CASE Crash \/ Restart
  <2>1. job' = Absent
    BY <1>3 DEF Crash, Restart, Inv, Consistent, LocalsOK, IdleLabel
  <2> QED
    BY <2>1, NoEndInHand
<1> QED
  BY <1>1, <1>2, <1>3
     DEF Next, Environment, TimePasses, CopyEnds, Submit, EnqueueStep, Enqueue, EnqSave, EnqPush,
         EnqIndex, EnqStore, SweepList, SweepStep, SweepRead, SweepDrop, vars, schedulerVars

\* The database write of the job in hand.
LEMMA StoreWriteIsTrue ==
    ASSUME Inv, EndInHand, StoreTerminalIsTrue, NEW o, SaveStore(o), UNCHANGED jobs,
           pc \in {"sync_store", "mark_store", "ok_store", "fail_store"}
    PROVE  StoreTerminalIsTrue'
<1>1. hand \in Jobs /\ store \in [Jobs -> JobState \cup {"ABSENT"}]
  BY HoldsJob DEF Inv, TypeOK, SchedulerTypeOK, IdleLabel, GetLabel
<1>2. job.state \in Terminal => jobs[hand] = job
  BY DEF EndInHand
<1>3. \A j \in Jobs : store'[j] = store[j] \/ (j = hand /\ store'[j] = job.state)
  BY <1>1 DEF SaveStore
<1> QED
  BY <1>2, <1>3 DEF StoreTerminalIsTrue

\* Every step keeps the database true.
LEMMA NextStoreIsTrue ==
    ASSUME Inv, EndInHand, StoreTerminalIsTrue, [Next]_vars
    PROVE  StoreTerminalIsTrue'
<1>1. CASE UNCHANGED store
  <2>1. EndsKept
    BY NextKeepsEnds
  <2> QED
    BY <1>1, <2>1 DEF StoreTerminalIsTrue, EndsKept
<1>2. ASSUME NEW o, StoreStep(o)
      PROVE  StoreTerminalIsTrue'
  BY <1>2, StoreWriteIsTrue
     DEF StoreStep, SyncStore, MarkStore, OkStore, FailStore, queueVars
<1>3. ASSUME NEW j \in Jobs, NEW o, EnqStore(j, o)
      PROVE  StoreTerminalIsTrue'
  <2>1. UNCHANGED jobs /\ NewJob.state \notin Terminal
    BY <1>3 DEF EnqStore, queueVars, NewJob, Terminal
  <2>2. \A k \in Jobs : store'[k] = store[k] \/ store'[k] = NewJob.state
    BY <1>3 DEF EnqStore, Inv, TypeOK, SchedulerTypeOK
  <2> QED
    BY <2>1, <2>2 DEF StoreTerminalIsTrue
<1>4. ASSUME NEW o, RedisStep(o)
      PROVE  UNCHANGED store
  BY <1>4 DEF RedisStep, SyncSave, Release, Pop, Get, WaitSave, WaitPush, MarkActive, MarkSave,
              OkHdel, OkSave, FailHdel, FailSave, RequeueSave, RequeuePush, FailedSave
<1>5. CASE SyncStep \/ DispatchStep \/ Environment
  BY <1>1, <1>5 DEF SyncStep, SyncSkip, SyncList, SyncDone, ProbeEnded, ProbeKeep,
     ProbeTimeout, DispatchStep, SelectNone, SelectWorker, PostAccepted, PostRetried,
     PostFailed, Environment, TimePasses, CopyEnds
<1>6. CASE \E j \in Jobs : Submit(j) \/ EnqueueStep(j)
  BY <1>1, <1>3, <1>6 DEF Submit, EnqueueStep, Enqueue, EnqSave, EnqPush, EnqIndex, schedulerVars
<1>7. CASE SweepList \/ SweepStep \/ Crash \/ Restart \/ UNCHANGED vars
  BY <1>1, <1>7 DEF SweepList, SweepStep, SweepRead, SweepDrop, Crash, Restart, vars,
     schedulerVars
<1> QED
  BY <1>1, <1>2, <1>4, <1>5, <1>6, <1>7 DEF Next, SchedulerStep

\* Whatever write fails and wherever the process dies between the Redis write
\* and the database write, the database shows no end that Redis does not have.
THEOREM StoreIsTrue == Spec => []StoreTerminalIsTrue
<1>1. Init => EndInHand /\ StoreTerminalIsTrue
  BY DEF Init, QueueInit, SchedulerInit, EndInHand, StoreTerminalIsTrue, Absent, NewJob, Terminal
<1>2. Inv /\ EndInHand /\ StoreTerminalIsTrue /\ [Next]_vars => (EndInHand /\ StoreTerminalIsTrue)'
  BY NextInHand, NextStoreIsTrue
<1> QED
  BY <1>1, <1>2, Invariance, PTL DEF Spec

-----------------------------------------------------------------------------
(* Ends are justified: what a worker has reported once it goes on          *)
(* reporting, and the job object in hand is justified as the stored one.   *)

\* The local job that record rec of job j names has ended so.
Reported(j, rec, end) ==
    /\ rec.wjob \in DOMAIN copies[j]
    /\ copies[j][rec.wjob] = [worker |-> rec.worker, state |-> end]

Verdict(j, rec) ==
    /\ rec.state = "COMPLETED" => Reported(j, rec, "COMPLETED")
    /\ rec.state = "FAILED" => Reported(j, rec, "FAILED") \/ rec.retries > MaxRetries

VerdictInv ==
    /\ \A j \in Jobs : Verdict(j, jobs[j])
    /\ hand \in Jobs => Verdict(hand, job)

\* A local job that has ended is neither lost nor renumbered by any step.
LEMMA EndedCopyStays ==
    ASSUME Inv, [Next]_vars, NEW j \in Jobs, NEW n \in DOMAIN copies[j],
           copies[j][n].state \in Terminal
    PROVE  n \in DOMAIN copies'[j] /\ copies'[j][n] = copies[j][n]
<1>1. copies \in [Jobs -> Seq(Copy)] /\ copies[j] \in Seq(Copy)
  BY DEF Inv, TypeOK, SchedulerTypeOK
<1>2. CASE UNCHANGED copies
  BY <1>2
<1>3. CASE WorkerTakes
  <2>1. copies'[j] = copies[j] \/ \E c : copies'[j] = Append(copies[j], c)
    BY <1>1, <1>3 DEF WorkerTakes
  <2>2. ASSUME NEW c
        PROVE  n \in DOMAIN Append(copies[j], c) /\ Append(copies[j], c)[n] = copies[j][n]
    BY <1>1, AppendProperties, LenProperties
  <2> QED
    BY <2>1, <2>2
<1>4. ASSUME NEW k \in Jobs, NEW m \in DOMAIN copies[k], CopyEnds(k, m)
      PROVE  n \in DOMAIN copies'[j] /\ copies'[j][n] = copies[j][n]
  <2>1. PICK end \in Terminal : copies' = [copies EXCEPT ![k][m].state = end]
    BY <1>4 DEF CopyEnds
  <2>2. copies[k][m].state = "RUNNING"
    BY <1>4 DEF CopyEnds
  <2>3. ~(k = j /\ m = n)
    BY <2>2 DEF Terminal
  <2> QED
    BY <1>1, <2>1, <2>3
<1>5. CASE SchedulerStep
  BY <1>2, <1>3, <1>5
     DEF SchedulerStep, RedisStep, StoreStep, SyncStep, DispatchStep, SyncSave, Release, Pop,
         Get, WaitSave, WaitPush, MarkActive, MarkSave, OkHdel, OkSave, FailHdel, FailSave,
         RequeueSave, RequeuePush, FailedSave, SyncStore, MarkStore, OkStore, FailStore,
         SyncSkip, SyncList, SyncDone, ProbeEnded, ProbeKeep, ProbeTimeout, SelectNone,
         SelectWorker, PostAccepted, PostRetried, PostFailed, WorkerMayTake
<1>6. CASE Environment
  BY <1>2, <1>4, <1>6 DEF Environment, TimePasses
<1> QED
  BY <1>2, <1>5, <1>6
     DEF Next, Submit, EnqueueStep, Enqueue, EnqSave, EnqPush, EnqIndex, EnqStore, SweepList,
         SweepStep, SweepRead, SweepDrop, Crash, Restart, vars, schedulerVars

\* So a justified record stays justified.
LEMMA VerdictStays ==
    ASSUME Inv, [Next]_vars, NEW j \in Jobs, NEW rec, Verdict(j, rec)
    PROVE  Verdict(j, rec)'
<1>1. ASSUME NEW end \in Terminal, Reported(j, rec, end)
      PROVE  Reported(j, rec, end)'
  BY <1>1, EndedCopyStays DEF Reported
<1> QED
  BY <1>1 DEF Verdict, Terminal

\* What a step does to the job object in hand: it keeps it, drops it or leaves
\* it unfinished, or it is one of the two ways to an end.
LEMMA HandTurns ==
    ASSUME Inv, [Next]_vars
    PROVE  \/ hand' \notin Jobs
           \/ job'.state \notin {"COMPLETED", "FAILED"}
           \/ UNCHANGED <<hand, job>>
           \/ \E j \in Jobs : ProbeEnded(j)
           \/ \E o : FailSave(o) /\ ~Raised(o)
<1> DEFINE Turn ==
             \/ hand' \notin Jobs
             \/ job'.state \notin {"COMPLETED", "FAILED"}
             \/ UNCHANGED <<hand, job>>
             \/ \E j \in Jobs : ProbeEnded(j)
             \/ \E o : FailSave(o) /\ ~Raised(o)
<1>1. CASE LoopTop \/ UNCHANGED <<hand, job>>
  BY <1>1 DEF LoopTop
<1>2. CASE DispatchFailed /\ pc \in {"post", "ok_hdel", "ok_save", "ok_store"}
  <2>1. job.state \in InAttempt /\ job'.state = job.state
    BY <1>2, FailedEffect DEF Inv, Consistent, JobStateOK, InAttempt, IdleLabel, GetLabel
  <2> QED
    BY <2>1 DEF InAttempt
<1>3. ASSUME NEW o, RedisStep(o)
      PROVE  Turn
  <2>1. CASE \/ SyncSave(o) \/ Release(o) \/ WaitSave(o) \/ WaitPush(o) \/ MarkActive(o)
             \/ MarkSave(o) \/ OkHdel(o) \/ OkSave(o) \/ FailHdel(o) \/ FailSave(o)
             \/ RequeueSave(o) \/ RequeuePush(o) \/ FailedSave(o)
    BY <1>1, <1>2, <2>1
       DEF SyncSave, Release, WaitSave, WaitPush, MarkActive, MarkSave, OkHdel, OkSave, FailHdel,
           FailSave, RequeueSave, RequeuePush, FailedSave, Await
  <2>2. CASE Pop(o)
    <3>1. pc = "rpop" /\ job = Absent
      BY <2>2 DEF Pop, Inv, Consistent, LocalsOK, IdleLabel
    <3> QED
      BY <1>1, <2>2, <3>1 DEF Pop, Absent, NewJob
  <2>3. CASE Get(o)
    <3>1. jobs[hand].state \in Waiting
      BY <2>3 DEF Get, Inv, Consistent, StoredOK
    <3> QED
      BY <1>1, <2>3, <3>1 DEF Get, Await, Waiting
  <2> QED
    BY <1>3, <2>1, <2>2, <2>3 DEF RedisStep
<1>4. ASSUME NEW o, StoreStep(o)
      PROVE  Turn
  BY <1>1, <1>2, <1>4 DEF StoreStep, SyncStore, MarkStore, OkStore, FailStore
<1>5. CASE SyncStep
  <2>1. ASSUME NEW j \in Jobs, ProbeTimeout(j)
        PROVE  job'.state = "TIMEOUT"
    BY <2>1 DEF ProbeTimeout, Unfinished, Inv, TypeOK, SchedulerTypeOK, JobRecord
  <2> QED
    BY <1>5, <2>1 DEF SyncStep, SyncSkip, SyncList, SyncDone, ProbeKeep, Await
<1>6. CASE DispatchStep
  BY <1>1, <1>2, <1>6, SelectNoneEffect, SelectWorkerEffect, AcceptedEffect
     DEF DispatchStep, PostRetried, PostFailed
<1>7. CASE Crash \/ Restart
  BY <1>1, <1>7 DEF Crash, Restart
<1> QED
  BY <1>1, <1>3, <1>4, <1>5, <1>6, <1>7
     DEF Next, SchedulerStep, Environment, TimePasses, CopyEnds, Submit, EnqueueStep, Enqueue,
         EnqSave, EnqPush, EnqIndex, EnqStore, SweepList, SweepStep, SweepRead, SweepDrop, vars,
         schedulerVars, localVars

\* Every way to an end has its reason.
LEMMA NextHandVerdict ==
    ASSUME Inv, VerdictInv, [Next]_vars
    PROVE  (hand \in Jobs => Verdict(hand, job))'
<1>1. CASE hand' \notin Jobs \/ job'.state \notin {"COMPLETED", "FAILED"}
  BY <1>1 DEF Verdict
<1>2. CASE UNCHANGED <<hand, job>>
  <2>1. ASSUME hand \in Jobs
        PROVE  Verdict(hand, job)'
    <3>1. \A rec : Verdict(hand, rec) => Verdict(hand, rec)'
      BY <1>2, <2>1, VerdictStays DEF Verdict, Reported
    <3> QED
      BY <1>2, <2>1, <3>1 DEF VerdictInv, Verdict, Reported
  <2> QED
    BY <1>2, <2>1
<1>3. ASSUME NEW j \in Jobs, ProbeEnded(j)
      PROVE  Verdict(hand, job)'
  <2>1. /\ hand' = j /\ job' = [snap[j] EXCEPT !.state = Report(j, snap[j])]
        /\ Report(j, snap[j]) \in Terminal /\ snap[j] \in JobRecord /\ copies' = copies
    BY <1>3 DEF ProbeEnded, Inv, TypeOK, SchedulerTypeOK
  <2>2. /\ snap[j].wjob \in DOMAIN copies[j]
        /\ copies[j][snap[j].wjob].worker = snap[j].worker
        /\ copies[j][snap[j].wjob].state = Report(j, snap[j])
    BY <2>1 DEF Report, Terminal
  <2>3. copies[j][snap[j].wjob] \in Copy
    BY <2>2 DEF Inv, TypeOK, SchedulerTypeOK
  <2>4. copies[j][snap[j].wjob] = [worker |-> snap[j].worker, state |-> Report(j, snap[j])]
    BY <2>2, <2>3 DEF Copy
  <2>5. /\ job'.state = Report(j, snap[j]) /\ job'.wjob = snap[j].wjob
        /\ job'.worker = snap[j].worker
    BY <2>1 DEF JobRecord
  <2> QED
    BY <2>1, <2>2, <2>4, <2>5 DEF Verdict, Reported
<1>4. ASSUME NEW o, FailSave(o), ~Raised(o)
      PROVE  Verdict(hand, job)'
  <2>1. job \in JobRecord
    BY <1>4, HoldsJob DEF FailSave, IdleLabel, GetLabel
  <2>2. CASE job' = [job EXCEPT !.state = "RETRYING"]
    BY <2>1, <2>2 DEF Verdict, JobRecord
  <2>3. CASE job.retries > MaxRetries /\ job' = [job EXCEPT !.state = "FAILED"]
    <3>1. job'.state = "FAILED" /\ job'.retries > MaxRetries
      BY <2>1, <2>3 DEF JobRecord
    <3> QED
      BY <3>1 DEF Verdict
  <2> QED
    BY <1>4, <2>2, <2>3 DEF FailSave, Await
<1> QED
  BY <1>1, <1>2, <1>3, <1>4, HandTurns

\* A stored record is replaced by the one in hand or by a new one.
LEMMA StoredTurns ==
    ASSUME Inv, [Next]_vars, NEW j \in Jobs
    PROVE  \/ jobs'[j] = jobs[j]
           \/ hand = j /\ jobs'[j] = job
           \/ enq[j] = "save" /\ jobs'[j] = NewJob
<1>1. CASE UNCHANGED jobs
  BY <1>1
<1>2. ASSUME NEW o, RedisStep(o)
      PROVE  jobs'[j] = jobs[j] \/ (hand = j /\ jobs'[j] = job)
  <2>1. CASE \/ SyncSave(o) \/ WaitSave(o) \/ MarkSave(o) \/ OkSave(o)
             \/ FailSave(o) \/ RequeueSave(o) \/ FailedSave(o)
    <3>1. SaveJob(hand, job, o) /\ pc \notin IdleLabel \cup GetLabel
      BY <2>1 DEF SyncSave, WaitSave, MarkSave, OkSave, FailSave, RequeueSave, FailedSave,
                  IdleLabel, GetLabel
    <3> QED
      BY <3>1, SaveEffect
  <2>2. CASE \/ Release(o) \/ Pop(o) \/ Get(o) \/ WaitPush(o) \/ MarkActive(o)
             \/ OkHdel(o) \/ FailHdel(o) \/ RequeuePush(o)
    BY <1>1, <2>2 DEF Release, Pop, Get, WaitPush, MarkActive, OkHdel, FailHdel,
       RequeuePush, queueVars
  <2> QED
    BY <1>2, <2>1, <2>2 DEF RedisStep
<1>3. ASSUME NEW o, StoreStep(o)
      PROVE  UNCHANGED jobs
  BY <1>3 DEF StoreStep, SyncStore, MarkStore, OkStore, FailStore, queueVars
<1>4. CASE SyncStep \/ DispatchStep \/ Environment
  BY <1>1, <1>4 DEF SyncStep, SyncSkip, SyncList, SyncDone, ProbeEnded, ProbeKeep,
     ProbeTimeout, DispatchStep, SelectNone, SelectWorker, PostAccepted, PostRetried,
     PostFailed, Environment, TimePasses, CopyEnds, queueVars
<1>5. ASSUME NEW k \in Jobs, NEW o, EnqSave(k, o)
      PROVE  jobs'[j] = jobs[j] \/ (enq[j] = "save" /\ jobs'[j] = NewJob)
  BY <1>5 DEF EnqSave, Enqueue, SaveJob, Inv, TypeOK, QueueTypeOK
<1>6. CASE \E k \in Jobs : Submit(k) \/ EnqueueStep(k)
  BY <1>1, <1>5, <1>6 DEF Submit, EnqueueStep, EnqPush, EnqIndex, EnqStore, queueVars
<1>7. CASE SweepList \/ SweepStep \/ Crash \/ Restart \/ UNCHANGED vars
  BY <1>1, <1>7 DEF SweepList, SweepStep, SweepRead, SweepDrop, Crash, Restart, vars,
     queueVars
<1> QED
  BY <1>1, <1>2, <1>3, <1>4, <1>6, <1>7 DEF Next, SchedulerStep

\* Every step keeps the records justified.
LEMMA NextVerdict ==
    ASSUME Inv, VerdictInv, [Next]_vars
    PROVE  VerdictInv'
<1>1. ASSUME NEW j \in Jobs
      PROVE  Verdict(j, jobs[j])'
  <2>1. ASSUME NEW rec, jobs'[j] = rec, Verdict(j, rec)
        PROVE  Verdict(j, jobs[j])'
    <3>1. Verdict(j, rec)'
      BY <2>1, VerdictStays
    <3> QED
      BY <2>1, <3>1 DEF Verdict, Reported
  <2>2. Verdict(j, jobs[j]) /\ (hand = j => Verdict(j, job)) /\ Verdict(j, NewJob)
    BY DEF VerdictInv, Verdict, NewJob
  <2> QED
    BY <2>1, <2>2, StoredTurns
<1> QED
  BY <1>1, NextHandVerdict DEF VerdictInv

\* Whatever replies are lost and writes fail, COMPLETED is only what the local
\* job the record names has reported, and FAILED only that or a spent budget.
THEOREM EndsAreJustified == Spec => []VerdictIsJustified
<1>1. Init => VerdictInv
  BY DEF Init, QueueInit, SchedulerInit, VerdictInv, Verdict, Absent, NewJob
<1>2. Inv /\ VerdictInv /\ [Next]_vars => VerdictInv'
  BY NextVerdict
<1>3. VerdictInv => VerdictIsJustified
  BY DEF VerdictInv, Verdict, Reported, VerdictIsJustified
<1> QED
  BY <1>1, <1>2, <1>3, Invariance, PTL DEF Spec

-----------------------------------------------------------------------------
(* Where a job can be found, and the four ways in which it gets out of     *)
(* sight: those of LossIsNamed.                                            *)

Lost(j) ==
    \/ (\E o \in Outcome("redis") \ {"ok"} : Pop(o)) /\ ready # <<>> /\ j = Head(ready)
    \/ Crash /\ Held(j)
    \/ CallRaises /\ hand = j /\ pc \in OutsideTry
    \/ OkStore("ok") /\ hand = j /\ job.wjob = 0

\* Where the job in hand is to be found once the scheduler lets go of it, and
\* where those are that a sync has read.
ToBeFound ==
    /\ pc \in {"ok_hdel", "ok_save", "ok_store"} => job.worker # NoWorker
    /\ pc = "ok_store" => jobs[hand] = job
    /\ pc \in {"sync_save", "failed_save"} => job.state \in Terminal
    /\ pc = "sync_save" => OnWorker(jobs[hand])
    /\ pc = "fail_store" => Ticketed(hand) \/ jobs[hand].state \in Terminal
    /\ pc = "sync_store" => jobs[hand].state \in Terminal
    /\ \A j \in DOMAIN snap : OnWorker(snap[j])

\* The steps of the scheduler task, the end and the start of the process; all
\* others leave the task's locals and the job in its hand alone.
TaskStep ==
    \/ \E o \in Outcome("redis") : RedisStep(o)
    \/ \E o \in Outcome("store") : StoreStep(o)
    \/ SyncStep \/ DispatchStep \/ Crash \/ Restart

LEMMA OtherSteps ==
    ASSUME Inv, [Next]_vars, ~TaskStep
    PROVE  /\ UNCHANGED localVars
           /\ hand \in Jobs => jobs'[hand] = jobs[hand]
<1>1. CASE Environment \/ SweepList \/ SweepStep \/ UNCHANGED vars
  BY <1>1 DEF Environment, TimePasses, CopyEnds, SweepList, SweepStep, SweepRead, SweepDrop,
              vars, queueVars, schedulerVars
<1>2. ASSUME NEW k \in Jobs, NEW o, EnqSave(k, o)
      PROVE  UNCHANGED localVars /\ (hand \in Jobs => jobs'[hand] = jobs[hand])
  <2>1. hand # k
    BY <1>2 DEF EnqSave, Enqueue, Inv, Consistent, OneTicket, Unpushed
  <2> QED
    BY <1>2, <2>1 DEF EnqSave, Enqueue, SaveJob, schedulerVars, Inv, TypeOK, QueueTypeOK
<1>3. CASE \E k \in Jobs : Submit(k) \/ EnqueueStep(k)
  BY <1>2, <1>3 DEF Submit, EnqueueStep, EnqPush, EnqIndex, EnqStore, Enqueue, queueVars,
                    schedulerVars
<1> QED
  BY <1>1, <1>3 DEF Next, SchedulerStep, TaskStep

\* The two ways back into the queue, and the first way in.
LEMMA PushTickets ==
    ASSUME Inv, NEW j \in Jobs, NEW o,
           (PushReady(j, o) /\ UNCHANGED delayed) \/ \E delay : Requeue(j, delay, o)
    PROVE  (Applied(o) => Ticketed(j)') /\ \A k \in Jobs : Ticketed(k) => Ticketed(k)'
<1>1. ready \in Seq(Jobs)
  BY DEF Inv, TypeOK, QueueTypeOK
<1>2. CASE ready' = Append(ready, j) /\ delayed' = delayed
  <2>1. \A x : Occurs(Append(ready, j), x) <=> Occurs(ready, x) \/ x = j
    BY <1>1, PushFacts
  <2> QED
    BY <1>2, <2>1 DEF Ticketed, InReady, Occurs
<1>3. CASE delayed' = delayed \cup {j} /\ ready' = ready
  BY <1>3 DEF Ticketed, InReady
<1>4. CASE ~Applied(o) /\ delayed' = delayed /\ ready' = ready
  BY <1>4 DEF Ticketed, InReady
<1> QED
  BY <1>2, <1>3, <1>4 DEF PushReady, Requeue, AddDelayed

\* RPOP takes the first id, and no other.
LEMMA PopLeaves ==
    ASSUME Inv, NEW o, Pop(o), NEW j \in Jobs, Ticketed(j)
    PROVE  Ticketed(j)' \/ (ready # <<>> /\ j = Head(ready))
<1>1. ready \in Seq(Jobs) /\ delayed' = delayed
  BY DEF Pop, Inv, TypeOK, QueueTypeOK
<1>2. CASE ready' = ready
  BY <1>1, <1>2 DEF Ticketed, InReady
<1>3. CASE ready # <<>> /\ ready' = Tail(ready)
  <2>1. ASSUME NEW i \in DOMAIN ready, i # 1
        PROVE  i - 1 \in DOMAIN Tail(ready) /\ Tail(ready)[i - 1] = ready[i]
    BY <1>1, <1>3, <2>1
  <2>2. Head(ready) = ready[1]
    BY <1>1, <1>3
  <2>3. \A i \in DOMAIN ready : i = 1 \/ \E k \in DOMAIN Tail(ready) : Tail(ready)[k] = ready[i]
    BY <2>1
  <2> QED
    BY <1>1, <1>3, <2>2, <2>3 DEF Ticketed, InReady
<1> QED
  BY <1>2, <1>3 DEF Pop, PopReady

\* Only pop_ready takes a ticket away: in hand, or it is lost.
LEMMA TicketStays ==
    ASSUME Inv, [Next]_vars, NEW j \in Jobs, Ticketed(j)
    PROVE  Ticketed(j)' \/ (pc = "rpop" /\ hand' = j) \/ Lost(j)
<1>1. UNCHANGED <<ready, delayed>> => Ticketed(j)'
  BY DEF Ticketed, InReady
<1>2. ASSUME NEW o \in Outcome("redis"), RedisStep(o)
      PROVE  Ticketed(j)' \/ (pc = "rpop" /\ hand' = j) \/ Lost(j)
  <2>1. CASE Release(o)
    BY <2>1, ReleaseEffect DEF Ticketed, InReady, Occurs
  <2>2. CASE Pop(o)
    <3>1. Ticketed(j)' \/ (ready # <<>> /\ j = Head(ready))
      BY <2>2, PopLeaves
    <3>2. CASE o = "ok" /\ ready # <<>>
      BY <2>2, <3>1, <3>2 DEF Pop, Raised
    <3> QED
      BY <2>2, <3>1, <3>2 DEF Lost
  <2>3. CASE WaitPush(o) \/ RequeuePush(o)
    <3>1. hand \in Jobs /\ \E delay : Requeue(hand, delay, o)
      BY <2>3, HoldsJob DEF WaitPush, RequeuePush, IdleLabel, GetLabel
    <3> QED
      BY <3>1, PushTickets
  <2>4. CASE ~(Release(o) \/ Pop(o) \/ WaitPush(o) \/ RequeuePush(o))
    BY <1>1, <1>2, <2>4
       DEF RedisStep, SyncSave, Get, WaitSave, MarkActive, MarkSave, OkHdel, OkSave, FailHdel,
           FailSave, RequeueSave, FailedSave, queueVars
  <2> QED
    BY <2>1, <2>2, <2>3, <2>4
<1>3. ASSUME NEW o, StoreStep(o)
      PROVE  UNCHANGED <<ready, delayed>>
  BY <1>3 DEF StoreStep, SyncStore, MarkStore, OkStore, FailStore, queueVars
<1>4. CASE SyncStep \/ DispatchStep \/ Environment \/ Crash \/ Restart
  BY <1>1, <1>4
     DEF SyncStep, SyncSkip, SyncList, SyncDone, ProbeEnded, ProbeKeep, ProbeTimeout,
         DispatchStep, SelectNone, SelectWorker, PostAccepted, PostRetried, PostFailed,
         Environment, TimePasses, CopyEnds, Crash, Restart, queueVars
<1>5. ASSUME NEW k \in Jobs, Submit(k) \/ EnqueueStep(k)
      PROVE  Ticketed(j)'
  <2>1. ASSUME NEW o, EnqPush(k, o)
        PROVE  Ticketed(j)'
    BY <2>1, PushTickets DEF EnqPush
  <2> QED
    BY <1>1, <1>5, <2>1 DEF Submit, EnqueueStep, EnqSave, EnqIndex, EnqStore, queueVars
<1>6. CASE SweepList \/ SweepStep \/ UNCHANGED vars
  BY <1>1, <1>6 DEF SweepList, SweepStep, SweepRead, SweepDrop, vars, queueVars
<1>7. CASE SchedulerStep
  BY <1>1, <1>2, <1>3, <1>4, <1>7 DEF SchedulerStep
<1> QED
  BY <1>4, <1>5, <1>6, <1>7 DEF Next

\* The scheduler lets go of a job only when it can be found elsewhere, or it
\* loses it.
LEMMA LetGo ==
    ASSUME Inv, ToBeFound, [Next]_vars, NEW j \in Jobs, hand = j, hand' # j
    PROVE  Ticketed(j)' \/ OnWorker(jobs'[j]) \/ jobs'[j].state \in Terminal \/ Lost(j)
<1>1. pc \notin IdleLabel
  BY DEF Inv, Consistent, LocalsOK
<1>2. ASSUME NEW o \in Outcome("redis"), RedisStep(o)
      PROVE  Ticketed(j)' \/ OnWorker(jobs'[j]) \/ jobs'[j].state \in Terminal \/ Lost(j)
  <2>1. CASE Get(o)
    <3>1. jobs[j] # Absent
      BY <2>1 DEF Get, Inv, Consistent, StoredOK, Absent, NewJob, Waiting
    <3>2. Raised(o) /\ pc = "get"
      BY <2>1, <3>1 DEF Get, Await
    <3> QED
      BY <1>2, <3>2 DEF Lost, CallRaises, OutsideTry, Raised
  <2>2. CASE WaitPush(o)
    <3>1. Applied(o) => Ticketed(j)'
      BY <2>2, PushTickets DEF WaitPush
    <3> QED
      BY <1>2, <2>2, <3>1 DEF WaitPush, Lost, CallRaises, OutsideTry, Applied
  <2>3. CASE SyncSave(o)
    <3>1. jobs'[j] = jobs[j] \/ jobs'[j] = job
      BY <2>3, SaveEffect DEF SyncSave, IdleLabel, GetLabel
    <3> QED
      BY <2>3, <3>1 DEF SyncSave, ToBeFound
  <2>4. CASE \/ WaitSave(o) \/ MarkActive(o) \/ MarkSave(o) \/ FailHdel(o) \/ FailSave(o)
             \/ RequeueSave(o) \/ RequeuePush(o) \/ FailedSave(o)
    <3>1. Raised(o) /\ pc \in OutsideTry
      BY <2>4 DEF WaitSave, MarkActive, MarkSave, FailHdel, FailSave, RequeueSave, RequeuePush,
                  FailedSave, Await, OutsideTry
    <3> QED
      BY <1>2, <3>1 DEF Lost, CallRaises, Raised
  <2>5. ~Release(o) /\ ~Pop(o) /\ ~OkHdel(o) /\ ~OkSave(o)
    BY <1>1 DEF Release, Pop, OkHdel, OkSave, Await, DispatchFailed, IdleLabel
  <2> QED
    BY <1>2, <2>1, <2>2, <2>3, <2>4, <2>5 DEF RedisStep
<1>3. ASSUME NEW o \in Outcome("store"), StoreStep(o)
      PROVE  Ticketed(j)' \/ OnWorker(jobs'[j]) \/ jobs'[j].state \in Terminal \/ Lost(j)
  <2>1. CASE SyncStore(o)
    BY <2>1 DEF SyncStore, queueVars, ToBeFound
  <2>2. CASE MarkStore(o)
    BY <1>3, <2>2 DEF MarkStore, Lost, CallRaises, OutsideTry, Raised
  <2>3. CASE OkStore(o)
    <3>1. o = "ok" /\ UNCHANGED jobs
      BY <2>3 DEF OkStore, DispatchFailed, Raised, queueVars
    <3>2. jobs[j] = job /\ job.worker # NoWorker /\ job.state = "PROCESSING"
      BY <2>3 DEF OkStore, ToBeFound, Inv, Consistent, JobStateOK
    <3> QED
      BY <2>3, <3>1, <3>2 DEF OnWorker, Lost
  <2>4. CASE FailStore(o)
    BY <2>4 DEF FailStore, queueVars, ToBeFound, Ticketed, InReady
  <2> QED
    BY <1>3, <2>1, <2>2, <2>3, <2>4 DEF StoreStep
<1>4. ~SyncStep /\ ~Restart
  BY <1>1 DEF SyncStep, SyncSkip, SyncList, SyncDone, ProbeEnded, ProbeKeep, ProbeTimeout,
              Unfinished, Restart, Await, IdleLabel
<1>5. ~DispatchStep
  BY DEF DispatchStep, SelectNone, SelectWorker, PostAccepted, PostRetried, PostFailed, Await,
         DispatchFailed
<1>6. CASE Crash
  BY <1>6 DEF Crash, queueVars, Lost, Held, ToBeFound, Terminal, Ticketed, InReady
<1> QED
  BY <1>2, <1>3, <1>4, <1>5, <1>6, OtherSteps DEF TaskStep, localVars

\* A job in sight stays in sight, or it is lost.
LEMMA SightStays ==
    ASSUME Inv, ToBeFound, [Next]_vars, NEW j \in Jobs, InSight(j)
    PROVE  InSight(j)' \/ Lost(j)
<1>1. CASE Ticketed(j)
  BY <1>1, TicketStays DEF InSight
<1>2. CASE hand = j
  BY <1>2, LetGo DEF InSight
<1>3. CASE hand # j /\ OnWorker(jobs[j])
  <2>1. enq[j] # "save"
    BY <1>3 DEF OnWorker, Inv, Consistent, RequestsOK, Absent, NewJob
  <2>2. jobs'[j] = jobs[j]
    BY <1>3, <2>1, StoredTurns
  <2> QED
    BY <1>3, <2>2 DEF InSight
<1>4. CASE jobs[j].state \in Terminal
  BY <1>4, NextKeepsEnds DEF EndsKept, InSight
<1> QED
  BY <1>1, <1>2, <1>3, <1>4 DEF InSight

\* The jobs a sync has read stay where a sync finds them.
LEMMA NextSnap ==
    ASSUME Inv, ToBeFound, [Next]_vars
    PROVE  \A j \in DOMAIN snap' : OnWorker(snap'[j])
<1>1. CASE SyncList
  BY <1>1 DEF SyncList, SyncSet, OnWorker
<1>2. ASSUME NEW k \in Jobs, ProbeEnded(k) \/ ProbeKeep(k) \/ ProbeTimeout(k)
      PROVE  \A j \in DOMAIN snap' : OnWorker(snap'[j])
  BY <1>2 DEF ProbeEnded, ProbeKeep, ProbeTimeout, ToBeFound
<1>3. ASSUME UNCHANGED snap \/ snap' = EmptySnap
      PROVE  \A j \in DOMAIN snap' : OnWorker(snap'[j])
  BY <1>3 DEF ToBeFound, EmptySnap
<1>4. ASSUME NEW o, RedisStep(o) \/ StoreStep(o)
      PROVE  UNCHANGED snap \/ snap' = EmptySnap
  BY <1>4 DEF RedisStep, StoreStep, SyncSave, Release, Pop, Get, WaitSave, WaitPush, MarkActive,
              MarkSave, OkHdel, OkSave, FailHdel, FailSave, RequeueSave, RequeuePush, FailedSave,
              SyncStore, MarkStore, OkStore, FailStore, Await, LoopTop, DispatchFailed
<1>5. SyncSkip \/ SyncDone \/ DispatchStep \/ Crash \/ Restart
          => UNCHANGED snap \/ snap' = EmptySnap
  BY DEF SyncSkip, SyncDone, DispatchStep, SelectNone, SelectWorker, PostAccepted, PostRetried,
         PostFailed, Await, DispatchFailed, Crash, Restart
<1>6. ~TaskStep => UNCHANGED snap
  BY OtherSteps DEF localVars
<1> QED
  BY <1>1, <1>2, <1>3, <1>4, <1>5, <1>6 DEF TaskStep, SyncStep

\* Where the job in hand is to be found is known wherever the scheduler goes on
\* with the same job object.
LEMMA NextToBeFound ==
    ASSUME Inv, ToBeFound, [Next]_vars
    PROVE  ToBeFound'
<1> DEFINE Bound == {"ok_hdel", "ok_save", "ok_store", "failed_save", "fail_store", "sync_save",
                     "sync_store"}
<1>1. CASE pc' \notin Bound
  BY <1>1, NextSnap DEF ToBeFound
<1>2. CASE ~TaskStep
  <2>1. UNCHANGED <<pc, hand, job>> /\ (hand \in Jobs => jobs'[hand] = jobs[hand])
    BY <1>2, OtherSteps DEF localVars
  <2>2. pc \in Bound => hand \in Jobs
    BY HoldsJob DEF IdleLabel, GetLabel
  <2>3. pc = "fail_store" /\ Ticketed(hand) => Ticketed(hand)'
    <3>1. ASSUME NEW j \in Jobs, j = hand, pc = "fail_store", Ticketed(j)
          PROVE  Ticketed(j)'
      <4>1. ~\E o \in Outcome("redis") : Pop(o)
        BY <3>1 DEF Pop
      <4>2. ~(Crash /\ Held(j)) /\ ~(pc \in OutsideTry) /\ ~OkStore("ok")
        BY <3>1 DEF Held, OutsideTry, OkStore
      <4>3. ~Lost(j)
        BY <4>1, <4>2 DEF Lost
      <4> QED
        BY <3>1, <4>3, TicketStays
    <3> QED
      BY <2>1, <2>2, <3>1 DEF Ticketed, InReady
  <2> QED
    BY <2>1, <2>2, <2>3, NextSnap DEF ToBeFound
<1>3. CASE PostAccepted
  <2>1. job \in JobRecord /\ job.worker # NoWorker
    BY <1>3, HoldsJob DEF PostAccepted, IdleLabel, GetLabel, Inv, Consistent, JobStateOK
  <2>2. job'.worker = job.worker /\ pc' = "ok_hdel"
    BY <1>3, <2>1 DEF PostAccepted, JobRecord
  <2> QED
    BY <2>1, <2>2, NextSnap DEF ToBeFound
<1>4. ASSUME NEW o, OkHdel(o)
      PROVE  ToBeFound'
  <2>1. pc' = "fail_hdel" \/ (pc' = "ok_save" /\ job' = job)
    BY <1>4 DEF OkHdel, Await, DispatchFailed
  <2> QED
    BY <1>4, <2>1, NextSnap DEF OkHdel, ToBeFound
<1>5. ASSUME NEW o, OkSave(o)
      PROVE  ToBeFound'
  <2>1. hand \in Jobs /\ (Applied(o) => jobs'[hand] = job)
    BY <1>5, HoldsJob, SaveEffect DEF OkSave, IdleLabel, GetLabel
  <2>2. pc' = "fail_hdel" \/ (~Raised(o) /\ pc' = "ok_store" /\ job' = job /\ hand' = hand)
    BY <1>5 DEF OkSave, Await, DispatchFailed
  <2> QED
    BY <1>5, <2>1, <2>2, NextSnap DEF OkSave, ToBeFound, Raised, Applied
<1>6. ASSUME NEW o, FailSave(o)
      PROVE  ToBeFound'
  <2>1. pc' = "failed_save" => job'.state = "FAILED"
    BY <1>6, FailSaveEffect DEF FailSave, LoopTop, Await
  <2>2. pc' \in {"sync", "requeue_save", "failed_save"}
    BY <1>6 DEF FailSave, Await, LoopTop
  <2> QED
    BY <2>1, <2>2, NextSnap DEF ToBeFound, Terminal
<1>7. ASSUME NEW o, SyncSave(o) \/ FailedSave(o)
      PROVE  ToBeFound'
  <2>1. hand \in Jobs /\ (Applied(o) => jobs'[hand] = job) /\ job.state \in Terminal
    BY <1>7, HoldsJob, SaveEffect DEF SyncSave, FailedSave, IdleLabel, GetLabel, ToBeFound
  <2>2. \/ pc' = "sync"
        \/ ~Raised(o) /\ hand' = hand /\ pc' \in {"sync_store", "fail_store"}
    BY <1>7 DEF SyncSave, FailedSave, Await, LoopTop
  <2> QED
    BY <2>1, <2>2, NextSnap DEF ToBeFound, Raised, Applied
<1>8. ASSUME NEW o, RequeuePush(o)
      PROVE  ToBeFound'
  <2>1. hand \in Jobs /\ Requeue(hand, RetryDelay, o)
    BY <1>8, HoldsJob DEF RequeuePush, IdleLabel, GetLabel
  <2>2. pc' = "sync" \/ (~Raised(o) /\ hand' = hand /\ pc' = "fail_store")
    BY <1>8 DEF RequeuePush, Await, LoopTop
  <2>3. ASSUME NEW j \in Jobs, j = hand, Applied(o)
        PROVE  Ticketed(j)'
    BY <2>1, <2>3, PushTickets
  <2>4. Applied(o) /\ hand' = hand => Ticketed(hand)'
    BY <2>1, <2>3 DEF Ticketed, InReady
  <2> QED
    BY <2>2, <2>4, NextSnap DEF ToBeFound, Raised, Applied
<1>9. ASSUME NEW j \in Jobs, ProbeEnded(j) \/ ProbeTimeout(j)
      PROVE  ToBeFound'
  <2>1. job'.state \in Terminal /\ jobs[j] = snap[j]
    BY <1>9, ProbeEffect
  <2>2. j \in DOMAIN snap /\ hand' = j /\ pc' = "sync_save" /\ jobs' = jobs
    BY <1>9 DEF ProbeEnded, ProbeTimeout, Unfinished, queueVars
  <2>3. OnWorker(jobs'[hand'])
    BY <2>1, <2>2 DEF ToBeFound
  <2> QED
    BY <2>1, <2>2, <2>3, NextSnap DEF ToBeFound
<1>10. ASSUME NEW o, RedisStep(o) \/ StoreStep(o)
       PROVE  \/ pc' \notin Bound
              \/ OkHdel(o) \/ OkSave(o) \/ FailSave(o) \/ SyncSave(o) \/ FailedSave(o)
              \/ RequeuePush(o)
  BY <1>10 DEF RedisStep, StoreStep, Release, Pop, Get, WaitSave, WaitPush, MarkActive, MarkSave,
               FailHdel, RequeueSave, SyncStore, MarkStore, OkStore, FailStore, LoopTop, Await,
               DispatchFailed
<1>11. SyncStep \/ DispatchStep \/ Crash \/ Restart =>
           pc' \notin Bound \/ PostAccepted \/ \E j \in Jobs : ProbeEnded(j) \/ ProbeTimeout(j)
  BY DEF SyncStep, SyncSkip, SyncList, SyncDone, ProbeKeep, Unfinished, DispatchStep, SelectNone,
         SelectWorker, PostRetried, PostFailed, DispatchFailed, Await, Crash, Restart
<1> QED
  BY <1>1, <1>2, <1>3, <1>4, <1>5, <1>6, <1>7, <1>8, <1>9, <1>10, <1>11 DEF TaskStep

\* Whatever fails, a job gets out of sight by one of the four steps that
\* LossIsNamed names, and by no other.
THEOREM LossesAreNamed == Spec => LossIsNamed
<1>1. Init => ToBeFound
  BY DEF Init, QueueInit, SchedulerInit, ToBeFound, EmptySnap
<1>2. Inv /\ ToBeFound /\ [Next]_vars => ToBeFound'
  BY NextToBeFound
<1>3. Inv /\ ToBeFound /\ [Next]_vars
          => [\A j \in Jobs : InSight(j) /\ ~InSight(j)' =>
                  \/ (\E o \in Outcome("redis") \ {"ok"} : Pop(o)) /\ ready # <<>> /\ j = Head(ready)
                  \/ Crash /\ Held(j)
                  \/ CallRaises /\ hand = j /\ pc \in OutsideTry
                  \/ OkStore("ok") /\ hand = j /\ job.wjob = 0]_vars
  BY SightStays DEF Lost
<1> QED
  BY <1>1, <1>2, <1>3, Invariance, PTL DEF Spec, LossIsNamed

-----------------------------------------------------------------------------
(* None of the four happens while nothing but workers fails: from the push *)
(* of its id on, a job is in the queue, in hand, on a worker, or finished. *)

Reliable == Events \cap {"redis", "store", "no_id", "crash"} = {}

\* The worker has named the local job it created.
Named == pc \in {"ok_hdel", "ok_save", "ok_store"} => job.wjob # 0

SightInv ==
    /\ \A j \in Jobs : ~Unpushed(j) => InSight(j)
    /\ \A j \in jobIds : ~Unpushed(j)
    /\ ToBeFound
    /\ Named

LEMMA ReliableOutcomes ==
    ASSUME Reliable
    PROVE  Outcome("redis") = {"ok"} /\ Outcome("store") = {"ok"} /\ ~Crash
  BY DEF Reliable, Outcome, Crash

LEMMA NextNamed ==
    ASSUME Inv, Reliable, Named, [Next]_vars
    PROVE  Named'
<1> DEFINE Bound == {"ok_hdel", "ok_save", "ok_store"}
<1>1. CASE UNCHANGED <<pc, job>> \/ pc' \notin Bound
  BY <1>1 DEF Named
<1>2. CASE PostAccepted
  <2>1. job \in JobRecord /\ copies \in [Jobs -> Seq(Copy)] /\ hand \in Jobs
    BY <1>2, HoldsJob DEF PostAccepted, IdleLabel, GetLabel, Inv, TypeOK, SchedulerTypeOK
  <2>2. Len(copies[hand]) + 1 \in Nat \ {0}
    BY <2>1
  <2>3. job'.wjob = Len(copies[hand]) + 1
    BY <1>2, <2>1, <2>2 DEF PostAccepted, Reliable, JobRecord
  <2> QED
    BY <2>2, <2>3 DEF Named
<1>3. ASSUME NEW o, RedisStep(o) \/ StoreStep(o)
      PROVE  pc' \notin Bound \/ (pc \in Bound /\ job' = job)
  BY <1>3 DEF RedisStep, StoreStep, SyncSave, Release, Pop, Get, WaitSave, WaitPush, MarkActive,
              MarkSave, OkHdel, OkSave, FailHdel, FailSave, RequeueSave, RequeuePush, FailedSave,
              SyncStore, MarkStore, OkStore, FailStore, LoopTop, Await, DispatchFailed
<1>4. SyncStep \/ DispatchStep \/ Restart =>
          pc' \notin Bound \/ PostAccepted \/ UNCHANGED <<pc, job>>
  BY DEF SyncStep, SyncSkip, SyncList, SyncDone, ProbeEnded, ProbeKeep, ProbeTimeout,
         DispatchStep, SelectNone, SelectWorker, PostRetried, PostFailed, DispatchFailed, Await,
         Restart
<1> QED
  BY <1>1, <1>2, <1>3, <1>4, ReliableOutcomes, OtherSteps DEF TaskStep, localVars, Named

LEMMA NothingLost ==
    ASSUME Reliable, Named, NEW j \in Jobs
    PROVE  ~Lost(j)
  BY ReliableOutcomes DEF Lost, CallRaises, OkStore, Named

\* A request that has pushed its id has put the job in sight, and only then is
\* the id indexed.
LEMMA PushedInSight ==
    ASSUME Inv, Reliable, SightInv, [Next]_vars
    PROVE  /\ \A j \in Jobs : ~Unpushed(j)' => InSight(j)'
           /\ \A j \in jobIds' : ~Unpushed(j)'
<1>1. ASSUME NEW j \in Jobs
      PROVE  /\ Unpushed(j) /\ ~Unpushed(j)' => EnqPush(j, "ok")
             /\ ~Unpushed(j) => ~Unpushed(j)'
  <2>1. ASSUME NEW k \in Jobs, Submit(k) \/ EnqueueStep(k)
        PROVE  /\ Unpushed(j) /\ ~Unpushed(j)' => EnqPush(j, "ok")
               /\ ~Unpushed(j) => ~Unpushed(j)'
    BY <2>1, ReliableOutcomes
       DEF Submit, EnqueueStep, EnqSave, EnqPush, EnqIndex, EnqStore, Enqueue, Raised, Unpushed,
           Inv, TypeOK
  <2>2. CASE enq' = enq
    BY <2>2 DEF Unpushed
  <2> QED
    BY <2>1, <2>2, ReliableOutcomes
       DEF Next, SweepList, SweepStep, SweepRead, SweepDrop, Restart, requestVars, vars
<1>2. ASSUME NEW j \in Jobs, EnqPush(j, "ok")
      PROVE  InSight(j)'
  BY <1>2, PushTickets DEF EnqPush, InSight, Applied
<1>3. ASSUME NEW j \in Jobs, ~Unpushed(j)
      PROVE  InSight(j)'
  BY <1>3, SightStays, NothingLost DEF SightInv
<1>4. jobIds \subseteq Jobs /\ \A j \in jobIds' \ jobIds : EnqIndex(j, "ok")
  <2>1. jobIds \subseteq Jobs
    BY DEF Inv, TypeOK, QueueTypeOK
  <2>2. ASSUME NEW o, RedisStep(o) \/ StoreStep(o)
        PROVE  UNCHANGED jobIds
    BY <2>2
       DEF RedisStep, StoreStep, SyncSave, Release, Pop, Get, WaitSave, WaitPush, MarkActive,
           MarkSave, OkHdel, OkSave, FailHdel, FailSave, RequeueSave, RequeuePush, FailedSave,
           SyncStore, MarkStore, OkStore, FailStore, queueVars
  <2>3. SyncStep \/ DispatchStep \/ Environment => UNCHANGED jobIds
    BY DEF SyncStep, SyncSkip, SyncList, SyncDone, ProbeEnded, ProbeKeep, ProbeTimeout,
           DispatchStep, SelectNone, SelectWorker, PostAccepted, PostRetried, PostFailed,
           Environment, TimePasses, CopyEnds, queueVars
  <2>4. ASSUME NEW k \in Jobs, Submit(k) \/ EnqueueStep(k)
        PROVE  \A j \in jobIds' \ jobIds : EnqIndex(j, "ok")
    BY <2>4, ReliableOutcomes
       DEF Submit, EnqueueStep, EnqSave, EnqPush, EnqIndex, EnqStore, IndexJob, Applied, queueVars
  <2>5. SweepList \/ SweepStep \/ Restart \/ UNCHANGED vars => UNCHANGED jobIds
    BY DEF SweepList, SweepStep, SweepRead, SweepDrop, Restart, vars, queueVars
  <2>6. SchedulerStep => UNCHANGED jobIds
    BY <2>2, <2>3 DEF SchedulerStep
  <2> QED
    BY <2>1, <2>3, <2>4, <2>5, <2>6, ReliableOutcomes DEF Next
<1>5. ASSUME NEW j \in jobIds'
      PROVE  j \in Jobs /\ ~Unpushed(j)
  <2>1. j \in Jobs
    BY <1>5, NextKeeps DEF Inv, TypeOK, QueueTypeOK
  <2>2. EnqIndex(j, "ok") => enq[j] = "index"
    BY DEF EnqIndex, Enqueue
  <2> QED
    BY <1>4, <1>5, <2>1, <2>2 DEF SightInv, Unpushed
<1> QED
  BY <1>1, <1>2, <1>3, <1>5

\* While nothing but workers fails, to any extent and in any order, no job that
\* is indexed is lost: it is in the queue, in hand, on a worker, or finished.
THEOREM NoJobIsLost == Reliable => (Spec => []Accounted)
<1> SUFFICES ASSUME Reliable PROVE Spec => []Accounted
  OBVIOUS
<1>1. Init => SightInv
  BY DEF Init, QueueInit, SchedulerInit, SightInv, Unpushed, ToBeFound, Named, EmptySnap
<1>2. Inv /\ SightInv /\ [Next]_vars => SightInv'
  BY PushedInSight, NextToBeFound, NextNamed DEF SightInv
<1>3. Inv /\ SightInv => Accounted
  BY DEF SightInv, Accounted, Inv, TypeOK, QueueTypeOK
<1> QED
  BY <1>1, <1>2, <1>3, Invariance, PTL DEF Spec

=============================================================================
