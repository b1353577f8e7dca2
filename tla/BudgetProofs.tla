----------------------------- MODULE BudgetProofs -----------------------------
(***************************************************************************)
(* The dispatch budget of Orchestrator, for every retry limit and number   *)
(* of request attempts: no sequence of lost replies, failed writes and     *)
(* crashes makes the workers run a job more often than the budget allows.  *)
(* And the life cycle: Orchestrator implements JobLifecycle.               *)
(*                                                                         *)
(* DispatchBudget is not inductive.  What carries it is that a waiting job *)
(* has not used more than its counted retries pay for, and that the        *)
(* scheduler's object of the job in hand counts at least as much, from the *)
(* moment the job is loaded until its failed attempt is stored.  The life  *)
(* cycle needs more: how far the count and the state in hand are ahead of  *)
(* the stored ones at each label.                                          *)
(***************************************************************************)
EXTENDS OrchestratorProofs

USE QueueAssumption, SchedulerAssumption DEF Jobs, NoJob

\* The local jobs that n dispatches may create, and those that job j has.
Budget(n) == PostAttempts * n

Spent(j) == Len(copies[j])

\* Job j may be dispatched again after n failures.
Within(j, n) == n <= MaxRetries /\ Spent(j) <= Budget(n)

StoredWithin ==
    \A j \in Jobs :
        /\ Spent(j) <= Budget(MaxRetries + 1)
        /\ jobs[j].state \in Waiting => Within(j, jobs[j].retries)
        /\ jobs[j] = Absent => Spent(j) = 0

HeldWithin ==
    /\ pc \in {"select", "wait_save", "mark_active", "mark_save", "mark_store", "requeue_save"} =>
           Within(hand, job.retries)
    /\ pc = "post" =>
           job.retries <= MaxRetries /\ Spent(hand) < Budget(job.retries) + attempt
    /\ pc \in {"ok_hdel", "ok_save", "ok_store"} =>
           job.retries <= MaxRetries /\ Spent(hand) <= Budget(job.retries + 1)
    /\ pc \in {"fail_hdel", "fail_save"} => Spent(hand) <= Budget(job.retries)
    /\ pc = "sync_save" => job.state \in Terminal
    /\ pc = "failed_save" => job.state = "FAILED"

BudgetInv == Inv /\ StoredWithin /\ HeldWithin

-----------------------------------------------------------------------------
(* Arithmetic of the budget, and what a step leaves of it.                 *)

\* A dispatch more is paid for by PostAttempts local jobs more.
LEMMA BudgetGrows ==
    ASSUME NEW n \in Nat
    PROVE  Budget(n) \in Nat /\ Budget(n + 1) = Budget(n) + PostAttempts
  BY DEF Budget

\* More failures pay for more.
LEMMA BudgetMonotonic ==
    ASSUME NEW m \in Nat, NEW n \in Nat, m <= n
    PROVE  Budget(m) <= Budget(n)
<1>1. PICK k \in Nat : n = m + k
  <2>1. n - m \in Nat /\ n = m + (n - m)
    OBVIOUS
  <2> QED
    BY <2>1
<1>2. PostAttempts * k \in Nat /\ Budget(n) = Budget(m) + PostAttempts * k
  BY <1>1 DEF Budget
<1> QED
  BY <1>2, BudgetGrows

\* Nothing is paid for at first.
LEMMA BudgetZero == Budget(0) = 0
  BY DEF Budget

\* The number of local jobs is a number.
LEMMA SpentType ==
    ASSUME Inv, NEW j \in Jobs
    PROVE  Spent(j) \in Nat
  BY DEF Spent, Inv, TypeOK, SchedulerTypeOK

\* A step that writes no job and creates no local job.
LEMMA StoredKept ==
    ASSUME StoredWithin, UNCHANGED <<jobs, copies>>
    PROVE  StoredWithin' /\ \A j : Spent(j)' = Spent(j)
  BY DEF StoredWithin, Within, Spent

\* A save of the job in hand, if it is waiting only within the budget.
LEMMA SaveWithin ==
    ASSUME BudgetInv, pc \notin IdleLabel \cup GetLabel, NEW o, SaveJob(hand, job, o),
           UNCHANGED copies, job.state \in Waiting => Within(hand, job.retries)
    PROVE  StoredWithin' /\ \A j : Spent(j)' = Spent(j)
<1>1. /\ \A k \in Jobs : k # hand => jobs'[k] = jobs[k]
      /\ jobs'[hand] = jobs[hand] \/ jobs'[hand] = job
  BY SaveEffect DEF BudgetInv
<1>2. job # Absent /\ hand \in Jobs
  BY HoldsJob, RecordFields DEF BudgetInv
<1>3. \A j : Spent(j)' = Spent(j)
  BY DEF Spent
<1>4. \A j, n : Within(j, n)' <=> Within(j, n)
  BY <1>3 DEF Within
<1> QED
  BY <1>1, <1>2, <1>3, <1>4 DEF BudgetInv, StoredWithin, Within

-----------------------------------------------------------------------------
(* The steps of the scheduler.                                             *)

\* The labels at which nothing is claimed of the job in hand.
Unclaimed == IdleLabel \cup {"get", "wait_push", "requeue_push", "sync_store", "fail_store"}

\* Back at the top of the loop nothing is held.
LEMMA UnclaimedWithin ==
    ASSUME pc' \in Unclaimed
    PROVE  HeldWithin'
  BY DEF Unclaimed, IdleLabel, HeldWithin

\* Steps between the calls on one job.
LEMMA BetweenJobsWithin ==
    ASSUME BudgetInv, NEW o,
           \/ SyncSkip \/ SyncList \/ SyncDone \/ \E j \in Jobs : ProbeKeep(j)
           \/ Release(o) \/ Pop(o) \/ WaitPush(o) \/ RequeuePush(o)
           \/ SyncStore(o) \/ FailStore(o)
    PROVE  StoredWithin' /\ HeldWithin'
<1>1. UNCHANGED <<jobs, copies>>
  BY DEF SyncSkip, SyncList, SyncDone, ProbeKeep, Release, Pop, WaitPush, RequeuePush,
         SyncStore, FailStore, queueVars
<1>2. pc' \in Unclaimed
  BY DEF SyncSkip, SyncList, SyncDone, ProbeKeep, Unfinished, Release, Pop, WaitPush,
         RequeuePush, SyncStore, FailStore, LoopTop, Await, Unclaimed, IdleLabel
<1> QED
  BY <1>1, <1>2, StoredKept, UnclaimedWithin DEF BudgetInv

\* The sync takes up a job to store its end.
LEMMA ProbeWithin ==
    ASSUME BudgetInv, NEW j \in Jobs, ProbeEnded(j) \/ ProbeTimeout(j)
    PROVE  StoredWithin' /\ HeldWithin'
<1>1. UNCHANGED <<jobs, copies>> /\ pc' = "sync_save"
  BY DEF ProbeEnded, ProbeTimeout, queueVars
<1>2. job'.state \in Terminal
  BY ProbeEffect DEF BudgetInv
<1> QED
  BY <1>1, <1>2, StoredKept DEF BudgetInv, HeldWithin

\* A waiting job is loaded with the budget it was stored with.
LEMMA GetWithin ==
    ASSUME BudgetInv, NEW o, Get(o)
    PROVE  StoredWithin' /\ HeldWithin'
<1>1. UNCHANGED <<jobs, copies>> /\ pc = "get"
  BY DEF Get, queueVars
<1>2. StoredWithin' /\ \A j : Spent(j)' = Spent(j)
  BY <1>1, StoredKept DEF BudgetInv
<1>3. CASE pc' = "sync"
  BY <1>2, <1>3, UnclaimedWithin DEF Unclaimed, IdleLabel
<1>4. CASE pc' = "select" /\ job' = jobs[hand] /\ hand' = hand
  <2>1. hand \in Jobs /\ jobs[hand].state \in Waiting
    BY <1>1 DEF BudgetInv, Inv, Consistent, LocalsOK, StoredOK, IdleLabel
  <2>2. Within(hand, jobs[hand].retries)
    BY <2>1 DEF BudgetInv, StoredWithin
  <2>3. Within(hand, job.retries)'
    BY <1>2, <1>4, <2>2 DEF Within
  <2> QED
    BY <1>2, <1>4, <2>3 DEF HeldWithin
<1> QED
  BY <1>3, <1>4 DEF Get, LoopTop, Await

\* Until the request is sent the object in hand keeps its count.
LEMMA BeforePostWithin ==
    ASSUME BudgetInv, NEW o,
           SelectNone \/ (\E w \in Workers : SelectWorker(w)) \/ MarkActive(o)
    PROVE  StoredWithin' /\ HeldWithin'
<1>1. UNCHANGED <<jobs, copies>> /\ pc \in {"select", "mark_active"}
  BY DEF SelectNone, SelectWorker, MarkActive, queueVars
<1>2. StoredWithin' /\ \A j : Spent(j)' = Spent(j)
  BY <1>1, StoredKept DEF BudgetInv
<1>3. CASE pc' = "sync"
  BY <1>2, <1>3, UnclaimedWithin DEF Unclaimed, IdleLabel
<1>4. CASE pc' \in {"wait_save", "mark_active", "mark_save"}
  <2>1. job \in JobRecord /\ Within(hand, job.retries)
    BY <1>1, HoldsJob DEF BudgetInv, HeldWithin, IdleLabel, GetLabel
  <2>2. hand' = hand /\ job'.retries = job.retries
    BY <1>4, <2>1 DEF SelectNone, SelectWorker, MarkActive, Await, LoopTop, JobRecord
  <2>3. Within(hand, job.retries)'
    BY <1>2, <2>1, <2>2 DEF Within
  <2> QED
    BY <1>2, <1>4, <2>3 DEF HeldWithin
<1> QED
  BY <1>3, <1>4 DEF SelectNone, SelectWorker, MarkActive, Await, LoopTop

\* The first attempt starts with nothing spent of it.
LEMMA MarkStoreWithin ==
    ASSUME BudgetInv, NEW o, MarkStore(o)
    PROVE  StoredWithin' /\ HeldWithin'
<1>1. UNCHANGED <<jobs, copies>> /\ pc = "mark_store"
  BY DEF MarkStore, queueVars
<1>2. StoredWithin' /\ \A j : Spent(j)' = Spent(j)
  BY <1>1, StoredKept DEF BudgetInv
<1>3. CASE pc' = "sync"
  BY <1>2, <1>3, UnclaimedWithin DEF Unclaimed, IdleLabel
<1>4. CASE pc' = "post" /\ attempt' = 1 /\ UNCHANGED <<hand, job>>
  <2>1. hand \in Jobs /\ job.retries \in Nat /\ Within(hand, job.retries)
    BY <1>1, HoldsJob, RecordFields DEF BudgetInv, HeldWithin, IdleLabel, GetLabel
  <2>2. Spent(hand) \in Nat /\ Budget(job.retries) \in Nat
    BY <2>1, SpentType, BudgetGrows DEF BudgetInv
  <2>3. Spent(hand) < Budget(job.retries) + 1
    BY <2>1, <2>2 DEF Within
  <2>4. Spent(hand)' = Spent(hand)
    BY <1>1, <1>4 DEF Spent
  <2>5. (job.retries <= MaxRetries /\ Spent(hand) < Budget(job.retries) + attempt)'
    BY <1>4, <2>1, <2>3, <2>4 DEF Within, Budget
  <2> QED
    BY <1>2, <1>4, <2>5 DEF HeldWithin
<1> QED
  BY <1>3, <1>4 DEF MarkStore, LoopTop

\* A request creates at most one local job, and only for the job in hand.
LEMMA TakeSpends ==
    ASSUME BudgetInv, pc = "post", WorkerMayTake, UNCHANGED hand
    PROVE  /\ \A j \in Jobs : j # hand => Spent(j)' = Spent(j)
           /\ Spent(hand)' <= Spent(hand) + 1
           /\ Spent(hand)' \in Nat
<1>1. hand \in Jobs /\ copies \in [Jobs -> Seq(Copy)] /\ copies' \in [Jobs -> Seq(Copy)]
  BY HoldsJob, TakeEffect DEF BudgetInv, Inv, TypeOK, SchedulerTypeOK, IdleLabel, GetLabel
<1>2. \A j \in Jobs : j # hand => copies'[j] = copies[j]
  BY <1>1 DEF WorkerMayTake, WorkerTakes
<1>3. \/ copies'[hand] = copies[hand]
      \/ \E c : copies'[hand] = Append(copies[hand], c)
  BY <1>1 DEF WorkerMayTake, WorkerTakes
<1>4. Len(copies'[hand]) \in Nat /\ Len(copies'[hand]) <= Len(copies[hand]) + 1
  <2>1. CASE copies'[hand] = copies[hand]
    <3>1. Len(copies[hand]) \in Nat
      BY <1>1, LenProperties
    <3> QED
      BY <2>1, <3>1
  <2>2. ASSUME NEW c, copies'[hand] = Append(copies[hand], c)
        PROVE  Len(copies'[hand]) \in Nat /\ Len(copies'[hand]) <= Len(copies[hand]) + 1
    <3>1. Len(copies[hand]) \in Nat /\ Len(Append(copies[hand], c)) = Len(copies[hand]) + 1
      BY <1>1, AppendProperties, LenProperties
    <3> QED
      BY <2>2, <3>1
  <2> QED
    BY <1>3, <2>1, <2>2
<1> QED
  BY <1>2, <1>4 DEF Spent

\* While the attempt that runs is one of the PostAttempts, the local job it may
\* create is paid for, by the budget of one dispatch more.
LEMMA TakeWithin ==
    ASSUME BudgetInv, pc = "post", WorkerMayTake, UNCHANGED <<jobs, hand>>
    PROVE  /\ StoredWithin'
           /\ job.retries \in Nat /\ job.retries <= MaxRetries
           /\ Spent(hand)' <= Budget(job.retries) + attempt
           /\ Spent(hand)' <= Budget(job.retries + 1)
<1>1. hand \in Jobs /\ job.retries \in Nat
  BY HoldsJob, RecordFields DEF BudgetInv, IdleLabel, GetLabel
<1>2. attempt \in Nat /\ attempt <= PostAttempts
  BY DEF BudgetInv, Inv, TypeOK, SchedulerTypeOK
<1>3. job.retries <= MaxRetries /\ Spent(hand) < Budget(job.retries) + attempt
  BY DEF BudgetInv, HeldWithin
<1>4. Spent(hand) \in Nat /\ Spent(hand)' \in Nat /\ Spent(hand)' <= Spent(hand) + 1
  BY <1>1, SpentType, TakeSpends DEF BudgetInv
<1>5. Budget(job.retries) \in Nat /\ Budget(job.retries + 1) = Budget(job.retries) + PostAttempts
  BY <1>1, BudgetGrows
<1>6. Spent(hand)' <= Budget(job.retries) + attempt /\ Spent(hand)' <= Budget(job.retries + 1)
  BY <1>2, <1>3, <1>4, <1>5
<1>7. Budget(job.retries + 1) <= Budget(MaxRetries + 1) /\ Budget(MaxRetries + 1) \in Nat
  <2>1. job.retries + 1 \in Nat /\ MaxRetries + 1 \in Nat
    BY <1>1
  <2>2. job.retries + 1 <= MaxRetries + 1
    BY <1>1, <1>3
  <2> QED
    BY <2>1, <2>2, BudgetMonotonic, BudgetGrows
<1>8. jobs[hand].state \notin Waiting /\ jobs[hand] # Absent
  BY DEF BudgetInv, Inv, Consistent, StoredOK, InAttempt, Waiting, Absent, NewJob
<1>9. StoredWithin'
  <2>1. Spent(hand)' <= Budget(MaxRetries + 1)
    BY <1>4, <1>5, <1>6, <1>7
  <2>2. \A j \in Jobs : j # hand => Spent(j)' = Spent(j)
    BY TakeSpends
  <2>3. \A n : Budget(n)' = Budget(n)
    BY DEF Budget
  <2>4. ASSUME NEW j \in Jobs, j # hand
        PROVE  /\ (Spent(j) <= Budget(MaxRetries + 1))'
               /\ (jobs[j].state \in Waiting => Within(j, jobs[j].retries))'
               /\ (jobs[j] = Absent => Spent(j) = 0)'
    BY <2>2, <2>3, <2>4 DEF BudgetInv, StoredWithin, Within
  <2>5. (Spent(hand) <= Budget(MaxRetries + 1))'
    BY <2>1, <2>3
  <2> QED
    BY <1>8, <2>4, <2>5 DEF StoredWithin
<1> QED
  BY <1>1, <1>3, <1>6, <1>9

\* The worker's reply, a failed attempt with attempts left, the last failure.
LEMMA PostWithin ==
    ASSUME BudgetInv, PostAccepted \/ PostRetried \/ PostFailed
    PROVE  StoredWithin' /\ HeldWithin'
<1>1. pc = "post" /\ WorkerMayTake /\ UNCHANGED jobs /\ hand' = hand
  BY DEF PostAccepted, PostRetried, PostFailed, DispatchFailed, WorkerMayTake, queueVars
<1>2. /\ StoredWithin' /\ job.retries \in Nat /\ job.retries <= MaxRetries
      /\ Spent(hand)' <= Budget(job.retries) + attempt
      /\ Spent(hand)' <= Budget(job.retries + 1)
  BY <1>1, TakeWithin
<1>3. job \in JobRecord /\ attempt \in Nat /\ Spent(hand)' \in Nat /\ Budget(job.retries) \in Nat
  <2>1. job \in JobRecord /\ attempt \in Nat
    BY <1>1, HoldsJob DEF BudgetInv, Inv, TypeOK, SchedulerTypeOK, IdleLabel, GetLabel
  <2>2. Spent(hand)' \in Nat /\ Budget(job.retries) \in Nat
    BY <1>1, <1>2, TakeSpends, BudgetGrows
  <2> QED
    BY <2>1, <2>2
<1>4. CASE PostAccepted
  <2>1. job'.retries = job.retries /\ pc' = "ok_hdel"
    BY <1>3, <1>4 DEF PostAccepted, JobRecord
  <2>2. (job.retries <= MaxRetries /\ Spent(hand) <= Budget(job.retries + 1))'
    BY <1>1, <1>2, <2>1 DEF Spent, Budget
  <2> QED
    BY <1>2, <2>1, <2>2 DEF HeldWithin
<1>5. CASE PostRetried
  <2>1. job' = job /\ pc' = "post" /\ attempt' = attempt + 1
    BY <1>1, <1>5 DEF PostRetried
  <2>2. Spent(hand)' < Budget(job.retries) + (attempt + 1)
    BY <1>2, <1>3
  <2>3. (job.retries <= MaxRetries /\ Spent(hand) < Budget(job.retries) + attempt)'
    BY <1>1, <1>2, <2>1, <2>2 DEF Spent, Budget
  <2> QED
    BY <1>2, <2>1, <2>3 DEF HeldWithin
<1>6. CASE PostFailed
  <2>1. job'.retries = job.retries + 1 /\ pc' = "fail_hdel"
    BY <1>1, <1>6, FailedEffect
       DEF PostFailed, DispatchFailed, BudgetInv, IdleLabel, GetLabel
  <2>2. (Spent(hand) <= Budget(job.retries))'
    BY <1>1, <1>2, <2>1 DEF Spent, Budget
  <2> QED
    BY <1>2, <2>1, <2>2 DEF HeldWithin
<1> QED
  BY <1>4, <1>5, <1>6

\* After the worker has accepted, a failed write counts the attempt: what was
\* spent on it is then paid for.
LEMMA FailedWithin ==
    ASSUME BudgetInv, pc \in {"ok_hdel", "ok_save", "ok_store"}, DispatchFailed,
           StoredWithin', \A j : Spent(j)' = Spent(j)
    PROVE  HeldWithin'
<1>1. job'.retries = job.retries + 1 /\ pc' = "fail_hdel" /\ hand' = hand
  BY FailedEffect DEF DispatchFailed, BudgetInv, IdleLabel, GetLabel
<1>2. Spent(hand) <= Budget(job.retries + 1)
  BY DEF BudgetInv, HeldWithin
<1>3. Len(copies'[hand]) = Len(copies[hand])
  BY <1>1 DEF Spent
<1>4. (Spent(hand) <= Budget(job.retries))'
  BY <1>1, <1>2, <1>3 DEF Spent, Budget
<1> QED
  BY <1>1, <1>4 DEF HeldWithin

\* The calls after acceptance.
LEMMA AcceptedWithin ==
    ASSUME BudgetInv, NEW o, OkHdel(o) \/ OkSave(o) \/ OkStore(o)
    PROVE  StoredWithin' /\ HeldWithin'
<1>1. pc \in {"ok_hdel", "ok_save", "ok_store"} /\ UNCHANGED copies
  BY DEF OkHdel, OkSave, OkStore, queueVars
<1>2. StoredWithin' /\ \A j : Spent(j)' = Spent(j)
  <2>1. CASE UNCHANGED jobs
    BY <1>1, <2>1, StoredKept DEF BudgetInv
  <2>2. CASE OkSave(o)
    <3>1. job.state \notin Waiting /\ pc \notin IdleLabel \cup GetLabel
      BY <2>2 DEF OkSave, BudgetInv, Inv, Consistent, JobStateOK, Waiting, IdleLabel, GetLabel
    <3> QED
      BY <2>2, <3>1, SaveWithin DEF OkSave
  <2> QED
    BY <2>1, <2>2 DEF OkHdel, OkStore, queueVars
<1>3. CASE DispatchFailed
  BY <1>1, <1>2, <1>3, FailedWithin
<1>4. CASE LoopTop
  BY <1>2, <1>4, UnclaimedWithin DEF LoopTop, Unclaimed, IdleLabel
<1>5. CASE pc' \in {"ok_save", "ok_store"} /\ UNCHANGED <<hand, job>>
  <2>1. job.retries <= MaxRetries /\ Spent(hand) <= Budget(job.retries + 1)
    BY <1>1 DEF BudgetInv, HeldWithin
  <2>2. (job.retries <= MaxRetries /\ Spent(hand) <= Budget(job.retries + 1))'
    BY <1>1, <1>5, <2>1 DEF Spent, Budget
  <2> QED
    BY <1>2, <1>5, <2>2 DEF HeldWithin
<1> QED
  BY <1>3, <1>4, <1>5 DEF OkHdel, OkSave, OkStore, Await

\* The save of a job that waits, with the budget the scheduler holds.
LEMMA WaitingSaveWithin ==
    ASSUME BudgetInv, NEW o, WaitSave(o) \/ RequeueSave(o)
    PROVE  StoredWithin' /\ HeldWithin'
<1>1. /\ pc \in {"wait_save", "requeue_save"} /\ SaveJob(hand, job, o) /\ UNCHANGED copies
      /\ pc' \in Unclaimed
  BY DEF WaitSave, RequeueSave, LoopTop, Await, Unclaimed, IdleLabel
<1>2. Within(hand, job.retries) /\ pc \notin IdleLabel \cup GetLabel
  BY <1>1 DEF BudgetInv, HeldWithin, IdleLabel, GetLabel
<1> QED
  BY <1>1, <1>2, SaveWithin, UnclaimedWithin

\* The saves of an end: reported, given up, or of a spent budget.
LEMMA EndSaveWithin ==
    ASSUME BudgetInv, NEW o, SyncSave(o) \/ FailedSave(o)
    PROVE  StoredWithin' /\ HeldWithin'
<1>1. /\ pc \in {"sync_save", "failed_save"} /\ SaveJob(hand, job, o) /\ UNCHANGED copies
      /\ pc' \in Unclaimed
  BY DEF SyncSave, FailedSave, LoopTop, Await, Unclaimed, IdleLabel
<1>2. job.state \notin Waiting /\ pc \notin IdleLabel \cup GetLabel
  BY <1>1 DEF BudgetInv, HeldWithin, Waiting, Terminal, IdleLabel, GetLabel
<1> QED
  BY <1>1, <1>2, SaveWithin, UnclaimedWithin

\* The save of the assignment.
LEMMA MarkSaveWithin ==
    ASSUME BudgetInv, NEW o, MarkSave(o)
    PROVE  StoredWithin' /\ HeldWithin'
<1>1. pc = "mark_save" /\ SaveJob(hand, job, o) /\ UNCHANGED copies
  BY DEF MarkSave
<1>2. job.state \notin Waiting /\ pc \notin IdleLabel \cup GetLabel /\ Within(hand, job.retries)
  BY <1>1 DEF BudgetInv, HeldWithin, Inv, Consistent, JobStateOK, Waiting, IdleLabel, GetLabel
<1>3. StoredWithin' /\ \A j : Spent(j)' = Spent(j)
  BY <1>1, <1>2, SaveWithin
<1>4. CASE LoopTop
  BY <1>3, <1>4, UnclaimedWithin DEF LoopTop, Unclaimed, IdleLabel
<1>5. CASE pc' = "mark_store" /\ UNCHANGED <<hand, job>>
  <2>1. Within(hand, job.retries)'
    BY <1>1, <1>2, <1>5 DEF Within, Spent, Budget
  <2> QED
    BY <1>3, <1>5, <2>1 DEF HeldWithin
<1> QED
  BY <1>4, <1>5 DEF MarkSave, Await

\* The failed attempt leaves active, and the job is put back only if its count
\* allows another dispatch.
LEMMA FailWithin ==
    ASSUME BudgetInv, NEW o, FailHdel(o) \/ FailSave(o)
    PROVE  StoredWithin' /\ HeldWithin'
<1>1. pc \in {"fail_hdel", "fail_save"} /\ UNCHANGED copies
  BY DEF FailHdel, FailSave
<1>2. /\ job \in JobRecord /\ job.state \notin Waiting /\ pc \notin IdleLabel \cup GetLabel
      /\ Spent(hand) <= Budget(job.retries)
  BY <1>1, HoldsJob DEF BudgetInv, HeldWithin, Inv, Consistent, JobStateOK, InAttempt, Waiting,
                        IdleLabel, GetLabel
<1>3. StoredWithin' /\ \A j : Spent(j)' = Spent(j)
  <2>1. CASE UNCHANGED jobs
    BY <1>1, <2>1, StoredKept DEF BudgetInv
  <2>2. CASE FailSave(o)
    BY <1>2, <2>2, SaveWithin DEF FailSave
  <2> QED
    BY <2>1, <2>2 DEF FailHdel
<1>4. CASE LoopTop
  BY <1>3, <1>4, UnclaimedWithin DEF LoopTop, Unclaimed, IdleLabel
<1>5. CASE pc' = "fail_save" /\ UNCHANGED <<hand, job>>
  <2>1. (Spent(hand) <= Budget(job.retries))'
    BY <1>1, <1>2, <1>5 DEF Spent, Budget
  <2> QED
    BY <1>3, <1>5, <2>1 DEF HeldWithin
<1>6. CASE FailSave(o) /\ ~Raised(o)
  <2>1. /\ hand' = hand
        /\ \/ /\ pc' = "requeue_save" /\ job.retries <= MaxRetries
              /\ job' = [job EXCEPT !.state = "RETRYING"]
           \/ /\ pc' = "failed_save" /\ job' = [job EXCEPT !.state = "FAILED"]
    BY <1>6 DEF FailSave, Await
  <2>2. CASE pc' = "requeue_save" /\ job.retries <= MaxRetries /\ job' = [job EXCEPT !.state = "RETRYING"]
    <3>1. job'.retries = job.retries
      BY <1>2, <2>2 DEF JobRecord
    <3>2. Within(hand, job.retries)'
      BY <1>1, <1>2, <2>1, <2>2, <3>1 DEF Within, Spent, Budget
    <3> QED
      BY <1>3, <2>2, <3>2 DEF HeldWithin
  <2>3. CASE pc' = "failed_save" /\ job' = [job EXCEPT !.state = "FAILED"]
    <3>1. job'.state = "FAILED"
      BY <1>2, <2>3 DEF JobRecord
    <3> QED
      BY <1>3, <2>3, <3>1 DEF HeldWithin
  <2> QED
    BY <2>1, <2>2, <2>3
<1> QED
  BY <1>4, <1>5, <1>6 DEF FailHdel, FailSave, Await

\* Every step of the scheduler task keeps to the budget.
LEMMA SchedulerWithin ==
    ASSUME BudgetInv, SchedulerStep
    PROVE  StoredWithin' /\ HeldWithin'
<1>1. ASSUME NEW o, RedisStep(o)
      PROVE  StoredWithin' /\ HeldWithin'
  BY <1>1, BetweenJobsWithin, GetWithin, BeforePostWithin, AcceptedWithin, WaitingSaveWithin,
     EndSaveWithin, MarkSaveWithin, FailWithin DEF RedisStep
<1>2. ASSUME NEW o, StoreStep(o)
      PROVE  StoredWithin' /\ HeldWithin'
  BY <1>2, BetweenJobsWithin, MarkStoreWithin, AcceptedWithin DEF StoreStep
<1>3. CASE SyncStep
  BY <1>3, BetweenJobsWithin, ProbeWithin DEF SyncStep
<1>4. CASE DispatchStep
  BY <1>4, BeforePostWithin, PostWithin DEF DispatchStep
<1> QED
  BY <1>1, <1>2, <1>3, <1>4 DEF SchedulerStep

-----------------------------------------------------------------------------
(* Requests, the sweep, crash, restart and the environment.                *)

\* Steps that leave the locals of the scheduler, the jobs and the local jobs.
LEMMA OthersWithin ==
    ASSUME BudgetInv, UNCHANGED <<localVars, jobs, copies>>
    PROVE  StoredWithin' /\ HeldWithin'
  BY DEF BudgetInv, StoredWithin, HeldWithin, Within, Spent, Budget, localVars

\* A new job has spent nothing.
LEMMA EnqSaveWithin ==
    ASSUME BudgetInv, NEW j \in Jobs, NEW o, EnqSave(j, o)
    PROVE  StoredWithin' /\ HeldWithin'
<1>1. enq[j] = "save" /\ UNCHANGED <<localVars, copies>> /\ SaveJob(j, NewJob, o)
  BY DEF EnqSave, Enqueue, schedulerVars
<1>2. jobs[j] = Absent /\ Spent(j) = 0
  BY <1>1 DEF BudgetInv, Inv, Consistent, RequestsOK, StoredWithin
<1>3. /\ \A k \in Jobs : k # j => jobs'[k] = jobs[k]
      /\ jobs'[j] = NewJob \/ jobs'[j] = Absent
  BY <1>1, <1>2 DEF SaveJob, BudgetInv, Inv, TypeOK, QueueTypeOK
<1>4. NewJob.retries = 0 /\ NewJob # Absent /\ Absent.state \notin Waiting
  BY DEF NewJob, Absent, Waiting
<1>5. Within(j, 0) /\ Spent(j) <= Budget(MaxRetries + 1)
  BY <1>2, BudgetZero DEF Within, BudgetInv, StoredWithin
<1>6. StoredWithin'
  <2>1. ASSUME NEW k \in Jobs
        PROVE  /\ (Spent(k) <= Budget(MaxRetries + 1))'
               /\ (jobs[k].state \in Waiting => Within(k, jobs[k].retries))'
               /\ (jobs[k] = Absent => Spent(k) = 0)'
    <3>1. CASE k # j
      BY <1>1, <1>3, <3>1 DEF BudgetInv, StoredWithin, Within, Spent, Budget
    <3>2. CASE k = j
      BY <1>1, <1>2, <1>3, <1>4, <1>5, <3>2 DEF Within, Spent, Budget
    <3> QED
      BY <3>1, <3>2
  <2> QED
    BY <2>1 DEF StoredWithin
<1>7. HeldWithin'
  BY <1>1 DEF BudgetInv, HeldWithin, Within, Spent, Budget, localVars
<1> QED
  BY <1>6, <1>7

\* A worker that ends a local job keeps it.
LEMMA EnvironmentWithin ==
    ASSUME BudgetInv, Environment
    PROVE  StoredWithin' /\ HeldWithin'
<1>1. UNCHANGED <<localVars, jobs>>
  BY DEF Environment, TimePasses, CopyEnds, queueVars
<1>2. ASSUME NEW j \in Jobs, NEW n \in DOMAIN copies[j], CopyEnds(j, n), NEW k \in Jobs
      PROVE  Len(copies'[k]) = Len(copies[k])
  <2>1. copies \in [Jobs -> Seq(Copy)]
    BY DEF BudgetInv, Inv, TypeOK, SchedulerTypeOK
  <2>2. PICK end \in Terminal : copies' = [copies EXCEPT ![j][n].state = end]
    BY <1>2 DEF CopyEnds
  <2>3. Len([copies[j] EXCEPT ![n] = [copies[j][n] EXCEPT !.state = end]]) = Len(copies[j])
    BY <2>1
  <2> QED
    BY <2>1, <2>2, <2>3
<1>3. ASSUME NEW j \in Jobs, TimePasses(j), NEW k \in Jobs
      PROVE  Len(copies'[k]) = Len(copies[k])
  BY <1>3 DEF TimePasses
<1>4. \A k \in Jobs : Spent(k)' = Spent(k)
  BY <1>2, <1>3 DEF Environment, Spent
<1>5. StoredWithin'
  BY <1>1, <1>4 DEF BudgetInv, StoredWithin, Within, Budget
<1>6. HeldWithin'
  <2>1. CASE pc \in IdleLabel \cup GetLabel
    BY <1>1, <2>1, UnclaimedWithin DEF localVars, Unclaimed, GetLabel
  <2>2. CASE pc \notin IdleLabel \cup GetLabel
    <3>1. hand \in Jobs
      BY <2>2, HoldsJob DEF BudgetInv
    <3>2. Len(copies'[hand]) = Len(copies[hand])
      BY <1>4, <1>1, <3>1 DEF Spent, localVars
    <3> QED
      BY <1>1, <3>2 DEF BudgetInv, HeldWithin, Within, Spent, Budget, localVars
  <2> QED
    BY <2>1, <2>2
<1> QED
  BY <1>5, <1>6

\* Every step, and every stutter, keeps to the budget.
LEMMA NextWithin ==
    ASSUME BudgetInv, [Next]_vars
    PROVE  BudgetInv'
<1>1. CASE SchedulerStep
  BY <1>1, SchedulerWithin, NextKeeps DEF BudgetInv
<1>2. CASE Environment
  BY <1>2, EnvironmentWithin, NextKeeps DEF BudgetInv
<1>3. ASSUME NEW j \in Jobs, NEW o, EnqSave(j, o)
      PROVE  BudgetInv'
  BY <1>3, EnqSaveWithin, NextKeeps DEF BudgetInv
<1>4. CASE UNCHANGED <<localVars, jobs, copies>>
  BY <1>4, OthersWithin, NextKeeps DEF BudgetInv
<1>5. CASE \E j \in Jobs : Submit(j) \/ EnqueueStep(j)
  BY <1>3, <1>4, <1>5 DEF Submit, EnqueueStep, Enqueue, EnqPush, EnqIndex, EnqStore, queueVars,
                          schedulerVars
<1>6. CASE SweepList \/ SweepStep \/ UNCHANGED vars
  BY <1>4, <1>6 DEF SweepList, SweepStep, SweepRead, SweepDrop, vars, queueVars, schedulerVars
<1>7. CASE Crash \/ Restart
  <2>1. UNCHANGED <<jobs, copies>> /\ pc' \in Unclaimed
    BY <1>7 DEF Crash, Restart, queueVars, Unclaimed, IdleLabel
  <2> QED
    BY <2>1, StoredKept, UnclaimedWithin, NextKeeps DEF BudgetInv
<1> QED
  BY <1>1, <1>2, <1>5, <1>6, <1>7 DEF Next

\* At the first start nothing is spent.
LEMMA InitWithin == Init => BudgetInv
<1> SUFFICES ASSUME Init PROVE BudgetInv
  OBVIOUS
<1>1. pc = "sync" /\ \A j \in Jobs : jobs[j] = Absent /\ Spent(j) = 0
  BY DEF Init, QueueInit, SchedulerInit, Spent
<1>2. 0 <= Budget(MaxRetries + 1) /\ Absent.state \notin Waiting
  BY BudgetGrows DEF Absent, NewJob, Waiting
<1>3. StoredWithin
  BY <1>1, <1>2 DEF StoredWithin
<1>4. HeldWithin
  BY <1>1 DEF HeldWithin
<1> QED
  BY <1>3, <1>4, InitHolds DEF BudgetInv

\* However replies are lost, writes fail and the process dies, the workers have
\* at most PostAttempts local jobs for each dispatch the retry limit allows.
THEOREM BudgetIsKept == Spec => []DispatchBudget
<1>1. BudgetInv /\ [Next]_vars => BudgetInv'
  BY NextWithin
<1>2. BudgetInv => DispatchBudget
  BY DEF BudgetInv, StoredWithin, DispatchBudget, Spent, Budget
<1> QED
  BY <1>1, <1>2, InitWithin, PTL DEF Spec

-----------------------------------------------------------------------------
(* The life cycle.  Only the saves of the job in hand and the first save   *)
(* of a request are visible in it; a save raises the count of failures by  *)
(* one or keeps it.                                                        *)

\* What the label says of the stored form of the job in hand, next to StoredOK.
Counted ==
    /\ pc \in {"select", "wait_save", "mark_active", "mark_save", "sync_save"} =>
           job.retries = jobs[hand].retries
    /\ pc \in {"mark_store", "post", "ok_hdel", "ok_save"} =>
           job.retries = jobs[hand].retries /\ jobs[hand].state = "ASSIGNED"
    /\ pc = "ok_store" =>
           job.retries = jobs[hand].retries /\ jobs[hand].state = "PROCESSING"
    /\ pc \in {"fail_hdel", "fail_save"} =>
           /\ job.retries = jobs[hand].retries + 1
           /\ jobs[hand].retries <= MaxRetries
           /\ jobs[hand].state \in {"ASSIGNED", job.state}
    /\ pc = "requeue_save" =>
           job.retries = jobs[hand].retries /\ job.retries \in 1 .. MaxRetries
    /\ pc = "failed_save" =>
           job.retries = jobs[hand].retries /\ job.retries > MaxRetries

LifeInv == BudgetInv /\ Counted

\* Back at the top of the loop nothing is claimed.
LEMMA UnclaimedCounted ==
    ASSUME pc' \in Unclaimed
    PROVE  Counted'
  BY DEF Unclaimed, IdleLabel, Counted

\* Steps that keep the stored jobs and the label's claim.
LEMMA OthersCounted ==
    ASSUME LifeInv, UNCHANGED <<pc, hand, job, jobs>>
    PROVE  Counted'
  BY DEF LifeInv, Counted

\* The calls up to the request.
LEMMA BeforePostCounted ==
    ASSUME LifeInv, NEW o,
           \/ Get(o) \/ SelectNone \/ (\E w \in Workers : SelectWorker(w)) \/ MarkActive(o)
           \/ \E j \in Jobs : ProbeEnded(j) \/ ProbeTimeout(j)
    PROVE  Counted'
<1>1. UNCHANGED jobs
  BY DEF Get, SelectNone, SelectWorker, MarkActive, ProbeEnded, ProbeTimeout, queueVars
<1>2. CASE LoopTop
  BY <1>2, UnclaimedCounted DEF LoopTop, Unclaimed, IdleLabel
<1>3. CASE Get(o) /\ ~LoopTop
  BY <1>1, <1>3 DEF Get, Await, Counted
<1>4. CASE SelectNone \/ \E w \in Workers : SelectWorker(w)
  <2>1. job \in JobRecord /\ job.retries = jobs[hand].retries
    BY <1>4, HoldsJob DEF SelectNone, SelectWorker, LifeInv, BudgetInv, Counted, IdleLabel, GetLabel
  <2>2. hand' = hand /\ job'.retries = job.retries /\ pc' \in {"wait_save", "mark_active"}
    BY <1>4, <2>1 DEF SelectNone, SelectWorker, Await, JobRecord
  <2> QED
    BY <1>1, <2>1, <2>2 DEF Counted
<1>5. CASE MarkActive(o) /\ ~LoopTop
  BY <1>1, <1>5 DEF MarkActive, Await, LifeInv, Counted
<1>6. ASSUME NEW j \in Jobs, ProbeEnded(j) \/ ProbeTimeout(j)
      PROVE  Counted'
  <2>1. hand' = j /\ pc' = "sync_save" /\ snap[j] \in JobRecord /\ jobs[j] = snap[j]
    BY <1>6, ProbeEffect
       DEF ProbeEnded, ProbeTimeout, Unfinished, LifeInv, BudgetInv, Inv, TypeOK, SchedulerTypeOK
  <2>2. job'.retries = snap[j].retries
    BY <1>6, <2>1 DEF ProbeEnded, ProbeTimeout, JobRecord
  <2> QED
    BY <1>1, <2>1, <2>2 DEF Counted
<1> QED
  BY <1>2, <1>3, <1>4, <1>5, <1>6

\* An attempt that fails is counted once, whatever of it is already stored.
LEMMA FailedCounted ==
    ASSUME LifeInv, pc \in {"post", "ok_hdel", "ok_save", "ok_store"}, DispatchFailed,
           \/ UNCHANGED jobs
           \/ pc = "ok_save" /\ \E o : SaveJob(hand, job, o)
    PROVE  Counted'
<1>1. /\ hand \in Jobs /\ job \in JobRecord /\ job.retries \in Nat
      /\ job'.state = job.state /\ job'.retries = job.retries + 1
      /\ hand' = hand /\ pc' = "fail_hdel"
  BY HoldsJob, RecordFields, FailedEffect DEF DispatchFailed, LifeInv, BudgetInv, IdleLabel, GetLabel
<1>2. job.retries <= MaxRetries /\ job.retries = jobs[hand].retries
  BY DEF LifeInv, BudgetInv, HeldWithin, Counted
<1>3. jobs[hand].state \in {"ASSIGNED", job.state}
  BY DEF LifeInv, BudgetInv, Inv, Consistent, JobStateOK, Counted
<1>4. jobs'[hand] = jobs[hand] \/ jobs'[hand] = job
  BY SaveEffect DEF LifeInv, BudgetInv, IdleLabel, GetLabel
<1> QED
  BY <1>1, <1>2, <1>3, <1>4 DEF Counted

\* The calls of an attempt.
LEMMA AttemptCounted ==
    ASSUME LifeInv, NEW o,
           \/ MarkSave(o) \/ MarkStore(o) \/ PostAccepted \/ PostRetried \/ PostFailed
           \/ OkHdel(o) \/ OkSave(o) \/ OkStore(o)
    PROVE  Counted'
<1>1. /\ hand \in Jobs /\ job \in JobRecord
      /\ pc \in {"mark_save", "mark_store", "post", "ok_hdel", "ok_save", "ok_store"}
  BY HoldsJob DEF MarkSave, MarkStore, PostAccepted, PostRetried, PostFailed, OkHdel, OkSave,
                  OkStore, LifeInv, BudgetInv, IdleLabel, GetLabel
<1>2. CASE LoopTop
  BY <1>2, UnclaimedCounted DEF LoopTop, Unclaimed, IdleLabel
<1>3. CASE DispatchFailed /\ ~MarkSave(o)
  BY <1>1, <1>3, FailedCounted
     DEF MarkStore, PostAccepted, PostRetried, PostFailed, OkHdel, OkSave, OkStore, LoopTop,
         DispatchFailed, queueVars
<1>4. CASE MarkSave(o) /\ ~Raised(o)
  <2>1. jobs'[hand] = job
    BY <1>4, SaveEffect DEF MarkSave, Raised, Applied, LifeInv, BudgetInv, IdleLabel, GetLabel
  <2>2. job.state = "ASSIGNED" /\ UNCHANGED <<hand, job>> /\ pc' = "mark_store"
    BY <1>4 DEF MarkSave, Await, LifeInv, BudgetInv, Inv, Consistent, JobStateOK
  <2> QED
    BY <2>1, <2>2 DEF Counted
<1>5. CASE MarkStore(o) /\ ~Raised(o)
  BY <1>5 DEF MarkStore, queueVars, LifeInv, Counted
<1>6. CASE PostAccepted
  <2>1. job'.retries = job.retries /\ pc = "post" /\ pc' = "ok_hdel" /\ UNCHANGED <<hand, jobs>>
    BY <1>1, <1>6 DEF PostAccepted, JobRecord, queueVars
  <2> QED
    BY <2>1 DEF LifeInv, Counted
<1>7. CASE PostRetried
  BY <1>7, OthersCounted DEF PostRetried, queueVars
<1>8. CASE OkHdel(o) /\ ~Raised(o)
  BY <1>8 DEF OkHdel, Await, LifeInv, Counted
<1>9. CASE OkSave(o) /\ ~Raised(o)
  <2>1. jobs'[hand] = job
    BY <1>9, SaveEffect DEF OkSave, Raised, Applied, LifeInv, BudgetInv, IdleLabel, GetLabel
  <2>2. job.state = "PROCESSING" /\ UNCHANGED <<hand, job>> /\ pc' = "ok_store"
    BY <1>9 DEF OkSave, Await, LifeInv, BudgetInv, Inv, Consistent, JobStateOK
  <2> QED
    BY <2>1, <2>2 DEF Counted
<1> QED
  BY <1>2, <1>3, <1>4, <1>5, <1>6, <1>7, <1>8, <1>9
     DEF MarkSave, MarkStore, PostFailed, OkHdel, OkSave, OkStore, LoopTop, DispatchFailed

\* The handling of a failed attempt.
LEMMA FailCounted ==
    ASSUME LifeInv, NEW o, FailHdel(o) \/ FailSave(o)
    PROVE  Counted'
<1>1. CASE LoopTop
  BY <1>1, UnclaimedCounted DEF LoopTop, Unclaimed, IdleLabel
<1>2. CASE FailHdel(o) /\ ~Raised(o)
  BY <1>2 DEF FailHdel, Await, LifeInv, Counted
<1>3. CASE FailSave(o) /\ ~Raised(o)
  <2>1. /\ hand \in Jobs /\ job \in JobRecord /\ jobs'[hand] = job
        /\ job.retries = jobs[hand].retries + 1
    BY <1>3, HoldsJob, SaveEffect
       DEF FailSave, Raised, Applied, LifeInv, BudgetInv, Counted, IdleLabel, GetLabel
  <2>2. jobs[hand].retries \in Nat /\ job.retries \in Nat /\ job.retries >= 1
    <3>1. jobs[hand] \in JobRecord \cup {Absent}
      BY <2>1 DEF LifeInv, BudgetInv, Inv, TypeOK, QueueTypeOK
    <3>2. Absent.retries \in Nat
      BY DEF Absent, NewJob
    <3> QED
      BY <2>1, <3>1, <3>2 DEF JobRecord
  <2>3. CASE job.retries <= MaxRetries /\ Await("requeue_save", [job EXCEPT !.state = "RETRYING"])
    <3>1. job'.retries = job.retries /\ hand' = hand /\ pc' = "requeue_save"
      BY <2>1, <2>3 DEF Await, JobRecord
    <3> QED
      BY <2>1, <2>2, <2>3, <3>1 DEF Counted
  <2>4. CASE job.retries > MaxRetries /\ Await("failed_save", [job EXCEPT !.state = "FAILED"])
    <3>1. job'.retries = job.retries /\ hand' = hand /\ pc' = "failed_save"
      BY <2>1, <2>4 DEF Await, JobRecord
    <3> QED
      BY <2>1, <2>4, <3>1 DEF Counted
  <2> QED
    BY <1>3, <2>3, <2>4 DEF FailSave
<1> QED
  BY <1>1, <1>2, <1>3 DEF FailHdel, FailSave

\* Every step keeps the counts in step.
LEMMA NextCounted ==
    ASSUME LifeInv, [Next]_vars
    PROVE  Counted'
<1>1. ASSUME NEW o, RedisStep(o)
      PROVE  Counted'
  <2>1. CASE \/ SyncSave(o) \/ Release(o) \/ Pop(o) \/ WaitSave(o) \/ WaitPush(o)
             \/ RequeueSave(o) \/ RequeuePush(o) \/ FailedSave(o)
    <3>1. pc' \in Unclaimed
      BY <2>1 DEF SyncSave, Release, Pop, WaitSave, WaitPush, RequeueSave, RequeuePush, FailedSave,
                  LoopTop, Await, Unclaimed, IdleLabel
    <3> QED
      BY <3>1, UnclaimedCounted
  <2> QED
    BY <1>1, <2>1, BeforePostCounted, AttemptCounted, FailCounted DEF RedisStep
<1>2. ASSUME NEW o, StoreStep(o)
      PROVE  Counted'
  <2>1. CASE SyncStore(o) \/ FailStore(o)
    BY <2>1, UnclaimedCounted DEF SyncStore, FailStore, LoopTop, Unclaimed, IdleLabel
  <2> QED
    BY <1>2, <2>1, AttemptCounted DEF StoreStep
<1>3. CASE SyncStep
  <2>1. CASE SyncSkip \/ SyncList \/ SyncDone \/ \E j \in Jobs : ProbeKeep(j)
    BY <2>1, UnclaimedCounted
       DEF SyncSkip, SyncList, SyncDone, ProbeKeep, Unfinished, Await, Unclaimed, IdleLabel
  <2> QED
    BY <1>3, <2>1, BeforePostCounted DEF SyncStep
<1>4. CASE DispatchStep
  BY <1>4, BeforePostCounted, AttemptCounted DEF DispatchStep
<1>5. ASSUME NEW j \in Jobs, NEW o, EnqSave(j, o)
      PROVE  Counted'
  <2>1. hand # j /\ UNCHANGED <<pc, hand, job>>
    BY <1>5 DEF EnqSave, Enqueue, schedulerVars, localVars, LifeInv, BudgetInv, Inv, Consistent,
                OneTicket, Unpushed
  <2>2. hand \in Jobs => jobs'[hand] = jobs[hand]
    BY <1>5, <2>1 DEF EnqSave, SaveJob, LifeInv, BudgetInv, Inv, TypeOK, QueueTypeOK
  <2>3. CASE pc \in IdleLabel \cup GetLabel
    BY <2>1, <2>3, UnclaimedCounted DEF Unclaimed, GetLabel
  <2>4. CASE hand \in Jobs
    BY <2>1, <2>2, <2>4 DEF LifeInv, Counted
  <2> QED
    BY <2>3, <2>4, HoldsJob DEF LifeInv, BudgetInv
<1>6. CASE UNCHANGED <<pc, hand, job, jobs>>
  BY <1>6, OthersCounted
<1>7. CASE Crash \/ Restart
  BY <1>7, UnclaimedCounted DEF Crash, Restart, Unclaimed, IdleLabel
<1> QED
  BY <1>1, <1>2, <1>3, <1>4, <1>5, <1>6, <1>7
     DEF Next, SchedulerStep, Environment, TimePasses, CopyEnds, Submit, EnqueueStep, Enqueue,
         EnqPush, EnqIndex, EnqStore, SweepList, SweepStep, SweepRead, SweepDrop, vars,
         schedulerVars, localVars, queueVars

-----------------------------------------------------------------------------
(* Every step is a step of the life cycle, or none.                        *)

\* Job j, in one of the states from, goes to the state to and keeps its count.
LEMMA MoveRefines ==
    ASSUME Inv, NEW j \in Jobs, NEW from, NEW to, jobs[j].state \in from,
           jobs'[j].state = to, \A k \in Jobs : k # j => jobs'[k] = jobs[k]
    PROVE  /\ Lifecycle!Moves(j, from, to)
           /\ jobs'[j].retries = jobs[j].retries =>
                  UNCHANGED [k \in Jobs |-> jobs[k].retries]
  BY DEF Lifecycle!Moves

\* A step that stores nothing.
LEMMA StutterRefines ==
    ASSUME UNCHANGED jobs
    PROVE  UNCHANGED Lifecycle!lifecycleVars
  BY DEF Lifecycle!lifecycleVars

\* The first save of a job.
LEMMA AcceptRefines ==
    ASSUME Inv, NEW j \in Jobs, NEW o, EnqSave(j, o)
    PROVE  [Lifecycle!Next]_(Lifecycle!lifecycleVars)
<1>1. jobs[j] = Absent /\ SaveJob(j, NewJob, o)
  BY DEF EnqSave, Enqueue, Inv, Consistent, RequestsOK
<1>2. CASE UNCHANGED jobs
  BY <1>2, StutterRefines
<1>3. CASE jobs' = [jobs EXCEPT ![j] = NewJob]
  <2>1. jobs'[j] = NewJob /\ \A k \in Jobs : k # j => jobs'[k] = jobs[k]
    BY <1>3 DEF Inv, TypeOK, QueueTypeOK
  <2>2. /\ jobs[j].state \in {"ABSENT"} /\ jobs'[j].state = "QUEUED"
        /\ jobs'[j].retries = jobs[j].retries
    BY <1>1, <2>1 DEF Absent, NewJob
  <2>3. Lifecycle!Accept(j)
    BY <2>1, <2>2, MoveRefines DEF Lifecycle!Accept
  <2> QED
    BY <2>3 DEF Lifecycle!Next
<1> QED
  BY <1>1, <1>2, <1>3 DEF SaveJob

\* The saves of the job in hand that keep the count.
LEMMA MovesRefine ==
    ASSUME LifeInv, NEW j \in Jobs, hand = j, jobs'[j] = job,
           \A k \in Jobs : k # j => jobs'[k] = jobs[k],
           pc \in {"sync_save", "wait_save", "mark_save", "ok_save", "requeue_save", "failed_save"}
    PROVE  Lifecycle!Next
<1>1. jobs'[j].state = job.state /\ jobs'[j].retries = jobs[j].retries
  BY DEF LifeInv, Counted
<1>2. job.retries = jobs[j].retries /\ Inv
  BY DEF LifeInv, BudgetInv, Counted
<1>3. CASE pc = "sync_save"
  <2>1. job.state \in Lifecycle!Terminal /\ jobs[j].state \in {"PROCESSING"}
    BY <1>3 DEF LifeInv, BudgetInv, HeldWithin, Inv, Consistent, StoredOK, Terminal,
                Lifecycle!Terminal
  <2>2. Lifecycle!End(j)
    BY <1>1, <1>2, <2>1, MoveRefines DEF Lifecycle!End
  <2> QED
    BY <2>2 DEF Lifecycle!Next
<1>4. CASE pc = "wait_save"
  <2>1. job.state = "RETRYING" /\ jobs[j].state \in Lifecycle!Waiting
    BY <1>2, <1>4 DEF Inv, Consistent, StoredOK, JobStateOK, Waiting, Lifecycle!Waiting
  <2>2. Lifecycle!Wait(j)
    BY <1>1, <1>2, <2>1, MoveRefines DEF Lifecycle!Wait
  <2> QED
    BY <2>2 DEF Lifecycle!Next
<1>5. CASE pc = "mark_save"
  <2>1. /\ job.state = "ASSIGNED" /\ jobs[j].state \in Lifecycle!Waiting
        /\ jobs[j].retries <= MaxRetries
    BY <1>2, <1>5 DEF Inv, Consistent, StoredOK, JobStateOK, Waiting, Lifecycle!Waiting,
                      LifeInv, BudgetInv, HeldWithin, Within
  <2>2. Lifecycle!Assign(j)
    BY <1>1, <1>2, <2>1, MoveRefines DEF Lifecycle!Assign
  <2> QED
    BY <2>2 DEF Lifecycle!Next
<1>6. CASE pc = "ok_save"
  <2>1. job.state = "PROCESSING" /\ jobs[j].state \in {"ASSIGNED"}
    BY <1>2, <1>6 DEF Inv, Consistent, JobStateOK, LifeInv, Counted
  <2>2. Lifecycle!Run(j)
    BY <1>1, <1>2, <2>1, MoveRefines DEF Lifecycle!Run
  <2> QED
    BY <2>2 DEF Lifecycle!Next
<1>7. CASE pc = "requeue_save"
  <2>1. /\ job.state = "RETRYING" /\ jobs[j].state \in Lifecycle!InAttempt
        /\ jobs[j].retries \in 1 .. MaxRetries
    BY <1>2, <1>7 DEF Inv, Consistent, StoredOK, JobStateOK, InAttempt, Lifecycle!InAttempt,
                      LifeInv, Counted
  <2>2. Lifecycle!Retry(j)
    BY <1>1, <1>2, <2>1, MoveRefines DEF Lifecycle!Retry
  <2> QED
    BY <2>2 DEF Lifecycle!Next
<1>8. CASE pc = "failed_save"
  <2>1. /\ job.state = "FAILED" /\ jobs[j].state \in Lifecycle!InAttempt
        /\ jobs[j].retries > MaxRetries
    BY <1>2, <1>8 DEF Inv, Consistent, StoredOK, InAttempt, Lifecycle!InAttempt,
                      LifeInv, BudgetInv, HeldWithin, Counted
  <2>2. Lifecycle!GiveUp(j)
    BY <1>1, <1>2, <2>1, MoveRefines DEF Lifecycle!GiveUp
  <2> QED
    BY <2>2 DEF Lifecycle!Next
<1> QED
  BY <1>3, <1>4, <1>5, <1>6, <1>7, <1>8

\* The save that counts a failed attempt, and may be the first to show that the
\* worker had accepted it.
LEMMA FailureRefines ==
    ASSUME LifeInv, NEW j \in Jobs, hand = j, jobs'[j] = job,
           \A k \in Jobs : k # j => jobs'[k] = jobs[k], pc = "fail_save"
    PROVE  Lifecycle!Next
<1>1. /\ job.retries = jobs[j].retries + 1 /\ jobs[j].retries <= MaxRetries
      /\ jobs[j].state \in {"ASSIGNED", job.state}
      /\ job.state \in {"ASSIGNED", "PROCESSING"} /\ Inv
  BY DEF LifeInv, BudgetInv, Counted, Inv, Consistent, JobStateOK, InAttempt
<1>2. [k \in Jobs |-> jobs'[k].retries] =
          [[k \in Jobs |-> jobs[k].retries] EXCEPT ![j] = @ + 1]
  BY <1>1
<1>3. CASE jobs[j].state = job.state
  <2>1. [k \in Jobs |-> jobs'[k].state] = [k \in Jobs |-> jobs[k].state]
    BY <1>3
  <2>2. [k \in Jobs |-> jobs[k].state][j] \in Lifecycle!InAttempt
    BY <1>1, <1>3 DEF Lifecycle!InAttempt
  <2>3. Lifecycle!AttemptFails(j)
    BY <1>1, <1>2, <2>1, <2>2 DEF Lifecycle!AttemptFails
  <2> QED
    BY <2>3 DEF Lifecycle!Next
<1>4. CASE jobs[j].state = "ASSIGNED" /\ job.state = "PROCESSING"
  <2>1. Lifecycle!Moves(j, {"ASSIGNED"}, "PROCESSING")
    BY <1>1, <1>4, MoveRefines
  <2>2. Lifecycle!AttemptFails(j)
    BY <1>1, <1>2, <2>1 DEF Lifecycle!AttemptFails
  <2> QED
    BY <2>2 DEF Lifecycle!Next
<1> QED
  BY <1>1, <1>3, <1>4

\* A save of the job in hand is one step of the life cycle.
LEMMA SaveRefines ==
    ASSUME LifeInv, NEW o, SaveJob(hand, job, o),
           pc \in {"sync_save", "wait_save", "mark_save", "ok_save", "fail_save",
                   "requeue_save", "failed_save"}
    PROVE  [Lifecycle!Next]_(Lifecycle!lifecycleVars)
<1>1. hand \in Jobs /\ (\A k \in Jobs : k # hand => jobs'[k] = jobs[k])
  BY HoldsJob, SaveEffect DEF LifeInv, BudgetInv, IdleLabel, GetLabel
<1>2. CASE Applied(o)
  <2>1. jobs'[hand] = job
    BY <1>2, SaveEffect DEF LifeInv, BudgetInv, IdleLabel, GetLabel
  <2>2. ASSUME NEW j \in Jobs, hand = j
        PROVE  Lifecycle!Next
    BY <1>1, <2>1, <2>2, MovesRefine, FailureRefines
  <2> QED
    BY <1>1, <2>2
<1>3. CASE ~Applied(o)
  BY <1>3, StutterRefines DEF SaveJob
<1> QED
  BY <1>2, <1>3

\* Every step of the process and its environment is one of the life cycle, or
\* invisible.
LEMMA NextRefines ==
    ASSUME LifeInv, [Next]_vars
    PROVE  [Lifecycle!Next]_(Lifecycle!lifecycleVars)
<1>1. CASE UNCHANGED jobs
  BY <1>1, StutterRefines
<1>2. ASSUME NEW o, RedisStep(o)
      PROVE  [Lifecycle!Next]_(Lifecycle!lifecycleVars)
  <2>1. CASE \/ SyncSave(o) \/ WaitSave(o) \/ MarkSave(o) \/ OkSave(o)
             \/ FailSave(o) \/ RequeueSave(o) \/ FailedSave(o)
    <3>1. /\ SaveJob(hand, job, o)
          /\ pc \in {"sync_save", "wait_save", "mark_save", "ok_save", "fail_save",
                     "requeue_save", "failed_save"}
      BY <2>1 DEF SyncSave, WaitSave, MarkSave, OkSave, FailSave, RequeueSave, FailedSave
    <3> QED
      BY <3>1, SaveRefines
  <2>2. CASE \/ Release(o) \/ Pop(o) \/ Get(o) \/ WaitPush(o) \/ MarkActive(o)
             \/ OkHdel(o) \/ FailHdel(o) \/ RequeuePush(o)
    BY <1>1, <2>2 DEF Release, Pop, Get, WaitPush, MarkActive, OkHdel, FailHdel,
       RequeuePush, queueVars
  <2> QED
    BY <1>2, <2>1, <2>2 DEF RedisStep
<1>3. ASSUME NEW j \in Jobs, EnqueueStep(j), ~UNCHANGED jobs
      PROVE  [Lifecycle!Next]_(Lifecycle!lifecycleVars)
  <2>1. PICK o : EnqSave(j, o)
    BY <1>3 DEF EnqueueStep, EnqPush, EnqIndex, EnqStore, queueVars
  <2> QED
    BY <2>1, AcceptRefines DEF LifeInv, BudgetInv
<1>4. (\E o : RedisStep(o)) \/ (\E j \in Jobs : EnqueueStep(j)) \/ UNCHANGED jobs
  BY DEF Next, SchedulerStep, StoreStep, SyncStore, MarkStore, OkStore, FailStore, SyncStep,
         SyncSkip, SyncList, SyncDone, ProbeEnded, ProbeKeep, ProbeTimeout, DispatchStep,
         SelectNone, SelectWorker, PostAccepted, PostRetried, PostFailed, Environment,
         TimePasses, CopyEnds, Submit, SweepList, SweepStep, SweepRead, SweepDrop, Crash,
         Restart, vars, queueVars
<1> QED
  BY <1>1, <1>2, <1>3, <1>4

\* The scheduler, the request handlers, crashes and lost replies together do
\* with the stored jobs only what the life cycle of a job allows, and count
\* failed attempts as it does: Orchestrator implements JobLifecycle.
THEOREM LifecycleIsImplemented == Spec => FollowsLifecycle
<1>1. Init => LifeInv /\ Lifecycle!Init
  <2> SUFFICES ASSUME Init PROVE LifeInv /\ Lifecycle!Init
    OBVIOUS
  <2>1. pc = "sync" /\ jobs = [j \in Jobs |-> Absent]
    BY DEF Init, QueueInit, SchedulerInit
  <2>2. Absent.state = "ABSENT" /\ Absent.retries = 0
    BY DEF Absent, NewJob
  <2> QED
    BY <2>1, <2>2, InitWithin DEF LifeInv, Counted, Lifecycle!Init
<1>2. LifeInv /\ [Next]_vars => LifeInv'
  BY NextWithin, NextCounted DEF LifeInv
<1>3. LifeInv /\ [Next]_vars => [Lifecycle!Next]_(Lifecycle!lifecycleVars)
  BY NextRefines
<1> QED
  BY <1>1, <1>2, <1>3, PTL DEF Spec, FollowsLifecycle, Lifecycle!Spec

=============================================================================
