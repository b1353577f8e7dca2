-------------------------- MODULE SchedulerProofs ---------------------------
(***************************************************************************)
(* Every step of the scheduler task keeps the invariant Inv: one lemma for *)
(* each action, under it one step for each group of conjuncts.             *)
(***************************************************************************)
EXTENDS OrchestratorLemmas

USE QueueAssumption, SchedulerAssumption DEF Jobs, NoJob

-----------------------------------------------------------------------------
(* Sync, dispatch and the two branches after it.                           *)

\* The status sync is not due.
LEMMA SyncSkipKeeps ==
    ASSUME Inv, SyncSkip, UNCHANGED requestVars
    PROVE  Inv'
<1>1. TypeOK'
  BY SMTT(15) DEF Inv, SyncSkip, TypeOK, QueueTypeOK, SchedulerTypeOK, LocalsOK, Label,
     IdleLabel, Await, queueVars, requestVars
<1>2. LocalsOK' /\ StoredOK' /\ JobStateOK'
  BY SMTT(15) DEF Inv, Consistent, SyncSkip, LocalsOK, StoredOK, JobStateOK, IdleLabel,
     SyncLabel, Await
<1>3. SnapshotCurrent' /\ RequestsOK'
  BY SMTT(15) DEF Inv, Consistent, SyncSkip, SnapshotCurrent, RequestsOK, Await,
     queueVars, requestVars
<1>4. OneTicket' /\ TicketIsWaiting'
  BY SMTT(15) DEF Inv, Consistent, SyncSkip, OneTicket, TicketIsWaiting, Ticketed,
     InReady, Held, Unpushed, Await, queueVars, requestVars
<1> QED
  BY <1>1, <1>2, <1>3, <1>4 DEF Inv, Consistent

\* The sync reads the stored jobs, and what it takes up is PROCESSING.
LEMMA SyncListKeeps ==
    ASSUME Inv, SyncList, UNCHANGED requestVars
    PROVE  Inv'
<1>1. SyncSet \subseteq Jobs
  BY DEF SyncSet, ListJobs, Recent, Inv, TypeOK, QueueTypeOK
<1>2. \A j \in SyncSet : jobs[j] \in JobRecord
  BY <1>1 DEF SyncSet, Inv, TypeOK, QueueTypeOK, Absent, NewJob
<1>3. TypeOK'
  BY <1>1, <1>2, SMTT(15) DEF Inv, SyncList, TypeOK, QueueTypeOK, SchedulerTypeOK,
     Label, IdleLabel, queueVars, requestVars
<1>4. LocalsOK' /\ StoredOK' /\ JobStateOK'
  BY SMTT(15) DEF Inv, Consistent, SyncList, LocalsOK, StoredOK, JobStateOK, IdleLabel
<1>5. SnapshotCurrent' /\ RequestsOK'
  BY SMTT(15) DEF Inv, Consistent, SyncList, SyncSet, ListJobs, Recent, TypeOK,
     QueueTypeOK, LocalsOK, SnapshotCurrent, RequestsOK, IdleLabel, queueVars,
     requestVars
<1>6. OneTicket' /\ TicketIsWaiting'
  BY SMTT(15) DEF Inv, Consistent, SyncList, OneTicket, TicketIsWaiting, Ticketed,
     InReady, Held, Unpushed, queueVars, requestVars
<1> QED
  BY <1>3, <1>4, <1>5, <1>6 DEF Inv, Consistent

\* A job of the sync ends; its stored form is still the one that was read.
LEMMA ProbeEndedKeeps ==
    ASSUME Inv, NEW j \in Jobs, ProbeEnded(j), UNCHANGED requestVars
    PROVE  Inv'
<1>1. /\ job' \in JobRecord /\ job'.state \in Terminal
      /\ jobs[j] = snap[j] /\ jobs[j].state = "PROCESSING"
      /\ pc = "probe" /\ pc' = "sync_save" /\ hand' = j /\ j \in DOMAIN snap
      /\ snap' = [k \in DOMAIN snap \ {j} |-> snap[k]]
      /\ UNCHANGED <<attempt, queueVars, store, copies, age>>
  BY ProbeEffect DEF ProbeEnded, Unfinished
<1>2. ~Ticketed(j)
  BY <1>1 DEF Inv, Consistent, TicketIsWaiting, Waiting
<1>3. ~Unpushed(j)
  BY <1>1 DEF Inv, Consistent, RequestsOK, Unpushed, Waiting, Absent, NewJob
<1>4. TypeOK'
  BY <1>1, SMTT(15) DEF Inv, TypeOK, QueueTypeOK, SchedulerTypeOK, Label, SyncLabel,
     queueVars, requestVars
<1>5. LocalsOK' /\ StoredOK' /\ JobStateOK'
  BY <1>1, SMTT(15) DEF Inv, Consistent, LocalsOK, StoredOK, JobStateOK, IdleLabel,
     GetLabel, SyncLabel, queueVars
<1>6. SnapshotCurrent' /\ RequestsOK'
  BY SMTT(15) DEF Inv, Consistent, ProbeEnded, SnapshotCurrent, RequestsOK, queueVars,
     requestVars
<1>7. OneTicket' /\ TicketIsWaiting'
  BY <1>1, <1>2, <1>3, SMTT(15) DEF Inv, Consistent, OneTicket, TicketIsWaiting, Held,
     Unpushed, Ticketed, InReady, queueVars, requestVars
<1> QED
  BY <1>4, <1>5, <1>6, <1>7 DEF Inv, Consistent

\* A job of the sync is left as it is.
LEMMA ProbeKeepKeeps ==
    ASSUME Inv, NEW j \in Jobs, ProbeKeep(j), UNCHANGED requestVars
    PROVE  Inv'
<1>1. TypeOK'
  BY SMTT(15) DEF Inv, ProbeKeep, TypeOK, QueueTypeOK, SchedulerTypeOK, queueVars,
     requestVars
<1>2. LocalsOK' /\ StoredOK' /\ JobStateOK'
  BY SMTT(15) DEF Inv, Consistent, ProbeKeep, LocalsOK, StoredOK, JobStateOK, IdleLabel,
     queueVars
<1>3. SnapshotCurrent' /\ RequestsOK'
  BY SMTT(15) DEF Inv, Consistent, ProbeKeep, SnapshotCurrent, RequestsOK, queueVars,
     requestVars
<1>4. OneTicket' /\ TicketIsWaiting'
  BY SMTT(15) DEF Inv, Consistent, ProbeKeep, OneTicket, TicketIsWaiting, Ticketed,
     InReady, Held, Unpushed, queueVars, requestVars
<1> QED
  BY <1>1, <1>2, <1>3, <1>4 DEF Inv, Consistent

\* A job of the sync is given up.
LEMMA ProbeTimeoutKeeps ==
    ASSUME Inv, NEW j \in Jobs, ProbeTimeout(j), UNCHANGED requestVars
    PROVE  Inv'
<1>1. /\ job' \in JobRecord /\ job'.state \in Terminal
      /\ jobs[j] = snap[j] /\ jobs[j].state = "PROCESSING"
      /\ pc = "probe" /\ pc' = "sync_save" /\ hand' = j /\ j \in DOMAIN snap
      /\ snap' = [k \in DOMAIN snap \ {j} |-> snap[k]]
      /\ UNCHANGED <<attempt, queueVars, store, copies, age>>
  BY ProbeEffect DEF ProbeTimeout, Unfinished
<1>2. ~Ticketed(j)
  BY <1>1 DEF Inv, Consistent, TicketIsWaiting, Waiting
<1>3. ~Unpushed(j)
  BY <1>1 DEF Inv, Consistent, RequestsOK, Unpushed, Waiting, Absent, NewJob
<1>4. TypeOK'
  BY <1>1, SMTT(15) DEF Inv, TypeOK, QueueTypeOK, SchedulerTypeOK, Label, SyncLabel,
     queueVars, requestVars
<1>5. LocalsOK' /\ StoredOK' /\ JobStateOK'
  BY <1>1, SMTT(15) DEF Inv, Consistent, LocalsOK, StoredOK, JobStateOK, IdleLabel,
     GetLabel, SyncLabel, queueVars
<1>6. SnapshotCurrent' /\ RequestsOK'
  BY SMTT(15) DEF Inv, Consistent, ProbeTimeout, SnapshotCurrent, RequestsOK, queueVars,
     requestVars
<1>7. OneTicket' /\ TicketIsWaiting'
  BY <1>1, <1>2, <1>3, SMTT(15) DEF Inv, Consistent, OneTicket, TicketIsWaiting, Held,
     Unpushed, Ticketed, InReady, queueVars, requestVars
<1> QED
  BY <1>4, <1>5, <1>6, <1>7 DEF Inv, Consistent

\* The end that a sync found is saved.
LEMMA SyncSaveKeeps ==
    ASSUME Inv, NEW o, SyncSave(o), UNCHANGED requestVars
    PROVE  Inv'
<1>1. /\ hand \in Jobs /\ job \in JobRecord
      /\ jobs' \in [Jobs -> JobRecord \cup {Absent}]
      /\ \A k \in Jobs : k # hand => jobs'[k] = jobs[k]
  BY HoldsJob, SaveEffect DEF SyncSave, IdleLabel, GetLabel, Raised, Applied
<1>2. /\ (jobs'[hand] = jobs[hand] \/ jobs'[hand] = job)
      /\ ~Raised(o) => jobs'[hand] = job
  BY HoldsJob, SaveEffect DEF SyncSave, IdleLabel, GetLabel, Raised, Applied
<1>3. /\ pc = "sync_save" /\ pc' \in {"sync", "sync_store"} /\ hand' \in {hand, NoJob}
      /\ ready' = ready /\ delayed' = delayed /\ enq' = enq /\ snap' \in {snap, EmptySnap}
  BY DEF SyncSave, LoopTop, Await, requestVars
<1>4. ~Ticketed(hand)
  BY <1>1, <1>3 DEF Inv, Consistent, StoredOK, TicketIsWaiting, Waiting
<1>5. DOMAIN snap \subseteq Jobs
  BY DEF Inv, TypeOK, SchedulerTypeOK
<1>6. TypeOK'
  BY <1>1, <1>2, SMTT(15) DEF Inv, SyncSave, TypeOK, QueueTypeOK, SchedulerTypeOK,
     LocalsOK, JobState, Label, IdleLabel, SyncLabel, Await, LoopTop, EmptySnap,
     requestVars
<1>7. LocalsOK' /\ StoredOK' /\ JobStateOK'
  BY <1>1, <1>2, SMTT(15) DEF Inv, Consistent, SyncSave, LocalsOK, StoredOK, JobStateOK,
     IdleLabel, GetLabel, SyncLabel, Await, LoopTop, EmptySnap
<1>8. SnapshotCurrent' /\ RequestsOK'
  BY <1>1, <1>3, <1>5, SMTT(15) DEF Inv, Consistent, SnapshotCurrent, RequestsOK,
     OneTicket, Unpushed, EmptySnap, requestVars
<1>9. OneTicket' /\ TicketIsWaiting'
  BY <1>1, <1>3, <1>4, SMTT(15) DEF Inv, Consistent, OneTicket, TicketIsWaiting, Held,
     Unpushed, Ticketed, InReady
<1> QED
  BY <1>6, <1>7, <1>8, <1>9 DEF Inv, Consistent

\* The end that a sync found is written to the database.
LEMMA SyncStoreKeeps ==
    ASSUME Inv, NEW o, SyncStore(o), UNCHANGED requestVars
    PROVE  Inv'
<1>1. store' \in [Jobs -> JobState \cup {"ABSENT"}]
  BY StoreEffect DEF SyncStore, IdleLabel, GetLabel
<1>2. TypeOK'
  BY <1>1, SMTT(15) DEF Inv, SyncStore, TypeOK, QueueTypeOK, SchedulerTypeOK, LocalsOK,
     Waiting, Terminal, JobState, Label, IdleLabel, BeforePost, LoopTop, EmptySnap,
     queueVars, requestVars
<1>3. LocalsOK' /\ StoredOK' /\ JobStateOK'
  BY SMTT(15) DEF Inv, Consistent, SyncStore, LocalsOK, StoredOK, JobStateOK, IdleLabel,
     LoopTop, EmptySnap
<1>4. SnapshotCurrent' /\ RequestsOK'
  BY SMTT(15) DEF Inv, Consistent, SyncStore, TypeOK, SchedulerTypeOK, SnapshotCurrent,
     RequestsOK, LoopTop, EmptySnap, queueVars, requestVars
<1>5. OneTicket' /\ TicketIsWaiting'
  BY SMTT(15) DEF Inv, Consistent, SyncStore, OneTicket, TicketIsWaiting, Ticketed,
     InReady, Held, Unpushed, LoopTop, queueVars, requestVars
<1> QED
  BY <1>2, <1>3, <1>4, <1>5 DEF Inv, Consistent

\* The sync ends.
LEMMA SyncDoneKeeps ==
    ASSUME Inv, SyncDone, UNCHANGED requestVars
    PROVE  Inv'
<1>1. TypeOK'
  BY SMTT(15) DEF Inv, SyncDone, TypeOK, QueueTypeOK, SchedulerTypeOK, Label, IdleLabel,
     Await, queueVars, requestVars
<1>2. LocalsOK' /\ StoredOK' /\ JobStateOK'
  BY SMTT(15) DEF Inv, Consistent, SyncDone, LocalsOK, StoredOK, JobStateOK, IdleLabel,
     Await
<1>3. SnapshotCurrent' /\ RequestsOK'
  BY SMTT(15) DEF Inv, Consistent, SyncDone, SnapshotCurrent, RequestsOK, Await,
     queueVars, requestVars
<1>4. OneTicket' /\ TicketIsWaiting'
  BY SMTT(15) DEF Inv, Consistent, SyncDone, OneTicket, TicketIsWaiting, Ticketed,
     InReady, Held, Unpushed, Await, queueVars, requestVars
<1> QED
  BY <1>1, <1>2, <1>3, <1>4 DEF Inv, Consistent

\* The popped job is loaded, waiting.
LEMMA GetKeeps ==
    ASSUME Inv, NEW o, Get(o), UNCHANGED requestVars
    PROVE  Inv'
<1>1. TypeOK'
  BY SMTT(15) DEF Inv, Consistent, Get, TypeOK, QueueTypeOK, SchedulerTypeOK, LocalsOK,
     JobState, Label, IdleLabel, BeforePost, SyncLabel, Await, LoopTop, EmptySnap,
     queueVars, requestVars
<1>2. LocalsOK' /\ StoredOK' /\ JobStateOK'
  BY SMTT(15) DEF Inv, Consistent, Get, TypeOK, QueueTypeOK, LocalsOK, StoredOK,
     JobStateOK, IdleLabel, GetLabel, SyncLabel, Await, LoopTop, EmptySnap, queueVars
<1>3. SnapshotCurrent' /\ RequestsOK'
  BY SMTT(15) DEF Inv, Consistent, Get, SnapshotCurrent, RequestsOK, Await, LoopTop,
     EmptySnap, queueVars, requestVars
<1>4. OneTicket' /\ TicketIsWaiting'
  BY SMTT(15) DEF Inv, Consistent, Get, SchedulerTypeOK, OneTicket, TicketIsWaiting,
     Ticketed, InReady, Held, Unpushed, Await, LoopTop, queueVars, requestVars
<1> QED
  BY <1>1, <1>2, <1>3, <1>4 DEF Inv, Consistent

\* No worker has capacity.
LEMMA SelectNoneKeeps ==
    ASSUME Inv, SelectNone, UNCHANGED requestVars
    PROVE  Inv'
<1>1. job' \in JobRecord /\ job'.state = "RETRYING"
  BY SelectNoneEffect
<1>2. TypeOK'
  BY <1>1, SMTT(15) DEF Inv, SelectNone, TypeOK, QueueTypeOK, SchedulerTypeOK, Waiting,
     Terminal, JobState, Label, BeforePost, Await, queueVars, requestVars
<1>3. LocalsOK' /\ StoredOK' /\ JobStateOK'
  BY <1>1, SMTT(15) DEF Inv, Consistent, SelectNone, LocalsOK, StoredOK, JobStateOK,
     IdleLabel, GetLabel, SyncLabel, Await, queueVars
<1>4. SnapshotCurrent' /\ RequestsOK'
  BY SMTT(15) DEF Inv, Consistent, SelectNone, SnapshotCurrent, RequestsOK, Await,
     queueVars, requestVars
<1>5. OneTicket' /\ TicketIsWaiting'
  BY SMTT(15) DEF Inv, Consistent, SelectNone, OneTicket, TicketIsWaiting, Ticketed,
     InReady, Held, Unpushed, Await, queueVars, requestVars
<1> QED
  BY <1>2, <1>3, <1>4, <1>5 DEF Inv, Consistent

\* The job that waits on is saved.
LEMMA WaitSaveKeeps ==
    ASSUME Inv, NEW o, WaitSave(o), UNCHANGED requestVars
    PROVE  Inv'
<1>1. /\ hand \in Jobs /\ job \in JobRecord
      /\ jobs' \in [Jobs -> JobRecord \cup {Absent}]
      /\ \A k \in Jobs : k # hand => jobs'[k] = jobs[k]
      /\ (jobs'[hand] = jobs[hand] \/ jobs'[hand] = job)
      /\ ~Raised(o) => jobs'[hand] = job
  BY HoldsJob, SaveEffect DEF WaitSave, IdleLabel, GetLabel, Raised, Applied
<1>2. TypeOK'
  BY <1>1, SMTT(15) DEF Inv, WaitSave, TypeOK, QueueTypeOK, SchedulerTypeOK, Waiting,
     Label, IdleLabel, BeforePost, AfterPost, SyncLabel, Await, LoopTop, EmptySnap,
     requestVars
<1>3. LocalsOK' /\ StoredOK' /\ JobStateOK'
  BY <1>1, SMTT(15) DEF Inv, Consistent, WaitSave, LocalsOK, StoredOK, JobStateOK,
     Waiting, IdleLabel, GetLabel, SyncLabel, Await, LoopTop, EmptySnap
<1>4. SnapshotCurrent' /\ RequestsOK'
  BY <1>1, SMTT(15) DEF Inv, Consistent, WaitSave, LocalsOK, SnapshotCurrent,
     RequestsOK, OneTicket, Unpushed, SyncLabel, Await, LoopTop, EmptySnap, requestVars
<1>5. OneTicket' /\ TicketIsWaiting'
  BY <1>1, SMTT(15) DEF Inv, Consistent, WaitSave, OneTicket, TicketIsWaiting, Ticketed,
     InReady, Held, Unpushed, Await, LoopTop, EmptySnap, requestVars
<1> QED
  BY <1>2, <1>3, <1>4, <1>5 DEF Inv, Consistent

\* A worker is chosen.
LEMMA SelectWorkerKeeps ==
    ASSUME Inv, NEW w \in Workers, SelectWorker(w), UNCHANGED requestVars
    PROVE  Inv'
<1>1. /\ job' \in JobRecord /\ job'.state = "ASSIGNED" /\ job'.worker # NoWorker
      /\ age' \in [Jobs -> Age] /\ pc = "select"
      /\ pc' = "mark_active" /\ UNCHANGED <<hand, attempt, snap, queueVars, store, copies>>
  BY SelectWorkerEffect DEF SelectWorker, Await
<1>2. TypeOK'
  BY <1>1, SMTT(15) DEF Inv, TypeOK, QueueTypeOK, SchedulerTypeOK, Label, BeforePost,
     queueVars, requestVars
<1>3. LocalsOK' /\ StoredOK' /\ JobStateOK'
  BY <1>1, SMTT(15) DEF Inv, Consistent, LocalsOK, StoredOK, JobStateOK, IdleLabel,
     GetLabel, SyncLabel, queueVars
<1>4. SnapshotCurrent' /\ RequestsOK'
  BY <1>1, SMTT(15) DEF Inv, Consistent, SnapshotCurrent, RequestsOK, queueVars,
     requestVars
<1>5. OneTicket' /\ TicketIsWaiting'
  BY <1>1, SMTT(15) DEF Inv, Consistent, SchedulerTypeOK, OneTicket, TicketIsWaiting,
     Ticketed, InReady, Held, Unpushed, queueVars, requestVars
<1> QED
  BY <1>2, <1>3, <1>4, <1>5 DEF Inv, Consistent

\* The job enters the active hash.
LEMMA MarkActiveKeeps ==
    ASSUME Inv, NEW o, MarkActive(o), UNCHANGED requestVars
    PROVE  Inv'
<1>1. TypeOK'
  BY SMTT(15) DEF Inv, Consistent, MarkActive, AddActive, TypeOK, QueueTypeOK,
     SchedulerTypeOK, LocalsOK, JobState, Label, IdleLabel, GetLabel, BeforePost, Await,
     LoopTop, EmptySnap, requestVars
<1>2. LocalsOK' /\ StoredOK' /\ JobStateOK'
  BY SMTT(15) DEF Inv, Consistent, MarkActive, LocalsOK, StoredOK, JobStateOK,
     IdleLabel, GetLabel, SyncLabel, Await, LoopTop, EmptySnap
<1>3. SnapshotCurrent' /\ RequestsOK'
  BY SMTT(15) DEF Inv, Consistent, MarkActive, SnapshotCurrent, RequestsOK, Await,
     LoopTop, EmptySnap, requestVars
<1>4. OneTicket' /\ TicketIsWaiting'
  BY SMTT(15) DEF Inv, Consistent, MarkActive, OneTicket, TicketIsWaiting, Ticketed,
     InReady, Held, Unpushed, Await, LoopTop, requestVars
<1> QED
  BY <1>1, <1>2, <1>3, <1>4 DEF Inv, Consistent

\* The assignment is saved over the waiting form.
LEMMA MarkSaveKeeps ==
    ASSUME Inv, NEW o, MarkSave(o), UNCHANGED requestVars
    PROVE  Inv'
<1>1. /\ hand \in Jobs /\ job \in JobRecord
      /\ jobs' \in [Jobs -> JobRecord \cup {Absent}]
      /\ \A k \in Jobs : k # hand => jobs'[k] = jobs[k]
      /\ (jobs'[hand] = jobs[hand] \/ jobs'[hand] = job)
      /\ ~Raised(o) => jobs'[hand] = job
  BY HoldsJob, SaveEffect DEF MarkSave, IdleLabel, GetLabel, Raised, Applied
<1>2. TypeOK'
  BY <1>1, SMTT(15) DEF Inv, MarkSave, TypeOK, QueueTypeOK, SchedulerTypeOK, Waiting,
     JobState, Label, IdleLabel, BeforePost, Await, LoopTop, EmptySnap, requestVars
<1>3. LocalsOK' /\ StoredOK' /\ JobStateOK'
  BY <1>1, SMTT(15) DEF Inv, Consistent, MarkSave, LocalsOK, StoredOK, JobStateOK,
     InAttempt, IdleLabel, GetLabel, SyncLabel, Await, LoopTop, EmptySnap
<1>4. SnapshotCurrent' /\ RequestsOK'
  BY <1>1, SMTT(15) DEF Inv, Consistent, MarkSave, LocalsOK, StoredOK, SnapshotCurrent,
     RequestsOK, OneTicket, Unpushed, IdleLabel, GetLabel, Await, LoopTop, EmptySnap,
     requestVars
<1>5. OneTicket' /\ TicketIsWaiting'
  BY <1>1, SMTT(15) DEF Inv, Consistent, MarkSave, OneTicket, TicketIsWaiting, Ticketed,
     InReady, Held, Unpushed, Await, LoopTop, EmptySnap, requestVars
<1> QED
  BY <1>2, <1>3, <1>4, <1>5 DEF Inv, Consistent

\* The assignment is written to the database.
LEMMA MarkStoreKeeps ==
    ASSUME Inv, NEW o, MarkStore(o), UNCHANGED requestVars
    PROVE  Inv'
<1>1. store' \in [Jobs -> JobState \cup {"ABSENT"}]
  BY StoreEffect DEF MarkStore, IdleLabel, GetLabel
<1>2. TypeOK'
  BY <1>1, SMTT(15) DEF Inv, MarkStore, TypeOK, QueueTypeOK, SchedulerTypeOK, Waiting,
     Terminal, JobState, Label, IdleLabel, BeforePost, AfterPost, SyncLabel, LoopTop,
     EmptySnap, queueVars, requestVars
<1>3. LocalsOK' /\ StoredOK' /\ JobStateOK'
  BY SMTT(15) DEF Inv, Consistent, MarkStore, LocalsOK, StoredOK, JobStateOK, IdleLabel,
     GetLabel, SyncLabel, LoopTop, EmptySnap, queueVars
<1>4. SnapshotCurrent' /\ RequestsOK'
  BY SMTT(15) DEF Inv, Consistent, MarkStore, SnapshotCurrent, RequestsOK, LoopTop,
     EmptySnap, queueVars, requestVars
<1>5. OneTicket' /\ TicketIsWaiting'
  BY SMTT(15) DEF Inv, Consistent, MarkStore, QueueTypeOK, SchedulerTypeOK, OneTicket,
     TicketIsWaiting, Ticketed, InReady, Held, Unpushed, LoopTop, queueVars, requestVars
<1> QED
  BY <1>2, <1>3, <1>4, <1>5 DEF Inv, Consistent

\* The worker names its local job.
LEMMA PostAcceptedKeeps ==
    ASSUME Inv, PostAccepted, UNCHANGED requestVars
    PROVE  Inv'
<1>1. /\ job' \in JobRecord /\ job'.state = "PROCESSING"
      /\ copies' \in [Jobs -> Seq(Copy)] /\ pc = "post"
      /\ pc' = "ok_hdel" /\ attempt' = 0 /\ UNCHANGED <<hand, snap, queueVars, store, age>>
  BY AcceptedEffect DEF PostAccepted
<1>2. TypeOK'
  BY <1>1, SMTT(15) DEF Inv, PostAccepted, TypeOK, QueueTypeOK, SchedulerTypeOK, Label,
     AfterPost, queueVars, requestVars
<1>3. LocalsOK' /\ StoredOK' /\ JobStateOK'
  BY <1>1, SMTT(15) DEF Inv, Consistent, LocalsOK, StoredOK, JobStateOK, IdleLabel,
     GetLabel, SyncLabel, queueVars
<1>4. SnapshotCurrent' /\ RequestsOK'
  BY <1>1, SMTT(15) DEF Inv, Consistent, SnapshotCurrent, RequestsOK, queueVars,
     requestVars
<1>5. OneTicket' /\ TicketIsWaiting'
  BY <1>1, SMTT(15) DEF Inv, Consistent, LocalsOK, StoredOK, OneTicket, TicketIsWaiting,
     Ticketed, InReady, Held, Unpushed, queueVars, requestVars
<1> QED
  BY <1>2, <1>3, <1>4, <1>5 DEF Inv, Consistent

\* The request is sent again.
LEMMA PostRetriedKeeps ==
    ASSUME Inv, PostRetried, UNCHANGED requestVars
    PROVE  Inv'
<1>1. copies' \in [Jobs -> Seq(Copy)]
  BY TakeEffect DEF PostRetried
<1>2. TypeOK'
  BY <1>1, SMTT(15) DEF Inv, PostRetried, TypeOK, QueueTypeOK, SchedulerTypeOK,
     queueVars, requestVars
<1>3. LocalsOK' /\ StoredOK' /\ JobStateOK'
  BY SMTT(15) DEF Inv, Consistent, PostRetried, TypeOK, SchedulerTypeOK, LocalsOK,
     StoredOK, JobStateOK, IdleLabel, queueVars
<1>4. SnapshotCurrent' /\ RequestsOK'
  BY SMTT(15) DEF Inv, Consistent, PostRetried, SnapshotCurrent, RequestsOK, queueVars,
     requestVars
<1>5. OneTicket' /\ TicketIsWaiting'
  BY SMTT(15) DEF Inv, Consistent, PostRetried, OneTicket, TicketIsWaiting, Ticketed,
     InReady, Held, Unpushed, queueVars, requestVars
<1> QED
  BY <1>2, <1>3, <1>4, <1>5 DEF Inv, Consistent

\* The request failed for good.
LEMMA PostFailedKeeps ==
    ASSUME Inv, PostFailed, UNCHANGED requestVars
    PROVE  Inv'
<1>1. /\ job' \in JobRecord /\ job'.state = job.state
      /\ copies' \in [Jobs -> Seq(Copy)] /\ pc = "post"
      /\ pc' = "fail_hdel" /\ attempt' = 0 /\ UNCHANGED <<hand, snap, queueVars, store, age>>
  BY TakeEffect, FailedEffect DEF PostFailed, DispatchFailed, IdleLabel, GetLabel
<1>2. TypeOK'
  BY <1>1, SMTT(15) DEF Inv, TypeOK, QueueTypeOK, SchedulerTypeOK, Label, AfterPost,
     queueVars, requestVars
<1>3. LocalsOK' /\ StoredOK' /\ JobStateOK'
  BY <1>1, SMTT(15) DEF Inv, Consistent, LocalsOK, StoredOK, JobStateOK, InAttempt,
     IdleLabel, GetLabel, SyncLabel, queueVars
<1>4. SnapshotCurrent' /\ RequestsOK'
  BY SMTT(15) DEF Inv, Consistent, PostFailed, DispatchFailed, SnapshotCurrent,
     RequestsOK, queueVars, requestVars
<1>5. OneTicket' /\ TicketIsWaiting'
  BY SMTT(15) DEF Inv, Consistent, PostFailed, DispatchFailed, OneTicket,
     TicketIsWaiting, Ticketed, InReady, Held, Unpushed, queueVars, requestVars
<1> QED
  BY <1>2, <1>3, <1>4, <1>5 DEF Inv, Consistent

\* A dispatched job leaves the active hash.
LEMMA OkHdelKeeps ==
    ASSUME Inv, NEW o, OkHdel(o), UNCHANGED requestVars
    PROVE  Inv'
<1>1. DispatchFailed =>
        /\ job' \in JobRecord /\ job'.state = job.state
        /\ pc' = "fail_hdel" /\ attempt' = 0 /\ UNCHANGED <<hand, snap>>
  BY FailedEffect DEF OkHdel, DispatchFailed, IdleLabel, GetLabel
<1>2. TypeOK'
  BY <1>1, SMTT(15) DEF Inv, OkHdel, DropActive, TypeOK, QueueTypeOK, SchedulerTypeOK,
     Label, AfterPost, Await, requestVars
<1>3. LocalsOK' /\ StoredOK' /\ JobStateOK'
  BY <1>1, SMTT(15) DEF Inv, Consistent, OkHdel, LocalsOK, StoredOK, JobStateOK,
     InAttempt, IdleLabel, GetLabel, SyncLabel, Await
<1>4. SnapshotCurrent' /\ RequestsOK'
  BY SMTT(15) DEF Inv, Consistent, OkHdel, SnapshotCurrent, RequestsOK, Await,
     DispatchFailed, requestVars
<1>5. OneTicket' /\ TicketIsWaiting'
  BY SMTT(15) DEF Inv, Consistent, OkHdel, OneTicket, TicketIsWaiting, Ticketed,
     InReady, Held, Unpushed, Await, DispatchFailed, requestVars
<1> QED
  BY <1>2, <1>3, <1>4, <1>5 DEF Inv, Consistent

\* A dispatched job is saved.
LEMMA OkSaveKeeps ==
    ASSUME Inv, NEW o, OkSave(o), UNCHANGED requestVars
    PROVE  Inv'
<1>1. /\ hand \in Jobs /\ job \in JobRecord
      /\ jobs' \in [Jobs -> JobRecord \cup {Absent}]
      /\ \A k \in Jobs : k # hand => jobs'[k] = jobs[k]
  BY HoldsJob, SaveEffect DEF OkSave, IdleLabel, GetLabel, Raised, Applied
<1>2. /\ (jobs'[hand] = jobs[hand] \/ jobs'[hand] = job)
      /\ ~Raised(o) => jobs'[hand] = job
      /\ DispatchFailed =>
           /\ job' \in JobRecord /\ job'.state = job.state
           /\ pc' = "fail_hdel" /\ attempt' = 0 /\ UNCHANGED <<hand, snap>>
  BY HoldsJob, SaveEffect, FailedEffect DEF OkSave, DispatchFailed, IdleLabel, GetLabel,
     Raised, Applied
<1>3. /\ pc = "ok_save" /\ pc' \in {"fail_hdel", "ok_store"} /\ hand' = hand /\ snap' = snap
      /\ ready' = ready /\ delayed' = delayed /\ enq' = enq
  BY DEF OkSave, DispatchFailed, Await, requestVars
<1>4. TypeOK'
  BY <1>1, <1>2, SMTT(15) DEF Inv, OkSave, TypeOK, QueueTypeOK, SchedulerTypeOK, Label,
     AfterPost, Await, requestVars
<1>5. LocalsOK' /\ StoredOK' /\ JobStateOK'
  BY <1>1, <1>2, SMTT(15) DEF Inv, Consistent, OkSave, LocalsOK, StoredOK, JobStateOK,
     InAttempt, IdleLabel, GetLabel, SyncLabel, Await
<1>6. SnapshotCurrent' /\ RequestsOK' /\ OneTicket' /\ TicketIsWaiting'
  BY <1>1, <1>3, SMTT(15) DEF Inv, Consistent, LocalsOK, StoredOK, SnapshotCurrent,
     RequestsOK, OneTicket, TicketIsWaiting, Ticketed, InReady, Held, Unpushed,
     IdleLabel, GetLabel
<1> QED
  BY <1>4, <1>5, <1>6 DEF Inv, Consistent

\* A dispatched job is written to the database.
LEMMA OkStoreKeeps ==
    ASSUME Inv, NEW o, OkStore(o), UNCHANGED requestVars
    PROVE  Inv'
<1>1. /\ store' \in [Jobs -> JobState \cup {"ABSENT"}]
      /\ DispatchFailed =>
           /\ job' \in JobRecord /\ job'.state = job.state
           /\ pc' = "fail_hdel" /\ attempt' = 0 /\ UNCHANGED <<hand, snap>>
  BY HoldsJob, StoreEffect, FailedEffect DEF OkStore, DispatchFailed, IdleLabel,
     GetLabel
<1>2. TypeOK'
  BY <1>1, SMTT(15) DEF Inv, OkStore, TypeOK, QueueTypeOK, SchedulerTypeOK, JobState,
     Label, IdleLabel, AfterPost, LoopTop, EmptySnap, queueVars, requestVars
<1>3. LocalsOK' /\ StoredOK' /\ JobStateOK'
  BY <1>1, SMTT(15) DEF Inv, Consistent, OkStore, LocalsOK, StoredOK, JobStateOK,
     InAttempt, IdleLabel, GetLabel, SyncLabel, LoopTop, EmptySnap, queueVars
<1>4. SnapshotCurrent' /\ RequestsOK'
  BY SMTT(15) DEF Inv, Consistent, OkStore, SnapshotCurrent, RequestsOK, LoopTop,
     EmptySnap, DispatchFailed, queueVars, requestVars
<1>5. OneTicket' /\ TicketIsWaiting'
  BY SMTT(15) DEF Inv, Consistent, OkStore, OneTicket, TicketIsWaiting, Ticketed,
     InReady, Held, Unpushed, LoopTop, DispatchFailed, queueVars, requestVars
<1> QED
  BY <1>2, <1>3, <1>4, <1>5 DEF Inv, Consistent

\* A job whose attempt failed leaves the active hash.
LEMMA FailHdelKeeps ==
    ASSUME Inv, NEW o, FailHdel(o), UNCHANGED requestVars
    PROVE  Inv'
<1>1. TypeOK'
  BY SMTT(15) DEF Inv, FailHdel, DropActive, TypeOK, QueueTypeOK, SchedulerTypeOK,
     Waiting, Terminal, Label, IdleLabel, AfterPost, Await, LoopTop, EmptySnap,
     requestVars
<1>2. LocalsOK' /\ StoredOK' /\ JobStateOK'
  BY SMTT(15) DEF Inv, Consistent, FailHdel, LocalsOK, StoredOK, JobStateOK, IdleLabel,
     GetLabel, SyncLabel, Await, LoopTop, EmptySnap
<1>3. SnapshotCurrent' /\ RequestsOK'
  BY SMTT(15) DEF Inv, Consistent, FailHdel, SnapshotCurrent, RequestsOK, Await,
     LoopTop, EmptySnap, requestVars
<1>4. OneTicket' /\ TicketIsWaiting'
  BY SMTT(15) DEF Inv, Consistent, FailHdel, SchedulerTypeOK, OneTicket,
     TicketIsWaiting, Ticketed, InReady, Held, Unpushed, Await, LoopTop, requestVars
<1> QED
  BY <1>1, <1>2, <1>3, <1>4 DEF Inv, Consistent

\* The failed attempt is saved, and the job is put back or given up.
LEMMA FailSaveKeeps ==
    ASSUME Inv, NEW o, FailSave(o), UNCHANGED requestVars
    PROVE  Inv'
<1>1. /\ hand \in Jobs /\ job \in JobRecord
      /\ jobs' \in [Jobs -> JobRecord \cup {Absent}]
      /\ \A k \in Jobs : k # hand => jobs'[k] = jobs[k]
      /\ (jobs'[hand] = jobs[hand] \/ jobs'[hand] = job)
      /\ ~Raised(o) => jobs'[hand] = job
      /\ ~Raised(o) =>
            /\ job' \in JobRecord
            /\ \/ pc' = "requeue_save" /\ job'.state = "RETRYING"
               \/ pc' = "failed_save" /\ job'.state = "FAILED"
            /\ UNCHANGED <<hand, attempt, snap>>
      /\ Raised(o) => LoopTop
      /\ pc = "fail_save" /\ UNCHANGED <<ready, delayed, active, jobIds, store, copies, age>>
  BY HoldsJob, SaveEffect, FailSaveEffect DEF FailSave, Await, IdleLabel, GetLabel,
     Raised, Applied
<1>2. TypeOK'
  BY <1>1, SMTT(15) DEF Inv, Consistent, TypeOK, QueueTypeOK, SchedulerTypeOK, LocalsOK,
     Label, IdleLabel, GetLabel, BeforePost, AfterPost, LoopTop, EmptySnap, requestVars
<1>3. LocalsOK' /\ StoredOK' /\ JobStateOK'
  BY <1>1, SMTT(15) DEF Inv, Consistent, LocalsOK, StoredOK, JobStateOK, IdleLabel,
     GetLabel, SyncLabel, LoopTop, EmptySnap
<1>4. SnapshotCurrent' /\ RequestsOK'
  BY <1>1, SMTT(15) DEF Inv, Consistent, LocalsOK, SnapshotCurrent, RequestsOK,
     OneTicket, Unpushed, SyncLabel, LoopTop, EmptySnap, requestVars
<1>5. OneTicket' /\ TicketIsWaiting'
  BY <1>1, SMTT(15) DEF Inv, Consistent, OneTicket, TicketIsWaiting, Ticketed, InReady,
     Held, Unpushed, LoopTop, requestVars
<1> QED
  BY <1>2, <1>3, <1>4, <1>5 DEF Inv, Consistent

\* The job to be put back is saved as waiting before its id is pushed.
LEMMA RequeueSaveKeeps ==
    ASSUME Inv, NEW o, RequeueSave(o), UNCHANGED requestVars
    PROVE  Inv'
<1>1. /\ hand \in Jobs /\ job \in JobRecord
      /\ jobs' \in [Jobs -> JobRecord \cup {Absent}]
      /\ \A k \in Jobs : k # hand => jobs'[k] = jobs[k]
      /\ (jobs'[hand] = jobs[hand] \/ jobs'[hand] = job)
      /\ ~Raised(o) => jobs'[hand] = job
  BY HoldsJob, SaveEffect DEF RequeueSave, IdleLabel, GetLabel, Raised, Applied
<1>2. /\ pc = "requeue_save" /\ pc' \in {"sync", "requeue_push"} /\ hand' \in {hand, NoJob}
      /\ ready' = ready /\ delayed' = delayed /\ enq' = enq
  BY DEF RequeueSave, LoopTop, Await, requestVars
<1>3. ~Ticketed(hand)
  BY <1>1, <1>2 DEF Inv, Consistent, OneTicket, Held
<1>4. TypeOK'
  BY <1>1, SMTT(15) DEF Inv, RequeueSave, TypeOK, QueueTypeOK, SchedulerTypeOK, Waiting,
     JobState, Label, IdleLabel, BeforePost, AfterPost, Await, LoopTop, EmptySnap,
     requestVars
<1>5. LocalsOK' /\ StoredOK' /\ JobStateOK'
  BY <1>1, SMTT(15) DEF Inv, Consistent, RequeueSave, LocalsOK, StoredOK, JobStateOK,
     Waiting, IdleLabel, GetLabel, SyncLabel, Await, LoopTop, EmptySnap
<1>6. SnapshotCurrent' /\ RequestsOK'
  BY <1>1, SMTT(15) DEF Inv, Consistent, RequeueSave, LocalsOK, SnapshotCurrent,
     RequestsOK, OneTicket, Unpushed, SyncLabel, Await, LoopTop, EmptySnap, requestVars
<1>7. OneTicket' /\ TicketIsWaiting'
  BY <1>1, <1>2, <1>3, SMTT(15) DEF Inv, Consistent, OneTicket, TicketIsWaiting, Held,
     Unpushed, Ticketed, InReady
<1> QED
  BY <1>4, <1>5, <1>6, <1>7 DEF Inv, Consistent

\* The job given up is saved.
LEMMA FailedSaveKeeps ==
    ASSUME Inv, NEW o, FailedSave(o), UNCHANGED requestVars
    PROVE  Inv'
<1>1. /\ hand \in Jobs /\ job \in JobRecord
      /\ jobs' \in [Jobs -> JobRecord \cup {Absent}]
      /\ \A k \in Jobs : k # hand => jobs'[k] = jobs[k]
      /\ (jobs'[hand] = jobs[hand] \/ jobs'[hand] = job)
      /\ ~Raised(o) => jobs'[hand] = job
  BY HoldsJob, SaveEffect DEF FailedSave, IdleLabel, GetLabel, Raised, Applied
<1>2. /\ pc = "failed_save" /\ pc' \in {"sync", "fail_store"} /\ hand' \in {hand, NoJob}
      /\ ready' = ready /\ delayed' = delayed /\ enq' = enq
  BY DEF FailedSave, LoopTop, Await, requestVars
<1>3. ~Ticketed(hand)
  BY <1>1, <1>2 DEF Inv, Consistent, OneTicket, Held
<1>4. TypeOK'
  BY <1>1, SMTT(15) DEF Inv, FailedSave, TypeOK, QueueTypeOK, SchedulerTypeOK, Waiting,
     Label, IdleLabel, AfterPost, Await, LoopTop, EmptySnap, requestVars
<1>5. LocalsOK' /\ StoredOK' /\ JobStateOK'
  BY <1>1, SMTT(15) DEF Inv, Consistent, FailedSave, LocalsOK, StoredOK, JobStateOK,
     IdleLabel, GetLabel, SyncLabel, Await, LoopTop, EmptySnap
<1>6. SnapshotCurrent' /\ RequestsOK'
  BY <1>1, SMTT(15) DEF Inv, Consistent, FailedSave, LocalsOK, SnapshotCurrent,
     RequestsOK, OneTicket, Unpushed, SyncLabel, Await, LoopTop, EmptySnap, requestVars
<1>7. OneTicket' /\ TicketIsWaiting'
  BY <1>1, <1>2, <1>3, SMTT(15) DEF Inv, Consistent, OneTicket, TicketIsWaiting, Held,
     Unpushed, Ticketed, InReady
<1> QED
  BY <1>4, <1>5, <1>6, <1>7 DEF Inv, Consistent

\* The result of a failed attempt is written to the database.
LEMMA FailStoreKeeps ==
    ASSUME Inv, NEW o, FailStore(o), UNCHANGED requestVars
    PROVE  Inv'
<1>1. store' \in [Jobs -> JobState \cup {"ABSENT"}]
  BY StoreEffect DEF FailStore, IdleLabel, GetLabel
<1>2. TypeOK'
  BY <1>1, SMTT(15) DEF Inv, FailStore, TypeOK, QueueTypeOK, SchedulerTypeOK, Label,
     IdleLabel, LoopTop, EmptySnap, queueVars, requestVars
<1>3. LocalsOK' /\ StoredOK' /\ JobStateOK'
  BY SMTT(15) DEF Inv, Consistent, FailStore, LocalsOK, StoredOK, JobStateOK, IdleLabel,
     LoopTop, EmptySnap
<1>4. SnapshotCurrent' /\ RequestsOK'
  BY SMTT(15) DEF Inv, Consistent, FailStore, SnapshotCurrent, RequestsOK, LoopTop,
     EmptySnap, queueVars, requestVars
<1>5. OneTicket' /\ TicketIsWaiting'
  BY SMTT(15) DEF Inv, Consistent, FailStore, SchedulerTypeOK, OneTicket,
     TicketIsWaiting, Ticketed, InReady, Held, Unpushed, LoopTop, queueVars, requestVars
<1> QED
  BY <1>2, <1>3, <1>4, <1>5 DEF Inv, Consistent

-----------------------------------------------------------------------------
(* The steps that move a ticket.                                           *)

\* Releasing the due ids duplicates no ticket.
LEMMA ReleaseKeeps ==
    ASSUME Inv, NEW o, Release(o), UNCHANGED requestVars
    PROVE  Inv'
<1>1. /\ pc = "release" /\ pc' \in {"sync", "rpop"}
      /\ hand = NoJob /\ hand' = NoJob /\ job' = Absent /\ DOMAIN snap = {} /\ DOMAIN snap' = {}
      /\ attempt' \in 0 .. PostAttempts
      /\ UNCHANGED <<active, jobs, jobIds, store, copies, age, enq, sweepAt, sweepIds>>
  BY DEF Release, LoopTop, Await, EmptySnap, requestVars, Inv, TypeOK, SchedulerTypeOK,
         Consistent, LocalsOK, IdleLabel, GetLabel, SyncLabel
<1>r. /\ ready' \in Seq(Jobs) /\ Distinct(ready')
      /\ delayed' \subseteq delayed
      /\ \A x : Occurs(ready', x) => x \notin delayed'
      /\ \A x : Occurs(ready', x) => Occurs(ready, x) \/ x \in delayed
  BY ReleaseEffect
<1>2. TypeOK'
  BY <1>1, <1>r DEF Inv, TypeOK, QueueTypeOK, SchedulerTypeOK, Label, IdleLabel
<1>3. LocalsOK' /\ StoredOK' /\ JobStateOK' /\ SnapshotCurrent' /\ RequestsOK'
  BY <1>1 DEF Inv, Consistent, LocalsOK, StoredOK, JobStateOK, SnapshotCurrent, RequestsOK,
              IdleLabel, GetLabel, SyncLabel
<1>4. OneTicket' /\ TicketIsWaiting'
  BY <1>1, <1>r DEF Inv, Consistent, OneTicket, TicketIsWaiting, Held, Unpushed,
              Ticketed, InReady, Occurs, Distinct
<1> QED
  BY <1>2, <1>3, <1>4 DEF Inv, Consistent

\* The popped id is the scheduler's, and in neither key any more.
LEMMA PopKeeps ==
    ASSUME Inv, NEW o, Pop(o), UNCHANGED requestVars
    PROVE  Inv'
<1>1. /\ pc = "rpop" /\ hand = NoJob /\ job = Absent /\ DOMAIN snap = {}
      /\ attempt \in 0 .. PostAttempts
      /\ UNCHANGED <<delayed, active, jobs, jobIds, store, copies, age, enq, sweepAt, sweepIds>>
  BY DEF Pop, requestVars, Inv, TypeOK, SchedulerTypeOK, Consistent, LocalsOK, IdleLabel,
         GetLabel, SyncLabel
<1>2. ready \in Seq(Jobs) /\ Distinct(ready)
  BY DEF Inv, TypeOK, QueueTypeOK, Consistent, OneTicket, Distinct
<1>3. /\ ready' \in Seq(Jobs) /\ Distinct(ready')
      /\ \A x : Occurs(ready', x) => Occurs(ready, x)
  BY <1>2, PopFacts DEF Pop, PopReady
<1>4. CASE LoopTop
  <2>1. /\ pc' = "sync" /\ hand' = NoJob /\ job' = Absent /\ DOMAIN snap' = {} /\ attempt' = 0
    BY <1>4 DEF LoopTop, EmptySnap
  <2>2. TypeOK'
    BY <1>1, <1>3, <2>1 DEF Inv, TypeOK, QueueTypeOK, SchedulerTypeOK, Label, IdleLabel
  <2>3. LocalsOK' /\ StoredOK' /\ JobStateOK' /\ SnapshotCurrent' /\ RequestsOK'
    BY <1>1, <2>1 DEF Inv, Consistent, LocalsOK, StoredOK, JobStateOK, SnapshotCurrent,
                RequestsOK, IdleLabel, GetLabel, SyncLabel
  <2>4. OneTicket' /\ TicketIsWaiting'
    BY <1>1, <1>3, <2>1 DEF Inv, Consistent, OneTicket, TicketIsWaiting, Held, Unpushed,
                Ticketed, InReady, Occurs, Distinct
  <2> QED
    BY <2>2, <2>3, <2>4 DEF Inv, Consistent
<1>5. CASE ~Raised(o) /\ ready # <<>> /\ pc' = "get" /\ hand' = Head(ready)
           /\ UNCHANGED <<job, attempt, snap>>
  <2>1. ready' = Tail(ready)
    BY <1>5 DEF Pop, PopReady, Raised, Applied
  <2>2. Head(ready) \in Jobs /\ Occurs(ready, Head(ready)) /\ ~Occurs(ready', Head(ready))
    BY <1>2, <1>5, <2>1, PopFacts
  <2> DEFINE h == Head(ready)
  <2> HIDE DEF h
  <2>3. h \in Jobs /\ hand' = h /\ Occurs(ready, h) /\ ~Occurs(ready', h)
    BY <1>5, <2>2 DEF h
  <2>4. jobs[h].state \in Waiting /\ h \notin delayed /\ ~Unpushed(h)
    BY <2>3 DEF Inv, Consistent, TicketIsWaiting, OneTicket, Ticketed, InReady, Occurs
  <2>5. TypeOK'
    BY <1>1, <1>3, <1>5, <2>3 DEF Inv, TypeOK, QueueTypeOK, SchedulerTypeOK, Label, GetLabel
  <2>6. LocalsOK' /\ StoredOK' /\ JobStateOK' /\ SnapshotCurrent' /\ RequestsOK'
    BY <1>1, <1>5, <2>3, <2>4 DEF Inv, Consistent, LocalsOK, StoredOK, JobStateOK,
                SnapshotCurrent, RequestsOK, IdleLabel, GetLabel, SyncLabel
  <2>7. OneTicket' /\ TicketIsWaiting'
    BY <1>1, <1>3, <1>5, <2>3, <2>4 DEF Inv, Consistent, OneTicket, TicketIsWaiting,
                Held, Unpushed, Ticketed, InReady, Occurs, Distinct
  <2> QED
    BY <2>5, <2>6, <2>7 DEF Inv, Consistent
<1> QED
  BY <1>4, <1>5 DEF Pop

\* The id goes back from the scheduler's hand to the queue.
LEMMA WaitPushKeeps ==
    ASSUME Inv, NEW o, WaitPush(o), UNCHANGED requestVars
    PROVE  Inv'
<1>1. /\ pc = "wait_push" /\ hand \in Jobs /\ job \in JobRecord /\ DOMAIN snap = {}
      /\ attempt \in 0 .. PostAttempts
      /\ Requeue(hand, 3, o)
      /\ UNCHANGED <<active, jobs, jobIds, store, copies, age, enq, sweepAt, sweepIds>>
  BY HoldsJob DEF WaitPush, requestVars, Inv, TypeOK, SchedulerTypeOK, Consistent, LocalsOK,
         IdleLabel, GetLabel, SyncLabel
<1>2. /\ \/ pc' = "sync" /\ hand' = NoJob /\ job' = Absent
         \/ pc' = "fail_store" /\ hand' = hand /\ job' = job
      /\ DOMAIN snap' = {} /\ attempt' \in 0 .. PostAttempts
  BY <1>1 DEF WaitPush, LoopTop, EmptySnap
<1>3. ~Ticketed(hand) /\ jobs[hand].state \in Waiting
  BY <1>1 DEF Inv, Consistent, OneTicket, StoredOK, Held
<1>4. /\ ready' \in Seq(Jobs) /\ Distinct(ready')
      /\ delayed' \subseteq Jobs
      /\ \A x : Occurs(ready', x) => Occurs(ready, x) \/ x = hand
      /\ \A x : x \in delayed' => x \in delayed \/ x = hand
      /\ \A x \in Jobs : ~(Occurs(ready', x) /\ x \in delayed')
  BY <1>1, <1>3, RequeueEffect
<1>5. TypeOK'
  BY <1>1, <1>2, <1>4 DEF Inv, TypeOK, QueueTypeOK, SchedulerTypeOK, Label, IdleLabel, AfterPost
<1>6. LocalsOK' /\ StoredOK' /\ JobStateOK' /\ SnapshotCurrent' /\ RequestsOK'
  BY <1>1, <1>2 DEF Inv, Consistent, LocalsOK, StoredOK, JobStateOK, SnapshotCurrent,
              RequestsOK, IdleLabel, GetLabel, SyncLabel
<1>7. TicketIsWaiting'
  BY <1>1, <1>3, <1>4 DEF Inv, Consistent, TicketIsWaiting, Ticketed, InReady, Occurs
<1>8. ~Unpushed(hand)
  BY <1>1 DEF Inv, Consistent, OneTicket
<1>9. \A k \in Jobs : Ticketed(k)' => Ticketed(k) \/ k = hand
  BY <1>4 DEF Ticketed, InReady, Occurs
<1>10. \A k \in Jobs : ~Held(k)'
  BY <1>1, <1>2 DEF Held
<1>11. OneTicket'
  BY <1>1, <1>2, <1>4, <1>8, <1>9, <1>10 DEF Inv, Consistent, OneTicket, Unpushed, InReady,
              Occurs, Distinct
<1> QED
  BY <1>5, <1>6, <1>7, <1>11 DEF Inv, Consistent

\* So does the id of a job that is to be tried again.
LEMMA RequeuePushKeeps ==
    ASSUME Inv, NEW o, RequeuePush(o), UNCHANGED requestVars
    PROVE  Inv'
<1>1. /\ pc = "requeue_push" /\ hand \in Jobs /\ job \in JobRecord /\ DOMAIN snap = {}
      /\ attempt \in 0 .. PostAttempts
      /\ Requeue(hand, RetryDelay, o)
      /\ UNCHANGED <<active, jobs, jobIds, store, copies, age, enq, sweepAt, sweepIds>>
  BY HoldsJob DEF RequeuePush, requestVars, Inv, TypeOK, SchedulerTypeOK, Consistent, LocalsOK,
         IdleLabel, GetLabel, SyncLabel
<1>2. /\ \/ pc' = "sync" /\ hand' = NoJob /\ job' = Absent
         \/ pc' = "fail_store" /\ hand' = hand /\ job' = job
      /\ DOMAIN snap' = {} /\ attempt' \in 0 .. PostAttempts
  BY <1>1 DEF RequeuePush, LoopTop, Await, EmptySnap
<1>3. ~Ticketed(hand) /\ jobs[hand].state \in Waiting
  BY <1>1 DEF Inv, Consistent, OneTicket, StoredOK, Held
<1>4. /\ ready' \in Seq(Jobs) /\ Distinct(ready')
      /\ delayed' \subseteq Jobs
      /\ \A x : Occurs(ready', x) => Occurs(ready, x) \/ x = hand
      /\ \A x : x \in delayed' => x \in delayed \/ x = hand
      /\ \A x \in Jobs : ~(Occurs(ready', x) /\ x \in delayed')
  BY <1>1, <1>3, RequeueEffect
<1>5. TypeOK'
  BY <1>1, <1>2, <1>4 DEF Inv, TypeOK, QueueTypeOK, SchedulerTypeOK, Label, IdleLabel, AfterPost
<1>6. LocalsOK' /\ StoredOK' /\ JobStateOK' /\ SnapshotCurrent' /\ RequestsOK'
  BY <1>1, <1>2 DEF Inv, Consistent, LocalsOK, StoredOK, JobStateOK, SnapshotCurrent,
              RequestsOK, IdleLabel, GetLabel, SyncLabel
<1>7. TicketIsWaiting'
  BY <1>1, <1>3, <1>4 DEF Inv, Consistent, TicketIsWaiting, Ticketed, InReady, Occurs
<1>8. ~Unpushed(hand)
  BY <1>1 DEF Inv, Consistent, OneTicket
<1>9. \A k \in Jobs : Ticketed(k)' => Ticketed(k) \/ k = hand
  BY <1>4 DEF Ticketed, InReady, Occurs
<1>10. \A k \in Jobs : ~Held(k)'
  BY <1>1, <1>2 DEF Held
<1>11. OneTicket'
  BY <1>1, <1>2, <1>4, <1>8, <1>9, <1>10 DEF Inv, Consistent, OneTicket, Unpushed, InReady,
              Occurs, Distinct
<1> QED
  BY <1>5, <1>6, <1>7, <1>11 DEF Inv, Consistent

=============================================================================
