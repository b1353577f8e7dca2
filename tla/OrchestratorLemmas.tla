------------------------- MODULE OrchestratorLemmas -------------------------
(***************************************************************************)
(* Facts the proofs about Orchestrator rest on: the ready list as a        *)
(* sequence of distinct ids, edits of job records, and what the moves that *)
(* several actions share do to tickets and locals in a state of the        *)
(* invariant Inv, which is type correctness together with Consistent.      *)
(***************************************************************************)
EXTENDS Orchestrator, FiniteSetTheorems, SequenceTheorems, TLAPS

Inv == TypeOK /\ Consistent

-----------------------------------------------------------------------------
(* The ready list.                                                         *)

Occurs(s, x) == \E i \in DOMAIN s : s[i] = x

Distinct(s) == \A a, b \in DOMAIN s : s[a] = s[b] => a = b

\* LPUSH puts the new id, and nothing else, into the list.
LEMMA PushFacts ==
    ASSUME NEW S, NEW s \in Seq(S), NEW e \in S
    PROVE  /\ Append(s, e) \in Seq(S)
           /\ \A x : Occurs(Append(s, e), x) <=> Occurs(s, x) \/ x = e
           /\ Distinct(s) /\ ~Occurs(s, e) => Distinct(Append(s, e))
<1> DEFINE r == Append(s, e)
<1>1. r \in Seq(S) /\ Len(r) = Len(s) + 1 /\ DOMAIN r = 1 .. Len(r)
  OBVIOUS
<1>2. r[Len(r)] = e /\ \A i \in 1 .. Len(s) : r[i] = s[i]
  OBVIOUS
<1>3. Len(s) \in Nat /\ DOMAIN s = 1 .. Len(s)
  OBVIOUS
<1> HIDE DEF r
<1>4. \A x : Occurs(r, x) => Occurs(s, x) \/ x = e
  BY <1>1, <1>2, <1>3 DEF Occurs
<1>5. \A x : Occurs(s, x) => Occurs(r, x)
  BY <1>1, <1>2, <1>3 DEF Occurs
<1>6. Occurs(r, e)
  BY <1>1, <1>2, <1>3 DEF Occurs
<1>7. Distinct(s) /\ ~Occurs(s, e) => Distinct(r)
  BY <1>1, <1>2, <1>3 DEF Occurs, Distinct
<1> QED
  BY <1>1, <1>4, <1>5, <1>6, <1>7 DEF r

\* RPOP takes the first id out of the list.
LEMMA PopFacts ==
    ASSUME NEW S, NEW s \in Seq(S), s # <<>>
    PROVE  /\ Head(s) \in S
           /\ Tail(s) \in Seq(S)
           /\ Occurs(s, Head(s))
           /\ \A x : Occurs(Tail(s), x) => Occurs(s, x)
           /\ Distinct(s) => Distinct(Tail(s)) /\ ~Occurs(Tail(s), Head(s))
  BY DEF Occurs, Distinct

\* The ids that fall due are distinct members of the delayed set.
LEMMA DueFacts ==
    ASSUME NEW S, IsFiniteSet(S), NEW due \in SetToAllKPermutations(S)
    PROVE  due \in Seq(S) /\ Distinct(due)
<1>1. PICK s \in SUBSET S : due \in SetToSeqs(s)
  BY DEF SetToAllKPermutations
<1>2. Cardinality(s) \in Nat
  BY FS_Subset, FS_CardinalityType
<1>3. due \in [1 .. Cardinality(s) -> s]
  BY <1>1 DEF SetToSeqs
<1>4. \A i, j \in 1 .. Cardinality(s) : i # j => due[i] # due[j]
  BY <1>1 DEF SetToSeqs
<1>5. due \in Seq(S)
  BY <1>2, <1>3
<1> QED
  BY <1>3, <1>4, <1>5 DEF Distinct

\* Releasing them keeps the ids of the list distinct.
LEMMA ReleaseFacts ==
    ASSUME NEW S, NEW s \in Seq(S), NEW t \in Seq(S)
    PROVE  /\ s \o t \in Seq(S)
           /\ \A x : Occurs(s \o t, x) <=> Occurs(s, x) \/ Occurs(t, x)
           /\ Distinct(s) /\ Distinct(t) /\ (\A x : ~(Occurs(s, x) /\ Occurs(t, x)))
                => Distinct(s \o t)
           /\ \A x : x \in Range(t) <=> Occurs(t, x)
<1>1. s \o t \in Seq(S)
  OBVIOUS
<1>2. /\ Len(s \o t) = Len(s) + Len(t)
      /\ \A i \in 1 .. Len(s) + Len(t) :
            (s \o t)[i] = IF i <= Len(s) THEN s[i] ELSE t[i - Len(s)]
  OBVIOUS
<1>3. ASSUME NEW x, Occurs(t, x)
      PROVE  Occurs(s \o t, x)
  <2>1. PICK i \in 1 .. Len(t) : t[i] = x
    BY <1>3 DEF Occurs
  <2>2. Len(s) + i \in 1 .. Len(s \o t) /\ (s \o t)[Len(s) + i] = x
    BY <1>2, <2>1
  <2> QED
    BY <1>1, <2>2 DEF Occurs
<1>4. ASSUME NEW x, Occurs(s, x)
      PROVE  Occurs(s \o t, x)
  BY <1>1, <1>2, <1>4 DEF Occurs
<1>5. ASSUME NEW x, Occurs(s \o t, x)
      PROVE  Occurs(s, x) \/ Occurs(t, x)
  BY <1>1, <1>2, <1>5 DEF Occurs
<1>6. ASSUME Distinct(s), Distinct(t), \A x : ~(Occurs(s, x) /\ Occurs(t, x)),
             NEW a \in 1 .. Len(s \o t), NEW b \in 1 .. Len(s \o t),
             (s \o t)[a] = (s \o t)[b]
      PROVE  a = b
  <2>1. CASE a <= Len(s) /\ b <= Len(s)
    BY <1>2, <1>6, <2>1 DEF Distinct
  <2>2. CASE a > Len(s) /\ b > Len(s)
    BY <1>2, <1>6, <2>2 DEF Distinct
  <2>3. ASSUME NEW c \in 1 .. Len(s), NEW d \in 1 .. Len(t)
        PROVE  s[c] # t[d]
    <3>1. Occurs(s, s[c])
      BY DEF Occurs
    <3>2. s[c] = t[d] => Occurs(t, s[c])
      BY DEF Occurs
    <3> QED
      BY <1>6, <3>1, <3>2
  <2>4. CASE a <= Len(s) /\ b > Len(s)
    BY <1>2, <1>6, <2>3, <2>4
  <2>5. CASE a > Len(s) /\ b <= Len(s)
    BY <1>2, <1>6, <2>3, <2>5
  <2> QED
    BY <2>1, <2>2, <2>4, <2>5
<1>7. \A x : x \in Range(t) <=> Occurs(t, x)
  BY DEF Range, Occurs
<1>8. DOMAIN (s \o t) = 1 .. Len(s \o t)
  BY <1>1
<1> QED
  BY <1>1, <1>3, <1>4, <1>5, <1>6, <1>7, <1>8 DEF Distinct

-----------------------------------------------------------------------------
USE QueueAssumption, SchedulerAssumption DEF Jobs, NoJob

\* What the assignments of the scheduler to a job object leave of it.
LEMMA RecordFields ==
    ASSUME NEW r \in JobRecord
    PROVE  r # Absent /\ r.state \in JobState /\ r.retries \in Nat /\ r.wjob \in Nat
  BY DEF JobRecord, JobState, Waiting, Terminal, Absent, NewJob

\* A new state leaves a job record one.
LEMMA StateEdit ==
    ASSUME NEW r \in JobRecord, NEW x \in JobState
    PROVE  [r EXCEPT !.state = x] \in JobRecord /\ [r EXCEPT !.state = x].state = x
  BY DEF JobRecord

\* So does the assignment to a worker.
LEMMA AssignEdit ==
    ASSUME NEW r \in JobRecord, NEW w \in Workers
    PROVE  LET s == [r EXCEPT !.worker = w, !.state = "ASSIGNED"]
           IN  s \in JobRecord /\ s.state = "ASSIGNED" /\ s.worker = w
  BY DEF JobRecord, JobState

\* So does the id of the local job.
LEMMA AcceptEdit ==
    ASSUME NEW r \in JobRecord, NEW n \in Nat
    PROVE  LET s == [r EXCEPT !.wjob = n, !.state = "PROCESSING"]
           IN  s \in JobRecord /\ s.state = "PROCESSING"
  BY DEF JobRecord, JobState

\* So does the count of a failed attempt.
LEMMA CountEdit ==
    ASSUME NEW r \in JobRecord
    PROVE  LET s == [r EXCEPT !.retries = @ + 1]
           IN  s \in JobRecord /\ s.state = r.state /\ s.retries = r.retries + 1
  BY DEF JobRecord

-----------------------------------------------------------------------------
(* The effects of the shared moves on the locals, in a state of Inv.       *)

\* Away from the idle labels the task holds a job object.
LEMMA HoldsJob ==
    ASSUME Inv, pc \notin IdleLabel \cup GetLabel
    PROVE  hand \in Jobs /\ job \in JobRecord
  BY DEF Inv, Consistent, LocalsOK

\* HSET of the job in hand replaces its stored form and no other.
LEMMA SaveEffect ==
    ASSUME Inv, pc \notin IdleLabel \cup GetLabel, NEW o, SaveJob(hand, job, o)
    PROVE  /\ jobs' \in [Jobs -> JobRecord \cup {Absent}]
           /\ \A k \in Jobs : k # hand => jobs'[k] = jobs[k]
           /\ jobs'[hand] = jobs[hand] \/ jobs'[hand] = job
           /\ Applied(o) => jobs'[hand] = job
  BY HoldsJob DEF Inv, TypeOK, QueueTypeOK, SaveJob

\* The database write touches the state column alone.
LEMMA StoreEffect ==
    ASSUME Inv, pc \notin IdleLabel \cup GetLabel, NEW o, SaveStore(o)
    PROVE  store' \in [Jobs -> JobState \cup {"ABSENT"}]
<1>1. job.state \in JobState
  BY HoldsJob, RecordFields
<1> QED
  BY <1>1 DEF Inv, TypeOK, SchedulerTypeOK, SaveStore

\* The except branch of _dispatch counts the attempt and keeps the state.
LEMMA FailedEffect ==
    ASSUME Inv, pc \notin IdleLabel \cup GetLabel, DispatchFailed
    PROVE  job' \in JobRecord /\ job'.state = job.state /\ job'.retries = job.retries + 1
  BY HoldsJob, CountEdit DEF DispatchFailed

\* A job without a worker is to be stored as RETRYING.
LEMMA SelectNoneEffect ==
    ASSUME Inv, SelectNone
    PROVE  job' \in JobRecord /\ job'.state = "RETRYING"
<1>1. job \in JobRecord
  BY HoldsJob DEF SelectNone, IdleLabel, GetLabel
<1>2. "RETRYING" \in JobState
  BY DEF JobState, Waiting
<1> QED
  BY <1>1, <1>2, StateEdit DEF SelectNone, Await

\* A job with a worker is to be stored as ASSIGNED, and its assignment is recent.
LEMMA SelectWorkerEffect ==
    ASSUME Inv, NEW w \in Workers, SelectWorker(w)
    PROVE  /\ job' \in JobRecord /\ job'.state = "ASSIGNED" /\ job'.worker # NoWorker
           /\ age' \in [Jobs -> Age]
<1>1. job \in JobRecord /\ hand \in Jobs
  BY HoldsJob DEF SelectWorker, IdleLabel, GetLabel
<1>2. job' \in JobRecord /\ job'.state = "ASSIGNED" /\ job'.worker = w
  BY <1>1, AssignEdit DEF SelectWorker, Await
<1>3. age' \in [Jobs -> Age]
  BY <1>1 DEF SelectWorker, Inv, TypeOK, SchedulerTypeOK, Age
<1> QED
  BY <1>2, <1>3

\* A worker that takes the job in hand appends to the local jobs it has.
LEMMA TakeEffect ==
    ASSUME Inv, pc = "post", WorkerMayTake
    PROVE  copies' \in [Jobs -> Seq(Copy)]
<1>1. job \in JobRecord /\ hand \in Jobs
  BY HoldsJob DEF IdleLabel, GetLabel
<1>2. job.worker \in Workers
  BY <1>1 DEF Inv, Consistent, JobStateOK, JobRecord
<1>3. [worker |-> job.worker, state |-> "RUNNING"] \in Copy
  BY <1>2 DEF Copy
<1>4. copies[hand] \in Seq(Copy)
  BY <1>1 DEF Inv, TypeOK, SchedulerTypeOK
<1>5. Append(copies[hand], [worker |-> job.worker, state |-> "RUNNING"]) \in Seq(Copy)
  BY <1>3, <1>4
<1> QED
  BY <1>1, <1>5 DEF Inv, TypeOK, SchedulerTypeOK, WorkerMayTake, WorkerTakes

\* An accepted job is to be stored as PROCESSING.
LEMMA AcceptedEffect ==
    ASSUME Inv, PostAccepted
    PROVE  /\ job' \in JobRecord /\ job'.state = "PROCESSING"
           /\ copies' \in [Jobs -> Seq(Copy)]
<1>1. job \in JobRecord /\ hand \in Jobs
  BY HoldsJob DEF PostAccepted, IdleLabel, GetLabel
<1>2. Len(copies[hand]) + 1 \in Nat
  BY <1>1 DEF Inv, TypeOK, SchedulerTypeOK
<1>3. PICK id \in Nat : job' = [job EXCEPT !.wjob = id, !.state = "PROCESSING"]
  BY <1>2 DEF PostAccepted
<1>4. job' \in JobRecord /\ job'.state = "PROCESSING"
  BY <1>1, <1>3, AcceptEdit
<1>5. copies' \in [Jobs -> Seq(Copy)]
  BY TakeEffect DEF PostAccepted, WorkerMayTake
<1> QED
  BY <1>4, <1>5

\* After the failed attempt is saved the job is put back or given up.
LEMMA FailSaveEffect ==
    ASSUME Inv, NEW o, FailSave(o), ~Raised(o)
    PROVE  /\ job' \in JobRecord
           /\ \/ pc' = "requeue_save" /\ job'.state = "RETRYING"
              \/ pc' = "failed_save" /\ job'.state = "FAILED"
<1>1. job \in JobRecord
  BY HoldsJob DEF FailSave, IdleLabel, GetLabel
<1>2. {"RETRYING", "FAILED"} \subseteq JobState
  BY DEF JobState, Waiting, Terminal
<1>3. /\ [job EXCEPT !.state = "RETRYING"] \in JobRecord
      /\ [job EXCEPT !.state = "RETRYING"].state = "RETRYING"
      /\ [job EXCEPT !.state = "FAILED"] \in JobRecord
      /\ [job EXCEPT !.state = "FAILED"].state = "FAILED"
  BY <1>1, <1>2, StateEdit
<1> QED
  BY <1>3 DEF FailSave, Await

\* The sync takes up a job it read as PROCESSING and that still is.
LEMMA ProbeEffect ==
    ASSUME Inv, NEW j \in Jobs, ProbeEnded(j) \/ ProbeTimeout(j)
    PROVE  /\ job' \in JobRecord /\ job'.state \in Terminal
           /\ jobs[j] = snap[j] /\ jobs[j].state = "PROCESSING"
<1>1. j \in DOMAIN snap /\ snap[j] \in JobRecord
  BY DEF ProbeEnded, ProbeTimeout, Unfinished, Inv, TypeOK, SchedulerTypeOK
<1>2. jobs[j] = snap[j] /\ jobs[j].state = "PROCESSING"
  BY <1>1 DEF Inv, Consistent, SnapshotCurrent
<1>3. PICK end \in Terminal : job' = [snap[j] EXCEPT !.state = end]
  BY DEF ProbeEnded, ProbeTimeout, Terminal
<1>4. job' \in JobRecord /\ job'.state = end
  BY <1>1, <1>3, StateEdit DEF JobState
<1> QED
  BY <1>2, <1>3, <1>4

-----------------------------------------------------------------------------
(* The effects of the queue commands on the tickets.                       *)

\* LPUSH of a job id that nobody else holds.
LEMMA PushEffect ==
    ASSUME Inv, NEW j \in Jobs, NEW o, PushReady(j, o), ~Ticketed(j)
    PROVE  /\ ready' \in Seq(Jobs)
           /\ Distinct(ready')
           /\ \A x : Occurs(ready', x) => Occurs(ready, x) \/ x = j
<1>1. ready \in Seq(Jobs) /\ Distinct(ready) /\ ~Occurs(ready, j)
  BY DEF Inv, TypeOK, QueueTypeOK, Consistent, OneTicket, Distinct, Occurs, Ticketed, InReady
<1>2. ready' = Append(ready, j) \/ ready' = ready
  BY DEF PushReady
<1>3. CASE ready' = Append(ready, j)
  <2>1. /\ Append(ready, j) \in Seq(Jobs) /\ Distinct(Append(ready, j))
        /\ \A x : Occurs(Append(ready, j), x) <=> Occurs(ready, x) \/ x = j
    BY <1>1, PushFacts
  <2> QED
    BY <1>3, <2>1
<1>4. CASE ready' = ready
  BY <1>1, <1>4
<1> QED
  BY <1>2, <1>3, <1>4

\* requeue's second command puts the id into one of the two keys.
LEMMA RequeueEffect ==
    ASSUME Inv, NEW j \in Jobs, NEW o, NEW delay, Requeue(j, delay, o), ~Ticketed(j)
    PROVE  /\ ready' \in Seq(Jobs) /\ Distinct(ready')
           /\ delayed' \subseteq Jobs
           /\ \A x : Occurs(ready', x) => Occurs(ready, x) \/ x = j
           /\ \A x : x \in delayed' => x \in delayed \/ x = j
           /\ \A x \in Jobs : ~(Occurs(ready', x) /\ x \in delayed')
<1>1. /\ ready \in Seq(Jobs) /\ Distinct(ready) /\ delayed \subseteq Jobs
      /\ \A x \in Jobs : ~(Occurs(ready, x) /\ x \in delayed)
      /\ ~Occurs(ready, j) /\ j \notin delayed
  BY DEF Inv, TypeOK, QueueTypeOK, Consistent, OneTicket, Distinct, Occurs, Ticketed, InReady
<1>2. CASE AddDelayed(j, o) /\ UNCHANGED ready
  BY <1>1, <1>2 DEF AddDelayed
<1>3. CASE PushReady(j, o) /\ UNCHANGED delayed
  BY <1>1, <1>3, PushEffect
<1> QED
  BY <1>2, <1>3 DEF Requeue

\* The due ids move from delayed to ready.
LEMMA ReleaseEffect ==
    ASSUME Inv, NEW o, Release(o)
    PROVE  /\ ready' \in Seq(Jobs) /\ Distinct(ready')
           /\ delayed' \subseteq delayed
           /\ \A x : Occurs(ready', x) => x \notin delayed'
           /\ \A x : Occurs(ready', x) => Occurs(ready, x) \/ x \in delayed
           /\ \A x : Occurs(ready, x) \/ x \in delayed => Occurs(ready', x) \/ x \in delayed'
<1>1. PICK due \in SetToAllKPermutations(delayed) : ReleaseDue(due, o)
  BY DEF Release
<1>2. ready \in Seq(Jobs) /\ delayed \subseteq Jobs
  BY DEF Inv, TypeOK, QueueTypeOK
<1>3. Distinct(ready) /\ \A x \in Jobs : ~(Occurs(ready, x) /\ x \in delayed)
  BY DEF Inv, Consistent, OneTicket, Distinct, Occurs, InReady
<1>4. IsFiniteSet(delayed)
  <2>1. IsFiniteSet(Jobs)
    BY FS_Interval
  <2> QED
    BY <1>2, <2>1, FS_Subset
<1>5. due \in Seq(delayed) /\ Distinct(due)
  BY <1>1, <1>4, DueFacts
<1>6. due \in Seq(Jobs)
  BY <1>2, <1>5, SeqMonotonic
<1>7. \A x : Occurs(due, x) => x \in delayed
  BY <1>5 DEF Occurs
<1>8. \A x : ~(Occurs(ready, x) /\ Occurs(due, x))
  BY <1>2, <1>3, <1>7
<1>9. /\ ready \o due \in Seq(Jobs) /\ Distinct(ready \o due)
      /\ \A x : Occurs(ready \o due, x) <=> Occurs(ready, x) \/ Occurs(due, x)
      /\ \A x : x \in Range(due) <=> Occurs(due, x)
  BY <1>2, <1>3, <1>5, <1>6, <1>8, ReleaseFacts
<1>10. CASE ready' = ready \o due /\ delayed' = delayed \ Range(due)
  BY <1>2, <1>3, <1>7, <1>9, <1>10
<1>11. CASE ready' = ready /\ delayed' = delayed
  <2>1. \A x : Occurs(ready, x) => x \in Jobs
    BY <1>2 DEF Occurs
  <2> QED
    BY <1>2, <1>3, <1>11, <2>1
<1> QED
  BY <1>1, <1>10, <1>11 DEF ReleaseDue

=============================================================================
