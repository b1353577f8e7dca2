------------------------------- MODULE Capacity -------------------------------
(***************************************************************************)
(* The choice of a worker (orchestrator/capacity/manager.py) and what it   *)
(* is made from: the statuses WorkerClient.health measures and the         *)
(* registry keeps in its records.  select_worker refreshes every enabled   *)
(* worker and then chooses in one step.  Meanwhile other coroutines        *)
(* refresh the same records (/health, /workers) or replace them (POST and  *)
(* DELETE /workers), and the workers go on working.                        *)
(*                                                                         *)
(* A status is measured in two requests, /health and /accounts, and is     *)
(* written to the record object the refresh was started with: if the       *)
(* record has been replaced meanwhile, to one that nobody reads any more.  *)
(***************************************************************************)
EXTENDS Integers, SequencesExt

CONSTANTS
    NumWorkers,      \* workers, in the order of their ids
    Conditions,      \* what the requests on a worker may find
    Registrations,   \* the fields an admin may register a worker with
    Preferences,     \* preferred_worker_id of the jobs, or NoWorker
    MaxEvents        \* bound: how many looks, registrations, removals and
                     \* changes of condition there are

Workers == 1 .. NumWorkers

NoWorker == 0

AccountStatus == {"READY", "BUSY", "COOLDOWN", "STOPPED",
                  "CAPTCHA_REQUIRED", "TOKEN_EXPIRED", "BROKEN_SESSION", "BLOCKED"}

Account == [status : AccountStatus, enabled : BOOLEAN, max : Nat, running : Nat]

Condition == [accounts : Seq(Account), active : Nat, queued : Nat, cpu : Nat, ram : Nat]

Registration == [enabled : BOOLEAN, weight : Nat \ {0}, max : Nat \ {0}]

ASSUME CapacityAssumption ==
    /\ NumWorkers \in Nat
    /\ Conditions \subseteq Condition
    /\ Registrations \subseteq Registration
    /\ Preferences \subseteq Workers \cup {NoWorker}
    /\ MaxEvents \in Nat

\* Statuses of a worker that has never been asked, and of one that did not answer.
NoStatus == [online |-> FALSE, known |-> FALSE]

Offline == [online |-> FALSE, known |-> TRUE]

\* A worker that does not answer, and an answer that has not come yet.
Down == [up |-> FALSE]

Nothing == [up |-> TRUE]

Absent == [version |-> -1]

VARIABLES
    cond,       \* the condition each worker is in
    rec,        \* the record of each registered worker; history: its field measured,
                \* whether a refresh of it has ended
    requests,   \* refreshes of a record that have not ended
    events,     \* looks, registrations, removals and changes of condition so far
    selecting,  \* whether the scheduler is in select_worker
    pref,       \* the preferred worker of the job it selects for
    last,       \* _last_worker_id
    seen        \* history: what was so at some moment of the running selection

capacityVars == <<cond, rec, requests, events, selecting, pref, last, seen>>

-----------------------------------------------------------------------------
(* What a status says.                                                     *)

Usable(a) == a.enabled /\ a.status \in {"READY", "BUSY", "COOLDOWN", "STOPPED"}

\* max_concurrent_jobs, where 0 stands for a limit that is not set.
Limit(a) == IF a.max = 0 THEN 1 ELSE a.max

\* max(0, n).
Positive(n) == IF n > 0 THEN n ELSE 0

\* Mutation of FreeSlots: an account beyond its limit takes slots from others.
FreeSlotsSigned(a) == IF Usable(a) THEN Limit(a) - a.running ELSE 0

FreeSlots(a) ==
    IF Usable(a) THEN Positive(Limit(a) - a.running) ELSE 0

\* _available_account_slots.
AvailableSlots(accounts) == FoldLeft(LAMBDA sum, a : sum + FreeSlots(a), 0, accounts)

\* Mutation of HealthScore: free accounts raise the score without a bound.
HealthScoreUnbounded(cpu, ram, slots) ==
    Positive((10000 - 35 * cpu - 35 * ram + 800 * slots) \div 100)

\* health_score, of percentages.
HealthScore(cpu, ram, slots) ==
    LET s == (10000 - 35 * cpu - 35 * ram + 800 * slots) \div 100
    IN  IF s > 100 THEN 100 ELSE Positive(s)

\* The status that WorkerClient.health builds from the two answers.
Measured(health, accounts, max) ==
    LET slots == AvailableSlots(accounts.accounts)
    IN  [online |-> TRUE, slots |-> slots, max |-> max, active |-> health.active,
         queued |-> health.queued, cpu |-> health.cpu, ram |-> health.ram,
         score |-> HealthScore(health.cpu, health.ram, slots)]

\* WorkerStatus.capacity_remaining.
CapacityRemaining(s) ==
    LET jobSlots == Positive(s.max - s.active)
    IN  IF s.slots < jobSlots THEN s.slots ELSE jobSlots

\* _has_capacity.
HasCapacity(w) ==
    /\ rec[w] # Absent
    /\ rec[w].enabled
    /\ rec[w].status.online
    /\ CapacityRemaining(rec[w].status) > 0
    /\ rec[w].status.ram < 92

\* score, doubled, without the deduction for the worker that was chosen last.
Merit(w) ==
    LET s == rec[w].status
    IN  4 * s.score + 50 * CapacityRemaining(s) + 2 * rec[w].weight
            - 3 * s.cpu - s.ram - 16 * s.queued - 10 * s.active

Score(w) == Merit(w) - (IF w = last THEN 70 ELSE 0)

Candidates == {w \in Workers : HasCapacity(w)}

\* The worker select_worker returns: the preferred one if it has capacity, else
\* the candidate with the highest score, the first of those in order of ids.
Choice ==
    IF pref # NoWorker /\ HasCapacity(pref) THEN pref
    ELSE IF Candidates = {} THEN NoWorker
    ELSE CHOOSE w \in Candidates :
            \A v \in Candidates : Score(v) < Score(w) \/ (Score(v) = Score(w) /\ w <= v)

-----------------------------------------------------------------------------
(* The history of a selection: workers that had a free account at some     *)
(* moment of it, workers that had room for a job and memory to run it,     *)
(* workers that lacked one of these or gave no answer, and workers whose   *)
(* record somebody else refreshed or changed.                              *)

HasSlots(c) ==
    /\ c # Down
    /\ \E i \in DOMAIN c.accounts :
          Usable(c.accounts[i]) /\ c.accounts[i].running < Limit(c.accounts[i])

HasRoom(w, c) == c # Down /\ rec[w] # Absent /\ c.active < rec[w].max /\ c.ram < 92

Unseen == [slots |-> {}, room |-> {}, lacked |-> {}, disturbed |-> {}]

\* seen, with worker w in condition c.
Observe(s, w, c) ==
    [s EXCEPT !.slots = IF HasSlots(c) THEN @ \cup {w} ELSE @,
              !.room = IF HasRoom(w, c) THEN @ \cup {w} ELSE @,
              !.lacked = IF HasSlots(c) /\ HasRoom(w, c) THEN @ ELSE @ \cup {w}]

Disturb(ws) ==
    seen' = IF selecting THEN [seen EXCEPT !.disturbed = @ \cup ws] ELSE seen

-----------------------------------------------------------------------------
(* Refreshes.                                                              *)

\* refresh_one of w's record, as registered.
Refresh(by, w, version, max) ==
    [by |-> by, w |-> w, version |-> version, max |-> max, health |-> Nothing,
     accounts |-> Nothing]

\* refresh_all: one refresh for every enabled worker.
RefreshAll(by) ==
    {Refresh(by, w, rec[w].version, rec[w].max) : w \in {v \in Workers : rec[v] # Absent /\ rec[v].enabled}}

\* The worker answers GET /health.
HealthAnswered(q) ==
    /\ q.health = Nothing
    /\ cond[q.w] # Down
    /\ requests' = (requests \ {q}) \cup {[q EXCEPT !.health = cond[q.w]]}
    /\ UNCHANGED <<cond, rec, events, selecting, pref, last, seen>>

\* The worker answers GET /accounts.
AccountsAnswered(q) ==
    /\ q.health # Nothing
    /\ q.accounts = Nothing
    /\ cond[q.w] # Down
    /\ requests' = (requests \ {q}) \cup {[q EXCEPT !.accounts = cond[q.w]]}
    /\ UNCHANGED <<cond, rec, events, selecting, pref, last, seen>>

\* Mutation of Store: the status is kept by the worker's id, whatever record
\* the registry has for it.
StoreById(q, status) ==
    /\ requests' = requests \ {q}
    /\ rec' = IF rec[q.w] # Absent THEN [rec EXCEPT ![q.w].status = status, ![q.w].measured = TRUE]
            ELSE rec

\* The status is written to the record the refresh was started with.
Store(q, status) ==
    /\ requests' = requests \ {q}
    /\ rec' = IF rec[q.w].version = q.version THEN [rec EXCEPT ![q.w].status = status, ![q.w].measured = TRUE]
            ELSE rec

Refreshed(q) ==
    /\ q.accounts # Nothing
    /\ Store(q, Measured(q.health, q.accounts, q.max))
    /\ UNCHANGED <<cond, events, selecting, pref, last, seen>>

\* One of the two requests fails.
RefreshFailed(q) ==
    /\ q.accounts = Nothing
    /\ Store(q, Offline)
    /\ seen' = IF q.by = "scheduler" THEN [seen EXCEPT !.lacked = @ \cup {q.w}] ELSE seen
    /\ UNCHANGED <<cond, events, selecting, pref, last>>

-----------------------------------------------------------------------------
(* select_worker.                                                          *)

Select(p) ==
    /\ ~selecting
    /\ selecting' = TRUE
    /\ pref' = p
    /\ requests' = requests \cup RefreshAll("scheduler")
    /\ seen' = [slots |-> {w \in Workers : HasSlots(cond[w])},
                room |-> {w \in Workers : HasRoom(w, cond[w])},
                lacked |-> {w \in Workers : ~(HasSlots(cond[w]) /\ HasRoom(w, cond[w]))},
                disturbed |-> {q.w : q \in requests}]
    /\ UNCHANGED <<cond, rec, events, last>>

\* Mutation of Choose: the refresh is not waited for.
ChooseAtOnce ==
    /\ selecting
    /\ last' = IF Choice = NoWorker THEN last ELSE Choice
    /\ selecting' = FALSE
    /\ pref' = NoWorker
    /\ seen' = Unseen
    /\ UNCHANGED <<cond, rec, requests, events>>

Choose ==
    /\ selecting
    /\ \A q \in requests : q.by # "scheduler"
    /\ last' = IF Choice = NoWorker THEN last ELSE Choice
    /\ selecting' = FALSE
    /\ pref' = NoWorker
    /\ seen' = Unseen
    /\ UNCHANGED <<cond, rec, requests, events>>

-----------------------------------------------------------------------------
(* The other coroutines, and the workers.                                  *)

\* GET /workers or /health; one of them at a time.
Look ==
    /\ \A q \in requests : q.by # "viewer"
    /\ events < MaxEvents
    /\ events' = events + 1
    /\ requests' = requests \cup RefreshAll("viewer")
    /\ Disturb({q.w : q \in RefreshAll("viewer")})
    /\ UNCHANGED <<cond, rec, selecting, pref, last>>

\* POST /workers: the record is replaced and keeps the status.  It is refreshed
\* unless saving it to the database has failed.
Register(w, r, saved) ==
    /\ events < MaxEvents
    /\ events' = events + 1
    /\ rec' = [rec EXCEPT ![w] =
                  [version |-> events + 1, enabled |-> r.enabled, weight |-> r.weight,
                   max |-> r.max, measured |-> FALSE,
                   status |-> IF rec[w] = Absent THEN NoStatus ELSE rec[w].status]]
    /\ requests' = IF saved THEN requests \cup {Refresh("admin", w, events + 1, r.max)}
                   ELSE requests
    /\ Disturb({w})
    /\ UNCHANGED <<cond, selecting, pref, last>>

\* DELETE /workers.
Unregister(w) ==
    /\ events < MaxEvents
    /\ rec[w] # Absent
    /\ events' = events + 1
    /\ rec' = [rec EXCEPT ![w] = Absent]
    /\ Disturb({w})
    /\ UNCHANGED <<cond, requests, selecting, pref, last>>

\* A worker's condition changes.
Work(w, c) ==
    /\ events < MaxEvents
    /\ c # cond[w]
    /\ events' = events + 1
    /\ cond' = [cond EXCEPT ![w] = c]
    /\ seen' = IF selecting THEN Observe(seen, w, c) ELSE seen
    /\ UNCHANGED <<rec, requests, selecting, pref, last>>

-----------------------------------------------------------------------------
\* Some of the workers are registered; none has been asked yet.
Init ==
    /\ cond \in [Workers -> Conditions \cup {Down}]
    /\ \E r \in Registrations, ws \in SUBSET Workers :
            rec = [w \in Workers |->
                      IF w \in ws
                      THEN [version |-> 0, enabled |-> r.enabled, weight |-> r.weight,
                            max |-> r.max, measured |-> FALSE, status |-> NoStatus]
                      ELSE Absent]
    /\ requests = {}
    /\ events = 0
    /\ selecting = FALSE
    /\ pref = NoWorker
    /\ last = NoWorker
    /\ seen = Unseen

RefreshStep(q) ==
    HealthAnswered(q) \/ AccountsAnswered(q) \/ Refreshed(q) \/ RefreshFailed(q)

AdminStep == \E w \in Workers : Unregister(w) \/ \E r \in Registrations, saved \in BOOLEAN : Register(w, r, saved)

Next ==
    \/ \E p \in Preferences : Select(p)
    \/ Choose
    \/ \E q \in requests : RefreshStep(q)
    \/ Look
    \/ AdminStep
    \/ \E w \in Workers, c \in Conditions \cup {Down} : Work(w, c)

Spec == Init /\ [][Next]_capacityVars

-----------------------------------------------------------------------------
(* Properties.                                                             *)

Status ==
    {NoStatus, Offline} \cup
    [online : {TRUE}, slots : Nat, max : Nat, active : Nat, queued : Nat, cpu : Nat,
     ram : Nat, score : 0 .. 100]

Record ==
    {Absent} \cup
    [version : Nat, enabled : BOOLEAN, weight : Nat, max : Nat \ {0}, measured : BOOLEAN,
     status : Status]

RefreshRequest ==
    [by : {"scheduler", "viewer", "admin"}, w : Workers, version : Nat, max : Nat \ {0},
     health : Condition \cup {Nothing}, accounts : Condition \cup {Nothing}]

\* The variables keep their types; among them, health_score is a percentage,
\* which pydantic checks: a score outside of the bounds would raise in health
\* and turn a busy or an idle worker into one that is offline.
TypeOK ==
    /\ cond \in [Workers -> Condition \cup {Down}]
    /\ rec \in [Workers -> Record]
    /\ requests \subseteq RefreshRequest
    /\ events \in 0 .. MaxEvents
    /\ selecting \in BOOLEAN
    /\ pref \in Workers \cup {NoWorker}
    /\ last \in Workers \cup {NoWorker}
    /\ seen \in [slots : SUBSET Workers, room : SUBSET Workers, lacked : SUBSET Workers,
                 disturbed : SUBSET Workers]

\* The worker select_worker returns had a free account at some moment of this
\* selection, and room for a job and memory at some moment of it: the choice is
\* never made from a status that an earlier selection left behind.  A worker
\* that somebody else refreshed or changed during the selection is excepted,
\* because whichever refresh ends last decides.
ChosenHadCapacity ==
    [][Choose => \A w \in Workers \ seen.disturbed :
                    last' = w /\ Choice = w => w \in seen.slots /\ w \in seen.room]_capacityVars

\* A job is sent back to wait (select_worker returns None) only if every
\* registered and enabled worker, with the same exception, lacked a free account
\* or room at some moment of this selection or one of the requests on it failed.
WaitsOnlyWhenFull ==
    [][Choose /\ Choice = NoWorker =>
          \A w \in Workers \ seen.disturbed :
              rec[w] # Absent /\ rec[w].enabled => w \in seen.lacked]_capacityVars

\* Once a refresh of a registration has ended, the job limit that capacity is
\* computed from is that of this registration: a refresh that was begun for an
\* earlier registration of the worker and answers late does not bring back the
\* old limit.
LimitIsCurrent ==
    \A w \in Workers :
        rec[w] # Absent /\ rec[w].measured /\ rec[w].status.online
            => rec[w].status.max = rec[w].max

=============================================================================
