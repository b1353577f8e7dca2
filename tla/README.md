# Verification of the FlowKit global orchestrator

TLA+ models, TLC instances and TLAPS proofs of the orchestrator in
`src/orchestrator`: the service that takes generation requests over HTTP, keeps
them in a Redis queue, and sends each to one of several VPS workers with free
capacity. Paths and line numbers below are those of the repository; `main.py`,
`service.py`, `manager.py`, `client.py`, `store.py`, `registry.py` stand for
`orchestrator/api/main.py`, `orchestrator/scheduler/service.py`,
`orchestrator/queue/manager.py`, `orchestrator/workers/client.py`,
`orchestrator/db/store.py`, `orchestrator/workers/registry.py`; `capacity/manager.py` is
always written with its directory.

## 1. The system

One asyncio process. Nothing runs in parallel: coroutines interleave at every
`await`. The job queue takes no lock; the registry has one.

| Part | State | Operations | Talks to |
|---|---|---|---|
| Global queue (`queue/manager.py`, `queue/models.py`) | Redis: list `ready`, sorted sets `delayed` and `job_ids`, hashes `jobs` and `active` | enqueue, save, get, list_jobs, pop_ready, mark_active, remove_active, requeue, release_due_delayed, stats, cleanup_active | Redis, one command per await |
| Scheduler (`scheduler/service.py`) | its task; the job object in its hand; the time of the last sync | start, stop, _loop, _dispatch, _sync_processing_jobs_if_due, _timeout_stale_processing_job | queue, capacity, worker client, store |
| Worker client (`workers/client.py`) | an HTTP client | health, accounts, dispatch, job, media, extension calls, _request_with_retries | workers |
| Worker registry (`workers/registry.py`) | `_workers`, `_lock` | load, list, get, upsert, delete, refresh_one, refresh_all | store, worker client |
| Capacity manager (`capacity/manager.py`) | `_last_worker_id` | select_worker, score | registry |
| Job store (`db/store.py`) | MongoDB collections or PostgreSQL tables `jobs`, `workers`, `worker_metrics` | save_job, save_worker_status, list/save/delete_worker_record | database |
| Flow configuration (`flow_config/`) | `_settings`, YAML file | snapshot, patch, resolve, _persist | file |
| Request handlers (`api/main.py`) | none of their own | generation, jobs and progress, health, metrics, workers, accounts, extension roll-out, media proxy, settings | all of the above |
| Security middleware, rate limiter (`api/main.py`) | `_rate_buckets`: time stamps per client and path | one test per request | - |
| Settings (`config/`) | read once, at start | load_settings | file |
| Object storage (`storage/r2.py`) | objects in a bucket | store_data_url, store_bytes | R2 |
| Worker VPS | its local jobs | not in this repository | - |

A job's life: the middleware lets the request in or refuses it (main.py:105-153). The handler
`enqueue_generation` (main.py:917-938) resolves the flow settings, stores an input image, saves the
job, pushes its id to `ready`, indexes it and writes the database. The scheduler's loop
moves delayed ids that are due to `ready`, pops one, loads the job and asks for a
worker. Without one, the job is saved as RETRYING and pushed again. With one, it
is marked ASSIGNED in two Redis commands and the database, then `POST /jobs` is sent
(with retries, under a `wait_for`). An answer makes it PROCESSING; any exception is a
failed attempt, after which the job is requeued or FAILED. At every due sync the
loop asks the workers about PROCESSING jobs, records the ends they report, and
gives up jobs that were created too long ago (TIMEOUT).

### What is hard here

* **Interleaving at awaits.** The handler, the scheduler and /health write the same
  five keys with no transaction but one. Job objects are read, held across
  awaits and written back whole.
* **Calls with unknown outcome.** A Redis, database or worker call may raise
  although the server carried it out. `POST /jobs` is retried without an idempotency key.
* **Crash and restart.** The popped id is only in memory. Shutdown cancels the
  scheduler task at whatever await it stands.
* **Fault boundaries.** Some awaits stand inside `try`, some outside; which branch an
  exception takes decides whether a job is retried, ended or dropped.
* **Clocks.** The stale timeout, the sync interval and the retry delay.
* **Liveness.** Every accepted job must end although workers refuse, vanish and
  lose replies, and although the list of a sync is cut at 200.
* **Two writers of worker documents.** The registry under its lock and /health without it.
* **Memory first, then the file.** `PATCH /flow-settings` changes what is in force before it rewrites
  the YAML file in place; writes fail and are cut.

### What makes each part correct

* Queue: an id is a *ticket*, the right to dispatch. It is never duplicated and it
  belongs to a job that waits.
* Scheduler: a finished job stays finished; a recorded end has a reason; the number of
  local jobs created for one job is bounded by the retry budget; nothing
  drops out of sight while only workers fail, and whatever fails it does so at known places only; every accepted
  job ends.
* Request handler: an answer says what happened to the job.
* Store: the database shows no end that Redis does not have.
* Registry: what an answered request did survives everything, and memory agrees with it.
* Capacity: a worker is chosen, or a job sent back to wait, on what this selection measured, and a
  late refresh does not undo a registration.
* Extension roll-out: workers get only packages that were the current one, that one exists, and
  an answer says what happened on each worker.
* Limiter: no more than the limit gets in within any minute, and only what got in counts.
* Flow settings: an answered PATCH is in force and in the file; a job gets its own settings.
* Object storage: no job with image data, or with a link to nothing, is queued.
* Media proxy: "not found" is said only of a video that no enabled worker would serve.

`PROJECT.json` lists every hazard at its line with the properties that cover it.

## 2. Modules

| Module | Models |
|---|---|
| `GlobalQueue` | The five keys; one operator per Redis command, with its three outcomes: ok, applied but reply lost, refused. `list_jobs` and `StaleActive` as pure operators. |
| `Scheduler` (extends it) | The scheduler task: one action per stretch from one await to the next, `pc` naming the awaited call. Dispatch, both branches, requeue, sync, timeout; `copies`, the local jobs on the workers; `age`, the clock. |
| `Orchestrator` (extends it) | The process: scheduler interleaved with any number of generation requests and the health sweep; crash and restart; the properties, the inductive invariant and the fairness. |
| `JobLifecycle` | The abstract specification of a job: state and attempts, no calls, no faults. `Orchestrator` implements it with `state <- jobs[j].state`, `retries <- jobs[j].retries`. |
| `WorkerRegistry` | load, upsert, delete and /health against MongoDB or PostgreSQL, with failing calls and restarts. |
| `Registrations` | The abstract specification of the stored registrations: one request at a time, each taking effect as a whole or failing, and seeds that a start adds. `WorkerRegistry` implements it; the mapping is at its end (`Registered`). |
| `Capacity` | `select_worker` and what it decides on: the measurement of a status in two requests, the slot count, the health figures, the score and the choice; refreshes of the scheduler, of viewers and of registrations that overlap with replaced and removed records. |
| `Intake` | What a request meets before the queue: the limiter, the flow settings against PATCH, failing writes, restarts and deployments, the upload of an input image. Beside it the media proxy. |
| `ExtensionRollout` | `upload_extension`, `apply_current_extension` and the installs they start, against failing storage, Redis and workers, installs that arrive late, registry changes and crashes. |
| `MCOrchestrator`, `MCWorkerRegistry`, `MCCapacity`, `MCIntake`, `MCExtensionRollout` | The instances: symmetry, the seeds' records, the workers' conditions. |
| `OrchestratorLemmas`, `SchedulerProofs`, `OrchestratorProofs` | The proofs about `Orchestrator`: list, record and ticket lemmas; a lemma per scheduler action; the other actions and the theorems. |
| `BudgetProofs` | On top of them: the dispatch budget, and the proof that `Orchestrator` implements `JobLifecycle`. |
| `WorkerRegistryProofs`, `CapacityProofs`, `IntakeProofs`, `ExtensionRolloutProofs` | The proofs about `WorkerRegistry`, `Capacity`, `Intake` and `ExtensionRollout`. |

### How the models correspond to the code

**Labels of the scheduler.** `sync`, `probe`, `sync_save`, `sync_store`:
`_sync_processing_jobs_if_due`. `release`, `rpop`, `get`: `pop_ready`. `select`:
`select_worker`. `wait_save`, `wait_push`: the requeue of a job without worker.
`mark_active`, `mark_save`, `mark_store`: the assignment. `post`: `WorkerClient.dispatch`
and `_request_with_retries`. `ok_*`: after the answer. `fail_hdel`, `fail_save`,
`requeue_*`, `failed_save`, `fail_store`: the `except` branch, which
`DispatchFailed` enters. An exception outside the `try` goes to `LoopTop`:
`_loop` catches it, sleeps and starts again with no memory of the job.

**Time.** `created_at` orders jobs by number. `age` says how a job compares with
`stale_processing_seconds`: `fresh`, `old` (created longer ago), `stale` (assigned longer ago).
Due delayed jobs and due syncs are nondeterministic.

**Merged reads.** `list_jobs` issues several reads and the sync uses the result
after them. They are one step here, and this loses nothing: the reads only
gather ids and objects; an unfinished job with a worker is written by the scheduler
alone, which is inside the sync; a request handler writes only jobs that are not yet
PROCESSING. A read that raises, in a sync or sweep, ends it without effect and is not a step.

**Left out of the data.** Payload, account, project, error text, the metrics. `worker_job_id` is the position
of the local job in `copies`; 0 is None or the empty string, which
the code treats alike. Logging and the attempt counters of the metrics are not modelled.

**Simplifications to know about.** An unreachable worker and a worker that has left the registry
lead to the same code (service.py:133-150). A `POST` that is delayed beyond its caller's
timeout and arrives later counts as taken at once with its reply lost. GET requests are
retried without a visible step. A database is configured (without one the saves
return at once). Once a worker has ended a local job its state does not
change. The Redis client performs no retries of its own.

**Registry.** In `WorkerRegistry` a record is URL and enabled flag. The job limit goes with the URL: a registration and a
status carry both. Weight and API key are written by registrations alone and are not followed. Status, weight and limit
are in `Capacity`. Each request holds the lock from its memory change to its answer, as the
`async with` does. One /health at a time is modelled; it saves its statuses in any order.
A connection to MongoDB that
fails at start leaves a process without database (store.py:26-41), which answers requests it does not
store; `connected` says so, and the history counts an answer only if the database gave it.
On PostgreSQL a status goes to `worker_metrics`; on MongoDB it is an upsert of
the registration document itself.

**Capacity.** Each refresh is an element of `requests` and takes three steps: the answer to GET
/health, the answer to GET /accounts, the write of the status; or it fails before the write. It
carries the version of the record object it was begun with: `refresh_one` writes to that object,
so the write is lost if `upsert` has put another one in its place. The versions are numbers of
events; they and the field `measured` exist in the model only. Numbers are integers, the score is doubled to
stay one, percentages have no fractions. The retries of GET /accounts are inside one answer. `seen` is
history: what was so at some moment of the running selection, and which workers somebody else
refreshed or changed during it (`disturbed`). In `Scheduler` the choice of a worker is any or none;
`Capacity` says which. `Score` and `Merit` complete the translation of that choice; no property depends on which of the
workers with capacity is taken. One viewer at a time refreshes all workers (`Look`).

**Intake.** A request stands between two awaits: `admitted` (its body is read), `image` (the
upload), `enqueue`, after which `Orchestrator` has it. `PATCH` has no await and is one step, unless
the process ends within its write. Of each settings section one key is followed, since resolve, patch, dump and
load work key by key; an override or a payload that does not name the key leaves it alone. A cut file may be no mapping
(`NoYaml`), lack what a section must have (`NoSettings`), in which cases the process does not start, or lack whole sections,
in which case it starts with their defaults; the value the cut lies in may be read as another one. Times are ages in units of which the limiter's minute has `Window`. `admitted` and
`promised` are history, and so is the field `due` of a request: what it may find when it is resolved.
The limiter's key is client and path, so each generation type has a limit of its own; it is in memory and empty after a restart.

**Roll-out.** A package is the number of its upload, since the code's version starts with the
time. An install is sent, arrives or not, and is answered or given up; the model lets one arrive after its caller
has given up or the process has ended. A worker that is named by `worker_id` gets the package even
if it is disabled. The checks of the uploaded file end in an error before anything changes. The
`refresh_all` that ends a request changes nothing a roll-out reads.

## 3. Runs

All passing runs are exhaustive; between them every action is taken. No run disables
the deadlock check: the scheduler, a selection, an admin or the clock always has a step.

| Run | Instance | Distinct states | Shows |
|---|---|---|---|
| `one_job_faults` | 1 job, 2 workers, 1 retry, every event | 621,317 | `TypeOK`, `OneTicket`, `TicketIsWaiting`, `VerdictIsJustified`, `DispatchBudget`, `StoreTerminalIsTrue`, `TerminalIsFinal`, `LossIsNamed`, and refinement of `JobLifecycle` (`FollowsLifecycle`) |
| `two_jobs_end` | 2 jobs, 1 worker that may refuse or lose replies, fairness | 35,605 | `OneTicket`, `TicketIsWaiting`, `Accounted`, `AckedEnds`: the tickets stay apart and neither job starves the other |
| `one_job_ends` | 1 job, 1 retry, 2 request attempts, no delay, unreachable worker, slow job, fairness | 97,045 | `Accounted`, `DispatchBudget` with 4 local jobs, `AckedEnds` by report, spent budget or timeout |
| `registry` | 2 workers, one a seed, 2 concurrent admin requests, 3 in all, failing database calls, crashes, both databases, starts without MongoDB | 55,632 | `TypeOK`, `Durable`, `MemoryAgrees`, and refinement of `Registrations` (`ChangesAreSerial`) |
| `capacity` | 2 workers in 3 conditions or down, registered, disabled or not, 2 job limits, 1 event | 569,101 | `TypeOK`, `LimitIsCurrent`, `ChosenHadCapacity`, `WaitsOnlyWhenFull` |
| `intake` | 1 request at a time, 2 types, 2 values, limit 2, 2 workers, failing storage and disk, crashes | 112,918 | `TypeOK`, `WindowLimit`, `RefusedOnlyWhenFull`, `AnsweredHolds`, `SettingsOfJob`, `ImageIsStored`, `NotFoundIsTrue` |
| `rollout` | 2 requests, 2 workers, every fault | 62,015 | `TypeOK`, `CurrentIsStored`, `OnlyPublished`, `ReportIsTrue`, `AloneTakesEffect` |
| `lost_while_waiting` | 1 job, crash | violated | section 5 |
| `rejected_runs` | 1 job, Redis faults | violated | section 5 |
| `store_falls_back` | 1 job, no fault | violated | section 5 |
| `timed_out_fresh` | 1 job, slow | violated | section 5 |
| `moved_back` | 1 worker, no fault | violated | section 5 |

`LossIsNamed` says that a job gets out of sight (not in the queue, in hand, on a worker that the sync can ask, or finished) in four
ways only: `RPOP` takes its id and the reply is lost; the process dies while it holds the job; one of the calls outside the `try`
raises with the job in hand; or the worker has accepted it without an id. Each way is needed: without any one of
them, or any one call of `OutsideTry`, the run fails. `NotFoundIsTrue` calls a worker one that serves a video if it
answers 200 or 206; one that answers 416 or 5xx may have it and is passed over (main.py:610-611).

### Bounds

`NumJobs` 1 or 2: ids interact only through the order of `ready`, the one scheduler
task and the cut of `list_jobs`; two jobs give every pairwise order. `MaxRetries` 0 or
1 and `PostAttempts` 1 or 2: enough to have a first, a repeated and a last attempt. `SyncLimit`
2, not less than the jobs in the instance; see below what happens beyond it. `MaxOps` 3:
register, change, remove. `MaxEvents` 1: one look, registration, removal or change of a worker's
condition, at any moment of a sequence of selections without end and from every
initial condition; larger bounds multiply the interleavings of refreshes (a run with 2 events, two conditions and
5.6 million states found nothing more). The conditions of `MCCapacity` are an
idle worker without memory to spare, a loaded one with an account beyond its lowered limit, and a large one whose score meets the bound of
100. Two roll-out requests are every pair of concurrent ones. One
request at a time in `intake`: no step of a request reads what a step of another one writes, save the limiter's entry, which
is written in the one step that lets it in; PATCH, the clock and crashes come between its steps, and the theorems of
`IntakeProofs` hold for any number of requests. `Limit` 2 and `Window` 1 give requests at both ends of a minute and within it. Nothing else is bounded: crashes, restarts, failed
calls, syncs and requeues may recur for ever. `Events` names what may go wrong, so
that each run can say under which faults its properties hold. Faults with two jobs are not a run of their own: the safety of
tickets, ends and budget under every fault is proved for any number of jobs (section 4), and `one_job_faults` has each
fault at each place.

### Fairness

`LiveSpec` (module `Orchestrator`): weak fairness of the scheduler task, of each
request handler, of the workers' local jobs and of the clock: the event loop runs ready coroutines, a
worker ends what it runs, time passes. Strong fairness on three choices that recur without
being continuously enabled: a sync is due now and then when the loop passes its top
(it compares clocks), a delayed job falls due at last, and a worker has
capacity now and then when the scheduler asks. None says that a call succeeds:
in `two_jobs_end` and `one_job_ends` every `POST` may fail.

`AckedEnds` holds for workers that fail. It does not hold, by design of the code, in these cases, which the
instances leave out and the hazard list names: a Redis or database failure at one of the
awaits outside the `try` (the job stays ASSIGNED with no ticket), a crash with a
job in hand, a worker that answers without an id (PROCESSING with no `worker_job_id`,
which neither sync nor timeout look at), and a PROCESSING job with more newer jobs than the limit
of `list_jobs`, which cuts by recency before it puts unfinished jobs first.

## 4. Proofs

Checked by tlapm for every value of the constants that satisfies `QueueAssumption`,
`SchedulerAssumption`, `RegistryAssumption`, `CapacityAssumption`, `IntakeAssumption` and `RolloutAssumption`: any number of jobs, workers, retries, request
attempts, requests, admins and seeds, any set of events.

`OrchestratorProofs`
* `TypeCorrect`: `Spec => []TypeOK`.
* `TicketsAreUnique`: `Spec => []OneTicket`.
* `TicketsWait`: `Spec => []TicketIsWaiting`.
* `EndsAreFinal`: `Spec => TerminalIsFinal`, an action property.
* `StoreIsTrue`: `Spec => []StoreTerminalIsTrue`.
* `EndsAreJustified`: `Spec => []VerdictIsJustified`.
* `LossesAreNamed`: `Spec => LossIsNamed`, an action property: under every fault, the four ways to lose a job are the only ones.
* `NoJobIsLost`: `Reliable => (Spec => []Accounted)`. `Reliable` says that `Events` has no failing call on Redis or the database,
  no crash and no worker that accepts a job without naming it; what else workers do is free.

`OneTicket` is not inductive: that a push creates no second ticket depends on where the
scheduler stands, whether it holds a job, and on the handler not having pushed yet. Nor is `TicketIsWaiting`:
`requeue` saves and then pushes, so one has to know that between the two nobody
writes the job. The invariant is `Inv == TypeOK /\ Consistent`, `Consistent` being the conjunction of

* `LocalsOK`: which labels have an id, a job object, a running attempt, a snapshot;
* `StoredOK`: at each label, whether the job in hand is stored as waiting, in an
  attempt, or PROCESSING;
* `JobStateOK`: the state of the job object, which may be ahead of the stored one;
* `SnapshotCurrent`: the job objects a sync has read are still what is stored, PROCESSING, and not in
  hand. Without it the sync might overwrite what changed since it listed the jobs;
* `RequestsOK`: a request that has not saved its job finds no entry, and one that has not pushed finds it
  waiting;
* `OneTicket`, `TicketIsWaiting`.

There is a lemma per action (`XKeeps`, in `SchedulerProofs` and `OrchestratorProofs`); `OrchestratorLemmas` has those on lists (append, tail, concatenation of an
injective list), on edits of job records, and on the effect of the queue commands on tickets. `EndsAreFinal`
uses the same invariant: each action that writes a job is shown to write one that is not
terminal.

The other four add an invariant of their own to `Inv`. `StoreIsTrue`: a job object that says an end is only at the two saves of
ends, or at the database write after one, and there it is what is stored (`EndInHand`); ends being final, the
database write may then come at any time. `EndsAreJustified`: the object in hand is justified as the stored one (`VerdictInv`), which lasts because
workers neither renumber local jobs nor change one that has ended (`EndedCopyStays`). `LossesAreNamed`: at each label where the
scheduler is about to let go of a job, where the job will be found (`ToBeFound`); a ticket goes to the scheduler's hand or is
lost (`TicketStays`), what is in hand is found elsewhere or lost (`LetGo`), and what is on a worker or has ended nobody else
writes. `NoJobIsLost` follows: in the absence of its faults none of the four ways is open (`NothingLost`, with the
invariant `Named`), and a request that has pushed its id has put the job in sight (`PushedInSight`).

`BudgetProofs`
* `BudgetIsKept`: `Spec => []DispatchBudget`. Not inductive: that a dispatch stays within the budget depends on
  what the job has used before and on what the object in the scheduler's hand counts. `BudgetInv` adds to `Inv`
  that a stored job that waits has no more local jobs than its counted retries pay for and retries left (`StoredWithin`), and that at each label
  the job object counts at least as much as has been used (`HeldWithin`): at `post`, what is used is less than the retries and
  the running attempt pay for; after a failure, no more than the incremented counter pays for. A crash or a failed save leaves the
  stored job in an attempt, without a ticket, where nothing dispatches it again.
* `LifecycleIsImplemented`: `Spec => FollowsLifecycle`, that is `Spec => Lifecycle!Spec`: the refinement. Only the saves of the job in hand
  and the first save of a request are visible. `Counted` says, at each label, how far count and state of
  the job object are ahead of the stored ones, `BudgetInv` that a dispatch is still allowed; then each save is one step of the life cycle
  (`MovesRefine`, `FailureRefines`), or none if Redis did not carry it out. The save after a failure may be two at once for the
  stored job, the acceptance it never showed and the failure: `AttemptFails` allows it.

`WorkerRegistryProofs`
* `RegistryTypeCorrect`, `AnswersAreDurable` (`Durable`), `MemoryShowsAnswers` (`MemoryAgrees`).
  The invariant adds `Exclusive` (only the holder of the lock has a request), `InFlight`
  (a worker with a request in flight has no history), `FromSeeds`,
  `LoadedAgrees` (from the moment the records are loaded) and `MemoryAhead` (the memory shows the request in flight).
* `RegistrationsAreSerial`: `Spec => ChangesAreSerial`, that is `Spec => Registered!Spec`: the refinement. What is visible is, for each worker, what
  a start would load, the request the lock is held for, and what answered requests did. A request begins when it takes the lock and ends with
  its database call: with success only if that returned, else perhaps after it was carried out. Memory changes, health checks,
  which touch neither the mark nor the flag of a document, and starts are stutters, but for `LoadSeed`. That one may write only where nothing is registered,
  which takes two more conjuncts: the holder of the lock has a request (`HolderIsBusy`), so none is in hand during a start, and a seed that a
  start misses in memory is not in the database (`SeedsAreMissing`). On MongoDB the mapping leaves out the URL, which /health may set back
  (`moved_back`). `Durable` speaks of answered requests; the refinement also of those that failed or were cut off.

`CapacityProofs`
* `LimitsAreCurrent` (`LimitIsCurrent`). A refresh could only bring back an old limit if it wrote to a record of
  another version; the invariant says that versions are not given twice (`VersionsOK`), hence that a refresh with the
  version of the record in the registry was begun with its limit.
* `CapacityTypeCorrect` (`TypeOK`): whatever the accounts of a worker are, their slots are a natural number (`AvailableSlotsType`) and the score made
  from it a percentage.
* `ChoicesAreCurrent` (`ChosenHadCapacity`) and `WaitingIsJustified` (`WaitsOnlyWhenFull`), action properties. Their invariant
  (`SelectionInv`) follows each worker that nobody else refreshes or changes (`Followed`): the condition it is in and
  the answers it has given are in the history, as ones with slots and room or as ones that lacked something; its requests are the
  scheduler's and write to its record; and once they have ended, the record has capacity only if slots and room were seen, and
  lacks it only if the history has that, too. That the chosen one is among the candidates needs that a finite set of
  scored candidates has a best one (`ChoiceHasCapacity`).

`IntakeProofs`
* `AnswersHold` (`AnsweredHolds`), `JobsHaveTheirSettings` (`SettingsOfJob`), `ImagesAreStored` (`ImageIsStored`), `NotFoundIsJustified`
  (`NotFoundIsTrue`). The invariant says of each request, wherever it stands, what carries it to its property (`Sound`): until it is resolved, what is in force
  is among what it may find; while it asks for a video, every worker asked so far lacks it or fails. A process that is down has no
  request, so a restart may change the settings.
* `WindowsAreLimited` (`WindowLimit`) and `RefusalsAreDue` (`RefusedOnlyWhenFull`, an action property). The limiter cleans a bucket only when a request for it
  comes; the invariant (`LimiterInv`) says that the requests let in during the last minute are nevertheless what cleaning the bucket now
  would leave. The clock keeps it because cleaning before it moves or after makes no difference (`OlderIsForgotten`), a request because
  cleaning twice does not either (`RecentType`).
* `IntakeTypeCorrect` (`TypeOK`): what a cut write leaves is one of the files a start knows (`CutType`).

`ExtensionRolloutProofs`
* `RolloutTypeCorrect` (`TypeOK`), `CurrentExists` (`CurrentIsStored`), `PackagesArePublished` (`OnlyPublished`), `AnswersAreTrue` (`ReportIsTrue`),
  `RolloutTakesEffect`
  (`AloneTakesEffect`). The invariant follows the package of a request (`VersionsOK`: stored before it is
  published, published before it is installed), ties each install to its request (`InstallsOK`), each report to an
  install that was carried out (`ReportsOK`), and says of a request that is alone that no other runs, that nothing of
  another is on its way, and that what it has installed is still there (`AloneOK`).

Induction. The slot count is a fold over the accounts of a worker, what the limiter keeps a fold over a bucket, the choice a maximum
over the workers. What is so of them for every length is proved by induction, but not with the induction theorems of the
library, which take an operator as parameter and which no back end can instantiate. `LeastNumber` takes their place:
a nonempty set of natural numbers has a least element, by `NatLessThanWellFounded` and `WFMin`, which have no such parameter; the
lengths for which a claim fails, had it any, would have a least one. A fold is, by its definition in the community modules,
the function that satisfies a recursion equation; `SumExists` and `KeepingExists` show that there is one, for else the `CHOOSE` in the
definition would say nothing.

Model-checked only: what needs fairness, which is `AckedEnds` (the temporal back end does not do `ENABLED`). Every invariant, action property and refinement
that a passing run checks is a theorem.

## 5. Where the code disagrees with what it says

* `lost_while_waiting`: README.md:264 says that a job without a free account "stays in the
  global Redis queue". `pop_ready` removes the id; until it is pushed again it is in
  memory only, and a crash or shutdown there loses it. Nothing scans `jobs` for it.
* `rejected_runs`: `enqueue` pushes the id before it indexes it. If the third command fails, the
  client gets 503 "global queue unavailable" and the job runs.
* `store_falls_back`: the handler writes QUEUED to the database after the id is in the
  queue. If the scheduler is faster, the database shows QUEUED for good.
* `timed_out_fresh`: the timeout of "stale processing" measures from `created_at`, so a
  job that waited long is given up at the first sync after its dispatch.
* `moved_back`: "later IP changes and add/remove operations live in the DB"
  (registry.py:33-35). On MongoDB /health writes back the base URL it measured with, so a
  URL registered meanwhile is replaced; the next restart uses the old one. `Durable` therefore
  promises the URL on PostgreSQL only.

What the models, and the reading for them, show beside these:

* The repository's README.md:254 says that an override "applies only to that test job and does not change production
  defaults". `SettingsOfJob` and `AnsweredHolds` confirm it.
* A PATCH that fails with 500 stays in force until the process ends, and the next PATCH writes it to the file.
* A crash within the write of the YAML file can leave one the next start does not get past, or one it reads as the
  defaults.
* A video request that meets a worker out of reach ends with 500, although a later worker may have the video. If a worker fails and a
  later one has none, the answer is 404.
* The health view tests the processor before the memory. Of a worker with both at 92 percent or more it says
  "Available, but CPU high (...); dispatch allowed with low score" (main.py:868-869), while the scheduler refuses such a worker for its
  memory (capacity/manager.py:44-47). Both are tests of one record; no run is needed to see it.
* A seed that was deleted is registered again at the next start (registry.py:44-56), although README.md:246-248 calls the
  YAML list "only bootstrap seeds for first install".

## 6. Not modelled, and the plan

Done: queue, scheduler, generation handler with limiter, settings and image upload, health sweep, job store, life cycle,
registry, capacity, extension roll-out, media proxy.

The plan is carried out. A tie of `Capacity` to `Scheduler` is not planned: the scheduler's model leaves the
choice open, any worker or none, so every choice of `Capacity` is one of it.

Not modelled and not planned: the phases and percentages of `job_progress`, the reasons of `capacity_snapshot` and the metrics, which are
read-only and whose values no document fixes; an answer may combine a job with what its worker said later. The connection set-up of queue
and store, the static catalog, account management (forwarded to the worker), the other settings (read once; what the models depend on is a
constant), the key comparison of the middleware.
