---------------------------- MODULE WorkerRegistry ----------------------------
(***************************************************************************)
(* The worker registry (orchestrator/workers/registry.py) and the two      *)
(* things that write worker documents into the database (db/store.py): the *)
(* registry itself, under its lock, and /health, which saves the status it *)
(* measured.  On MongoDB both write the same document, on PostgreSQL a     *)
(* status goes to a table of its own.                                      *)
(*                                                                         *)
(* A worker's record is its URL and its enabled flag.  max_jobs goes where *)
(* the URL goes, since a status carries both; weight and api_key are       *)
(* written by a registration alone, as the flag is, and not followed.      *)
(***************************************************************************)
EXTENDS Naturals, FiniteSets, Functions

CONSTANTS
    WorkerIds,       \* ids of VPS workers
    Urls,            \* base URLs
    Admins,          \* concurrent POST /workers and DELETE /workers requests
    Free,            \* holder of the registry's lock when nobody holds it
    Seeds,           \* workers named in the YAML file or the environment
    SeedRecord,      \* and the record given there
    MaxOps,          \* bound: how many such requests are ever made
    RegistryEvents   \* what goes wrong: "store" calls fail, the process "crash"es, or
                     \* MongoDB is "unconnected" when it starts

Record == [url : Urls, enabled : BOOLEAN]

ASSUME RegistryAssumption ==
    /\ Free \notin Admins
    /\ Seeds \subseteq WorkerIds
    /\ SeedRecord \in [Seeds -> Record]
    /\ MaxOps \in Nat
    /\ RegistryEvents \subseteq {"store", "crash", "unconnected"}

VARIABLES
    backend,   \* which database is configured
    connected, \* whether the running process has a connection to it
    phase,     \* where the process is: down, in load, or serving requests
    mem,       \* _workers: the records of the registered workers
    lock,      \* _lock
    op,        \* the request of each admin that holds or held the lock
    db,        \* the worker documents
    statuses,  \* what a running /health still has to save
    ops,       \* requests made so far
    acked      \* history: what the last request on a worker did, if the database answered it

registryVars == <<backend, connected, phase, mem, lock, op, db, statuses, ops, acked>>

-----------------------------------------------------------------------------
\* A document of the workers collection; a row always is registered.
Document == [registered : BOOLEAN, enabled : BOOLEAN, url : Urls]

NoDocument == [registered |-> FALSE]

NoRequest == [kind |-> "none"]

Request == [kind : {"upsert"}, id : WorkerIds, rec : Record]
               \cup [kind : {"delete"}, id : WorkerIds]

Deleted == [removed |-> TRUE]

Unknown == [removed |-> FALSE]

\* How a database call ends: it returns, it raises although it was carried out,
\* or it raises and was not.  Without a connection it returns at once.
StoreOutcome ==
    IF connected /\ "store" \in RegistryEvents THEN {"ok", "lost", "refused"} ELSE {"ok"}

-----------------------------------------------------------------------------
(* The documents.                                                          *)

Write(w, doc, o) ==
    db' = IF o = "refused" \/ ~connected THEN db ELSE [db EXCEPT ![w] = doc]

\* save_worker_record.
SaveRecord(w, rec, o) ==
    Write(w, [registered |-> TRUE, enabled |-> rec.enabled, url |-> rec.url], o)

\* Mutation of DeleteRecord: the document is disabled and stays registered.
DeleteRecordDisables(w, o) ==
    \/ db[w] = NoDocument /\ UNCHANGED db
    \/ db[w] # NoDocument /\ Write(w, [db[w] EXCEPT !.enabled = FALSE], o)

\* delete_worker_record: MongoDB keeps the document.
DeleteRecord(w, o) ==
    \/ db[w] = NoDocument /\ UNCHANGED db
    \/ /\ db[w] # NoDocument
       /\ Write(w, IF backend = "postgres" THEN NoDocument
                   ELSE [db[w] EXCEPT !.registered = FALSE, !.enabled = FALSE], o)

\* Mutation of SaveStatus: the status replaces the document.
SaveStatusReplaces(s, o) ==
    \/ backend = "postgres" /\ UNCHANGED db
    \/ backend = "mongo" /\ Write(s.id, [url |-> s.url], o)

\* save_worker_status: an upsert of the fields of the status, the base URL
\* among them.  A document it creates has neither registered nor enabled.
SaveStatus(s, o) ==
    \/ backend = "postgres" /\ UNCHANGED db
    \/ /\ backend = "mongo"
       /\ Write(s.id, IF db[s.id] = NoDocument
                      THEN [registered |-> FALSE, enabled |-> FALSE, url |-> s.url]
                      ELSE [db[s.id] EXCEPT !.url = s.url], o)

-----------------------------------------------------------------------------
(* Startup: a connection to MongoDB that fails is logged and done without. *)
(* The constructor takes the seeds, load replaces them by the stored       *)
(* records, if there are any, and stores the seeds that are not among      *)
(* those.  A call that fails ends the process.                             *)

Start ==
    /\ phase = "down"
    /\ phase' = "list"
    /\ connected' \in {TRUE} \cup IF backend = "mongo" /\ "unconnected" \in RegistryEvents
                                   THEN {FALSE} ELSE {}
    /\ mem' = SeedRecord
    /\ UNCHANGED <<backend, lock, op, db, statuses, ops, acked>>

LoadList ==
    /\ phase = "list"
    /\ phase' = "seeds"
    /\ LET persisted == {w \in WorkerIds : connected /\ db[w].registered}
       IN  mem' = IF persisted = {} THEN mem
                  ELSE [w \in persisted |-> [url |-> db[w].url, enabled |-> db[w].enabled]]
    /\ UNCHANGED <<backend, connected, lock, op, db, statuses, ops, acked>>

ListFails ==
    /\ phase = "list"
    /\ connected /\ "store" \in RegistryEvents
    /\ phase' = "down"
    /\ UNCHANGED <<backend, connected, mem, lock, op, db, statuses, ops, acked>>

\* Mutation of LoadSeed: a seed is stored whether or not it is there.
LoadSeedAgain(w, o) ==
    /\ phase = "seeds"
    /\ mem' = [v \in DOMAIN mem \cup {w} |-> IF v = w THEN SeedRecord[w] ELSE mem[v]]
    /\ SaveRecord(w, SeedRecord[w], o)
    /\ phase' = IF o = "ok" THEN phase ELSE "down"
    /\ UNCHANGED <<backend, connected, lock, op, statuses, ops, acked>>

LoadSeed(w, o) ==
    /\ phase = "seeds"
    /\ w \notin DOMAIN mem
    /\ mem' = [v \in DOMAIN mem \cup {w} |-> IF v = w THEN SeedRecord[w] ELSE mem[v]]
    /\ SaveRecord(w, SeedRecord[w], o)
    /\ phase' = IF o = "ok" THEN phase ELSE "down"
    /\ UNCHANGED <<backend, connected, lock, op, statuses, ops, acked>>

Loaded ==
    /\ phase = "seeds"
    /\ Seeds \subseteq DOMAIN mem
    /\ phase' = "run"
    /\ UNCHANGED <<backend, connected, mem, lock, op, db, statuses, ops, acked>>

Crash ==
    /\ "crash" \in RegistryEvents
    /\ phase # "down"
    /\ phase' = "down"
    /\ lock' = Free
    /\ op' = [a \in Admins |-> NoRequest]
    /\ statuses' = {}
    /\ UNCHANGED <<backend, connected, mem, db, ops, acked>>

-----------------------------------------------------------------------------
(* upsert and delete: the memory first, then the database, under the lock. *)

\* Mutation of Acquire: the lock is not waited for.
AcquireAtOnce(a, req) ==
    /\ phase = "run"
    /\ ops < MaxOps
    /\ op[a] = NoRequest
    /\ lock' = a
    /\ op' = [op EXCEPT ![a] = req]
    /\ ops' = ops + 1
    /\ acked' = [acked EXCEPT ![req.id] = Unknown]
    /\ UNCHANGED <<backend, connected, phase, db, statuses>>

Acquire(a, req) ==
    /\ phase = "run"
    /\ ops < MaxOps
    /\ op[a] = NoRequest
    /\ lock = Free
    /\ lock' = a
    /\ op' = [op EXCEPT ![a] = req]
    /\ ops' = ops + 1
    /\ acked' = [acked EXCEPT ![req.id] = Unknown]
    /\ UNCHANGED <<backend, connected, phase, db, statuses>>

Upsert(a, w, rec) ==
    /\ Acquire(a, [kind |-> "upsert", id |-> w, rec |-> rec])
    /\ mem' = [v \in DOMAIN mem \cup {w} |-> IF v = w THEN rec ELSE mem[v]]

Delete(a, w) ==
    /\ w \in DOMAIN mem
    /\ Acquire(a, [kind |-> "delete", id |-> w])
    /\ mem' = Restrict(mem, DOMAIN mem \ {w})

\* The database call of the request ends, and with it the request.
Answer(a, o, done) ==
    /\ op' = [op EXCEPT ![a] = NoRequest]
    /\ lock' = Free
    /\ acked' = IF o = "ok" /\ connected THEN [acked EXCEPT ![op[a].id] = done] ELSE acked
    /\ UNCHANGED <<backend, connected, phase, mem, statuses, ops>>

UpsertStored(a, o) ==
    /\ op[a].kind = "upsert"
    /\ SaveRecord(op[a].id, op[a].rec, o)
    /\ Answer(a, o, op[a].rec)

DeleteStored(a, o) ==
    /\ op[a].kind = "delete"
    /\ DeleteRecord(op[a].id, o)
    /\ Answer(a, o, Deleted)

-----------------------------------------------------------------------------
(* /health: refresh_all asks the enabled workers, one status each, and the *)
(* statuses are saved one after the other, without the lock.               *)

Measure ==
    /\ phase = "run"
    /\ statuses = {}
    /\ statuses' = {[id |-> w, url |-> mem[w].url] : w \in {v \in DOMAIN mem : mem[v].enabled}}
    /\ UNCHANGED <<backend, connected, phase, mem, lock, op, db, ops, acked>>

StatusSaved(s, o) ==
    /\ s \in statuses
    /\ SaveStatus(s, o)
    /\ statuses' = IF o = "ok" THEN statuses \ {s} ELSE {}
    /\ UNCHANGED <<backend, connected, phase, mem, lock, op, ops, acked>>

-----------------------------------------------------------------------------
Init ==
    /\ backend \in {"mongo", "postgres"}
    /\ connected = TRUE
    /\ phase = "down"
    /\ mem = SeedRecord
    /\ lock = Free
    /\ op = [a \in Admins |-> NoRequest]
    /\ db = [w \in WorkerIds |-> NoDocument]
    /\ statuses = {}
    /\ ops = 0
    /\ acked = [w \in WorkerIds |-> Unknown]

LoadStep ==
    \/ Start \/ LoadList \/ ListFails \/ Loaded
    \/ \E w \in Seeds, o \in StoreOutcome : LoadSeed(w, o)

AdminStep(a) ==
    \/ \E w \in WorkerIds : Delete(a, w) \/ \E rec \in Record : Upsert(a, w, rec)
    \/ \E o \in StoreOutcome : UpsertStored(a, o) \/ DeleteStored(a, o)

HealthStep == Measure \/ \E s \in statuses, o \in StoreOutcome : StatusSaved(s, o)

Next == LoadStep \/ Crash \/ HealthStep \/ \E a \in Admins : AdminStep(a)

Spec == Init /\ [][Next]_registryVars

-----------------------------------------------------------------------------
TypeOK ==
    /\ backend \in {"mongo", "postgres"}
    /\ connected \in BOOLEAN
    /\ phase \in {"down", "list", "seeds", "run"}
    /\ DOMAIN mem \subseteq WorkerIds
    /\ \A w \in DOMAIN mem : mem[w] \in Record
    /\ lock \in Admins \cup {Free}
    /\ op \in [Admins -> Request \cup {NoRequest}]
    /\ db \in [WorkerIds -> Document \cup {NoDocument}]
    /\ statuses \subseteq [id : WorkerIds, url : Urls]
    /\ ops \in 0 .. MaxOps
    /\ acked \in [WorkerIds -> Record \cup {Deleted, Unknown}]

\* What an answered request did to a worker is in the database, whatever other
\* requests, health checks, crashes and lives without a database came between: a registered worker is
\* there with its enabled flag, a removed one is not (a seed may come back).
\* Only on PostgreSQL is the URL sure to be the one that was registered.
Durable ==
    \A w \in WorkerIds :
        /\ acked[w] = Deleted /\ w \notin Seeds => ~db[w].registered
        /\ acked[w] \in Record =>
              /\ db[w].registered
              /\ db[w].enabled = acked[w].enabled
              /\ backend = "postgres" => db[w].url = acked[w].url

\* The scheduler sees the same workers: the registry in memory agrees with the
\* last answered request on each worker, also after a restart, unless the
\* process was started without its database.  As in Durable, a removed seed may
\* come back, and only on PostgreSQL is the URL sure to be the registered one.
MemoryAgrees ==
    phase = "run" /\ connected =>
        \A w \in WorkerIds :
            /\ acked[w] = Deleted /\ w \notin Seeds => w \notin DOMAIN mem
            /\ acked[w] \in Record =>
                  /\ w \in DOMAIN mem
                  /\ mem[w].enabled = acked[w].enabled
                  /\ backend = "postgres" => mem[w].url = acked[w].url

\* What Registrations has of the registry.  On MongoDB a running /health may set
\* the URL back: there the promise is about the enabled flag alone.
Shown(rec) == IF backend = "postgres" THEN rec ELSE [enabled |-> rec.enabled]

Entry(w) ==
    IF db[w].registered THEN Shown([url |-> db[w].url, enabled |-> db[w].enabled]) ELSE Deleted

InHand ==
    IF lock = Free THEN NoRequest
    ELSE [id |-> op[lock].id,
          entry |-> IF op[lock].kind = "upsert" THEN Shown(op[lock].rec) ELSE Deleted]

AnsweredEntry(w) == IF acked[w] \in Record THEN Shown(acked[w]) ELSE acked[w]

Registered == INSTANCE Registrations WITH
    Workers <- WorkerIds,
    Entries <- Record \cup [enabled : BOOLEAN],
    Removed <- Deleted,
    Open <- Unknown,
    Nobody <- NoRequest,
    stored <- [w \in WorkerIds |-> Entry(w)],
    request <- InHand,
    answered <- [w \in WorkerIds |-> AnsweredEntry(w)]

\* The registrations in the database are changed by one request at a time, each as
\* a whole, and by nothing else: no health check, late write, crash, failing
\* call or start adds, removes, enables or disables a worker or takes part of a
\* request back, also of those that were never answered.
ChangesAreSerial == Registered!Spec

\* "later IP changes and add/remove operations live in the DB" (registry.py):
\* the URL that was registered last is the one in the database.
UrlIsStored ==
    \A w \in WorkerIds : acked[w] \in Record => db[w].url = acked[w].url

=============================================================================
