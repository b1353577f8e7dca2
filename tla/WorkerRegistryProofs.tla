------------------------ MODULE WorkerRegistryProofs ------------------------
(***************************************************************************)
(* Theorems about WorkerRegistry, for every set of workers, URLs, seeds    *)
(* and concurrent requests, and every number of requests.                  *)
(***************************************************************************)
EXTENDS WorkerRegistry, TLAPS

\* Only the holder of the lock has a request, and only while the process
\* serves requests.
Exclusive ==
    \A a \in Admins : op[a] # NoRequest => lock = a /\ phase = "run"

\* A request has changed the memory and is not answered.
InFlight ==
    \A a \in Admins : op[a].kind # "none" => acked[op[a].id] = Unknown

\* load starts from the seeds.
FromSeeds == phase = "list" => DOMAIN mem = Seeds

\* MemoryAgrees, from the moment the stored records are loaded.
LoadedAgrees ==
    phase \in {"seeds", "run"} /\ connected =>
        \A w \in WorkerIds :
            /\ acked[w] = Deleted /\ w \notin Seeds => w \notin DOMAIN mem
            /\ acked[w] \in Record =>
                  /\ w \in DOMAIN mem
                  /\ mem[w].enabled = acked[w].enabled
                  /\ backend = "postgres" => mem[w].url = acked[w].url

\* The request the lock is held for is what the memory shows.
MemoryAhead ==
    \A a \in Admins :
        /\ op[a].kind = "upsert" => op[a].id \in DOMAIN mem /\ mem[op[a].id] = op[a].rec
        /\ op[a].kind = "delete" => op[a].id \notin DOMAIN mem

RegistryInv ==
    /\ TypeOK /\ Durable /\ Exclusive /\ InFlight /\ FromSeeds /\ LoadedAgrees
    /\ MemoryAhead

USE RegistryAssumption

-----------------------------------------------------------------------------
\* The marks of the history are no records of workers.
LEMMA Marks ==
    /\ Deleted \notin Record /\ Unknown \notin Record /\ Deleted # Unknown
    /\ NoRequest \notin Request /\ NoDocument \notin Document
  BY DEF Deleted, Unknown, Record, NoRequest, Request, NoDocument, Document

\* What a request is, by its kind.
LEMMA RequestKinds ==
    ASSUME NEW r \in Request \cup {NoRequest}
    PROVE  /\ r.kind = "upsert" => r.id \in WorkerIds /\ r.rec \in Record
           /\ r.kind = "delete" => r.id \in WorkerIds
           /\ r.kind # "none" => r.id \in WorkerIds /\ r # NoRequest
           /\ r.kind = "none" => r = NoRequest
           /\ r.kind \in {"upsert", "delete", "none"}
  BY DEF Request, NoRequest

\* Where the seeds' records come from.
LEMMA SeedType == \A w \in Seeds : w \in WorkerIds /\ SeedRecord[w] \in Record
  OBVIOUS

\* The process starts with the seeds and without a request in flight.
LEMMA StartKeeps ==
    ASSUME RegistryInv, Start
    PROVE  RegistryInv'
<1>1. mem' = SeedRecord /\ phase' = "list"
  BY DEF Start
<1>2. \A a \in Admins : op[a] = NoRequest
  BY DEF Start, RegistryInv, Exclusive
<1>3. TypeOK'
  BY <1>1, SeedType DEF Start, RegistryInv, TypeOK
<1>4. Durable' /\ Exclusive' /\ InFlight' /\ FromSeeds' /\ LoadedAgrees' /\ MemoryAhead'
  BY <1>1, <1>2 DEF Start, RegistryInv, Durable, Exclusive, InFlight, FromSeeds,
     LoadedAgrees, MemoryAhead, NoRequest
<1> QED
  BY <1>3, <1>4 DEF RegistryInv

\* load reads what Durable says the database has.
LEMMA LoadListKeeps ==
    ASSUME RegistryInv, LoadList
    PROVE  RegistryInv'
<1> DEFINE persisted == {w \in WorkerIds : connected /\ db[w].registered}
           loaded == [w \in persisted |-> [url |-> db[w].url, enabled |-> db[w].enabled]]
<1>1. /\ phase = "list" /\ phase' = "seeds"
      /\ mem' = IF persisted = {} THEN mem ELSE loaded
      /\ UNCHANGED <<backend, connected, lock, op, db, statuses, ops, acked>>
  BY DEF LoadList
<1>2. \A a \in Admins : op[a] = NoRequest
  BY <1>1 DEF RegistryInv, Exclusive
<1>3. \A w \in persisted : [url |-> db[w].url, enabled |-> db[w].enabled] \in Record
  BY DEF RegistryInv, TypeOK, Document, NoDocument, Record
<1>4. TypeOK'
  <2>1. DOMAIN mem' \subseteq WorkerIds /\ \A w \in DOMAIN mem' : mem'[w] \in Record
    BY <1>1, <1>3 DEF RegistryInv, TypeOK
  <2> QED
    BY <1>1, <2>1 DEF RegistryInv, TypeOK
<1>5. LoadedAgrees'
  <2> SUFFICES ASSUME NEW w \in WorkerIds, connected
               PROVE  /\ acked[w] = Deleted /\ w \notin Seeds => w \notin DOMAIN mem'
                      /\ acked[w] \in Record =>
                            /\ w \in DOMAIN mem'
                            /\ mem'[w].enabled = acked[w].enabled
                            /\ backend = "postgres" => mem'[w].url = acked[w].url
    BY <1>1 DEF LoadedAgrees
  <2>1. CASE acked[w] = Deleted /\ w \notin Seeds
    <3>1. w \notin persisted
      BY <2>1 DEF RegistryInv, Durable
    <3>2. DOMAIN mem' \in {Seeds, persisted}
      BY <1>1 DEF RegistryInv, FromSeeds
    <3> QED
      BY <2>1, <3>1, <3>2, Marks
  <2>2. CASE acked[w] \in Record
    <3>1. w \in persisted /\ db[w].enabled = acked[w].enabled
      BY <2>2 DEF RegistryInv, Durable
    <3>2. backend = "postgres" => db[w].url = acked[w].url
      BY <2>2 DEF RegistryInv, Durable
    <3>3. mem'[w] = [url |-> db[w].url, enabled |-> db[w].enabled] /\ w \in DOMAIN mem'
      BY <1>1, <3>1
    <3> QED
      BY <2>2, <3>1, <3>2, <3>3, Marks
  <2> QED
    BY <2>1, <2>2
<1>6. Durable' /\ Exclusive' /\ InFlight' /\ FromSeeds' /\ MemoryAhead'
  BY <1>1, <1>2 DEF RegistryInv, Durable, Exclusive, InFlight, FromSeeds, MemoryAhead,
     NoRequest
<1> QED
  BY <1>4, <1>5, <1>6 DEF RegistryInv

\* A failed read of the records ends the process.
LEMMA ListFailsKeeps ==
    ASSUME RegistryInv, ListFails
    PROVE  RegistryInv'
<1>1. \A a \in Admins : op[a] = NoRequest
  BY DEF ListFails, RegistryInv, Exclusive
<1> QED
  BY <1>1 DEF ListFails, RegistryInv, TypeOK, Durable, Exclusive, InFlight, FromSeeds,
     LoadedAgrees, MemoryAhead, NoRequest

\* load stores a seed only if its id is not registered yet.
LEMMA LoadSeedKeeps ==
    ASSUME RegistryInv, NEW w \in Seeds, NEW o \in StoreOutcome, LoadSeed(w, o)
    PROVE  RegistryInv'
<1>1. /\ phase = "seeds" /\ phase' \in {"seeds", "down"} /\ w \notin DOMAIN mem
      /\ mem' = [v \in DOMAIN mem \cup {w} |-> IF v = w THEN SeedRecord[w] ELSE mem[v]]
      /\ UNCHANGED <<backend, connected, lock, op, statuses, ops, acked>>
  BY DEF LoadSeed
<1>2. w \in WorkerIds /\ SeedRecord[w] \in Record
  BY SeedType
<1>3. \A a \in Admins : op[a] = NoRequest
  BY <1>1 DEF RegistryInv, Exclusive
<1>4. connected => acked[w] \notin Record
  BY <1>1, <1>2 DEF RegistryInv, LoadedAgrees
<1>5. /\ db' \in [WorkerIds -> Document \cup {NoDocument}]
      /\ \A v \in WorkerIds : v # w \/ ~connected => db'[v] = db[v]
  BY <1>2 DEF LoadSeed, SaveRecord, Write, Record, Document, RegistryInv, TypeOK
<1>6. TypeOK'
  BY <1>1, <1>2, <1>5 DEF RegistryInv, TypeOK
<1>7. Durable'
  BY <1>1, <1>2, <1>4, <1>5 DEF RegistryInv, Durable
<1>8. LoadedAgrees'
  BY <1>1, <1>2, <1>4 DEF RegistryInv, LoadedAgrees
<1>9. Exclusive' /\ InFlight' /\ FromSeeds' /\ MemoryAhead'
  BY <1>1, <1>3 DEF RegistryInv, Exclusive, InFlight, FromSeeds, MemoryAhead, NoRequest
<1> QED
  BY <1>6, <1>7, <1>8, <1>9 DEF RegistryInv

\* The registry is complete and the process serves requests.
LEMMA LoadedKeeps ==
    ASSUME RegistryInv, Loaded
    PROVE  RegistryInv'
  BY DEF Loaded, RegistryInv, TypeOK, Durable, Exclusive, InFlight, FromSeeds, LoadedAgrees,
         MemoryAhead

\* The process ends with its requests, its lock and its running /health.
LEMMA CrashKeeps ==
    ASSUME RegistryInv, Crash
    PROVE  RegistryInv'
  BY DEF Crash, RegistryInv, TypeOK, Durable, Exclusive, InFlight, FromSeeds, LoadedAgrees,
         MemoryAhead, NoRequest

\* The lock is free, so no other request is in flight.
LEMMA AcquireEffect ==
    ASSUME RegistryInv, NEW a \in Admins, NEW req \in Request, Acquire(a, req)
    PROVE  /\ phase = "run" /\ phase' = "run" /\ lock' = a
           /\ op'[a] = req /\ req # NoRequest
           /\ \A b \in Admins : b # a => op[b] = NoRequest /\ op'[b] = NoRequest
           /\ op' \in [Admins -> Request \cup {NoRequest}]
           /\ ops' \in 0 .. MaxOps
           /\ acked' \in [WorkerIds -> Record \cup {Deleted, Unknown}]
           /\ req.id \in WorkerIds /\ acked'[req.id] = Unknown
           /\ \A v \in WorkerIds : v # req.id => acked'[v] = acked[v]
           /\ UNCHANGED <<backend, connected, db, statuses>>
<1>1. req.id \in WorkerIds /\ req # NoRequest
  BY RequestKinds, Marks
<1>2. \A b \in Admins : op[b] = NoRequest
  BY DEF Acquire, RegistryInv, Exclusive
<1> QED
  BY <1>1, <1>2 DEF Acquire, RegistryInv, TypeOK

\* POST /workers takes the lock and replaces the record in memory.
LEMMA UpsertKeeps ==
    ASSUME RegistryInv, NEW a \in Admins, NEW w \in WorkerIds, NEW rec \in Record,
           Upsert(a, w, rec)
    PROVE  RegistryInv'
<1> DEFINE req == [kind |-> "upsert", id |-> w, rec |-> rec]
<1>1. req \in Request /\ req.id = w /\ req.kind = "upsert" /\ req.rec = rec
  BY DEF Request
<1>2. Acquire(a, req)
  BY DEF Upsert
<1>3. mem' = [v \in DOMAIN mem \cup {w} |-> IF v = w THEN rec ELSE mem[v]]
  BY DEF Upsert
<1> HIDE DEF req
<1>4. /\ phase = "run" /\ phase' = "run" /\ lock' = a
      /\ op'[a] = req /\ req # NoRequest
      /\ \A b \in Admins : b # a => op[b] = NoRequest /\ op'[b] = NoRequest
      /\ op' \in [Admins -> Request \cup {NoRequest}]
      /\ ops' \in 0 .. MaxOps
      /\ acked' \in [WorkerIds -> Record \cup {Deleted, Unknown}]
      /\ acked'[w] = Unknown
      /\ \A v \in WorkerIds : v # w => acked'[v] = acked[v]
      /\ UNCHANGED <<backend, connected, db, statuses>>
  BY <1>1, <1>2, AcquireEffect
<1>5. TypeOK'
  BY <1>3, <1>4 DEF RegistryInv, TypeOK
<1>6. Durable' /\ LoadedAgrees'
  BY <1>3, <1>4, Marks DEF RegistryInv, Durable, LoadedAgrees
<1>7. Exclusive' /\ FromSeeds'
  BY <1>4 DEF Exclusive, FromSeeds
<1>8. InFlight' /\ MemoryAhead'
  BY <1>1, <1>3, <1>4 DEF InFlight, MemoryAhead, NoRequest
<1> QED
  BY <1>5, <1>6, <1>7, <1>8 DEF RegistryInv

\* DELETE /workers takes the lock and drops the record from memory.
LEMMA DeleteKeeps ==
    ASSUME RegistryInv, NEW a \in Admins, NEW w \in WorkerIds, Delete(a, w)
    PROVE  RegistryInv'
<1> DEFINE req == [kind |-> "delete", id |-> w]
<1>1. req \in Request /\ req.id = w /\ req.kind = "delete"
  BY DEF Request
<1>2. Acquire(a, req)
  BY DEF Delete
<1>3. mem' = [v \in DOMAIN mem \ {w} |-> mem[v]]
  BY DEF Delete, Restrict
<1> HIDE DEF req
<1>4. /\ phase = "run" /\ phase' = "run" /\ lock' = a
      /\ op'[a] = req /\ req # NoRequest
      /\ \A b \in Admins : b # a => op[b] = NoRequest /\ op'[b] = NoRequest
      /\ op' \in [Admins -> Request \cup {NoRequest}]
      /\ ops' \in 0 .. MaxOps
      /\ acked' \in [WorkerIds -> Record \cup {Deleted, Unknown}]
      /\ acked'[w] = Unknown
      /\ \A v \in WorkerIds : v # w => acked'[v] = acked[v]
      /\ UNCHANGED <<backend, connected, db, statuses>>
  BY <1>1, <1>2, AcquireEffect
<1>5. TypeOK'
  BY <1>3, <1>4 DEF RegistryInv, TypeOK
<1>6. Durable' /\ LoadedAgrees'
  BY <1>3, <1>4, Marks DEF RegistryInv, Durable, LoadedAgrees
<1>7. Exclusive' /\ FromSeeds'
  BY <1>4 DEF Exclusive, FromSeeds
<1>8. InFlight' /\ MemoryAhead'
  BY <1>1, <1>3, <1>4 DEF InFlight, MemoryAhead, NoRequest
<1> QED
  BY <1>5, <1>6, <1>7, <1>8 DEF RegistryInv

\* The end of a request frees the lock; its outcome is history only if the
\* database call returned.
LEMMA AnswerEffect ==
    ASSUME RegistryInv, NEW a \in Admins, NEW o, NEW done \in Record \cup {Deleted},
           op[a].kind # "none", Answer(a, o, done)
    PROVE  /\ \A b \in Admins : op'[b] = NoRequest
           /\ op' \in [Admins -> Request \cup {NoRequest}]
           /\ lock' = Free /\ phase = "run"
           /\ acked' \in [WorkerIds -> Record \cup {Deleted, Unknown}]
           /\ op[a].id \in WorkerIds
           /\ \A v \in WorkerIds : v # op[a].id => acked'[v] = acked[v]
           /\ o = "ok" /\ connected => acked'[op[a].id] = done
           /\ o # "ok" \/ ~connected => acked'[op[a].id] = Unknown
           /\ UNCHANGED <<backend, connected, phase, mem, statuses, ops>>
<1>1. op[a] \in Request \cup {NoRequest}
  BY DEF RegistryInv, TypeOK
<1>2. op[a].id \in WorkerIds /\ op[a] # NoRequest
  BY <1>1, RequestKinds
<1>3. \A b \in Admins : b # a => op[b] = NoRequest
  BY <1>2 DEF RegistryInv, Exclusive
<1>4. acked[op[a].id] = Unknown
  BY DEF RegistryInv, InFlight
<1> QED
  BY <1>2, <1>3, <1>4 DEF Answer, RegistryInv, Exclusive, TypeOK

\* The record an upsert stored is the one it left in memory.
LEMMA UpsertStoredKeeps ==
    ASSUME RegistryInv, NEW a \in Admins, NEW o \in StoreOutcome, UpsertStored(a, o)
    PROVE  RegistryInv'
<1> DEFINE w == op[a].id
           rec == op[a].rec
<1>1. op[a].kind = "upsert" /\ SaveRecord(w, rec, o) /\ Answer(a, o, rec)
  BY DEF UpsertStored
<1>2. w \in WorkerIds /\ rec \in Record
  BY <1>1, RequestKinds DEF RegistryInv, TypeOK
<1>3. w \in DOMAIN mem /\ mem[w] = rec
  BY <1>1 DEF RegistryInv, MemoryAhead
<1>4. /\ \A b \in Admins : op'[b] = NoRequest
      /\ op' \in [Admins -> Request \cup {NoRequest}]
      /\ lock' = Free /\ phase = "run"
      /\ acked' \in [WorkerIds -> Record \cup {Deleted, Unknown}]
      /\ \A v \in WorkerIds : v # w => acked'[v] = acked[v]
      /\ o = "ok" /\ connected => acked'[w] = rec
      /\ o # "ok" \/ ~connected => acked'[w] = Unknown
      /\ UNCHANGED <<backend, connected, phase, mem, statuses, ops>>
  BY <1>1, <1>2, AnswerEffect
<1> HIDE DEF w, rec
<1>5. /\ db' \in [WorkerIds -> Document \cup {NoDocument}]
      /\ \A v \in WorkerIds : v # w => db'[v] = db[v]
      /\ o = "ok" /\ connected => db'[w] = [registered |-> TRUE, enabled |-> rec.enabled, url |-> rec.url]
  BY <1>1, <1>2 DEF SaveRecord, Write, Record, Document, RegistryInv, TypeOK
<1>6. TypeOK'
  BY <1>4, <1>5 DEF RegistryInv, TypeOK
<1>7. Durable'
  BY <1>2, <1>4, <1>5, Marks DEF RegistryInv, Durable
<1>8. LoadedAgrees'
  BY <1>2, <1>3, <1>4, Marks DEF RegistryInv, LoadedAgrees
<1>9. Exclusive' /\ InFlight' /\ FromSeeds' /\ MemoryAhead'
  BY <1>4 DEF Exclusive, InFlight, FromSeeds, MemoryAhead, NoRequest
<1> QED
  BY <1>6, <1>7, <1>8, <1>9 DEF RegistryInv

\* A deleted worker is in neither place, whatever the database keeps of it.
LEMMA DeleteStoredKeeps ==
    ASSUME RegistryInv, NEW a \in Admins, NEW o \in StoreOutcome, DeleteStored(a, o)
    PROVE  RegistryInv'
<1> DEFINE w == op[a].id
<1>1. op[a].kind = "delete" /\ DeleteRecord(w, o) /\ Answer(a, o, Deleted)
  BY DEF DeleteStored
<1>2. w \in WorkerIds
  BY <1>1, RequestKinds DEF RegistryInv, TypeOK
<1>3. w \notin DOMAIN mem
  BY <1>1 DEF RegistryInv, MemoryAhead
<1>4. /\ \A b \in Admins : op'[b] = NoRequest
      /\ op' \in [Admins -> Request \cup {NoRequest}]
      /\ lock' = Free /\ phase = "run"
      /\ acked' \in [WorkerIds -> Record \cup {Deleted, Unknown}]
      /\ \A v \in WorkerIds : v # w => acked'[v] = acked[v]
      /\ o = "ok" /\ connected => acked'[w] = Deleted
      /\ o # "ok" \/ ~connected => acked'[w] = Unknown
      /\ UNCHANGED <<backend, connected, phase, mem, statuses, ops>>
  BY <1>1, <1>2, AnswerEffect
<1> HIDE DEF w
<1>5. /\ db' \in [WorkerIds -> Document \cup {NoDocument}]
      /\ \A v \in WorkerIds : v # w => db'[v] = db[v]
      /\ o = "ok" /\ connected => ~db'[w].registered
  <2>1. db[w] \in Document \cup {NoDocument} /\ ~NoDocument.registered
    BY <1>2 DEF RegistryInv, TypeOK, NoDocument
  <2>2. ASSUME db[w] # NoDocument
        PROVE  LET doc == [db[w] EXCEPT !.registered = FALSE, !.enabled = FALSE]
               IN  doc \in Document /\ ~doc.registered
    BY <2>1, <2>2 DEF Document
  <2> QED
    BY <1>1, <1>2, <2>1, <2>2 DEF DeleteRecord, Write, RegistryInv, TypeOK
<1>6. TypeOK'
  BY <1>4, <1>5 DEF RegistryInv, TypeOK
<1>7. Durable'
  BY <1>2, <1>4, <1>5, Marks DEF RegistryInv, Durable
<1>8. LoadedAgrees'
  BY <1>2, <1>3, <1>4, Marks DEF RegistryInv, LoadedAgrees
<1>9. Exclusive' /\ InFlight' /\ FromSeeds' /\ MemoryAhead'
  BY <1>4 DEF Exclusive, InFlight, FromSeeds, MemoryAhead, NoRequest
<1> QED
  BY <1>6, <1>7, <1>8, <1>9 DEF RegistryInv

\* /health takes the URLs of the enabled workers from the memory.
LEMMA MeasureKeeps ==
    ASSUME RegistryInv, Measure
    PROVE  RegistryInv'
<1>1. statuses' \subseteq [id : WorkerIds, url : Urls]
  BY DEF Measure, RegistryInv, TypeOK, Record
<1> QED
  BY <1>1 DEF Measure, RegistryInv, TypeOK, Durable, Exclusive, InFlight, FromSeeds,
     LoadedAgrees, MemoryAhead

\* A status changes the URL of a document on MongoDB and nothing else.
LEMMA StatusSavedKeeps ==
    ASSUME RegistryInv, NEW s \in statuses, NEW o \in StoreOutcome, StatusSaved(s, o)
    PROVE  RegistryInv'
<1>1. s.id \in WorkerIds /\ s.url \in Urls /\ statuses' \subseteq statuses
  BY DEF StatusSaved, RegistryInv, TypeOK
<1>2. UNCHANGED <<backend, connected, phase, mem, lock, op, ops, acked>>
  BY DEF StatusSaved
<1>3. db[s.id] \in Document \cup {NoDocument}
  BY <1>1 DEF RegistryInv, TypeOK
<1>4. ASSUME db[s.id] # NoDocument
      PROVE  LET doc == [db[s.id] EXCEPT !.url = s.url]
             IN  /\ doc \in Document
                 /\ doc.registered = db[s.id].registered /\ doc.enabled = db[s.id].enabled
  BY <1>1, <1>3, <1>4 DEF Document
<1>5. LET doc == [registered |-> FALSE, enabled |-> FALSE, url |-> s.url]
      IN  doc \in Document /\ doc.registered = FALSE /\ NoDocument.registered = FALSE
  BY <1>1 DEF Document, NoDocument
<1>6. /\ db' \in [WorkerIds -> Document \cup {NoDocument}]
      /\ \A v \in WorkerIds :
            /\ db'[v].registered <=> db[v].registered
            /\ db[v].registered => db'[v].enabled = db[v].enabled
            /\ backend = "postgres" => db'[v] = db[v]
  <2>1. CASE UNCHANGED db
    BY <2>1 DEF RegistryInv, TypeOK
  <2>2. ASSUME backend = "mongo", NEW doc \in Document, db' = [db EXCEPT ![s.id] = doc],
               doc.registered = db[s.id].registered,
               doc.registered => doc.enabled = db[s.id].enabled
        PROVE  <1>6
    BY <1>1, <2>2 DEF RegistryInv, TypeOK
  <2>3. ASSUME backend = "mongo", db[s.id] = NoDocument,
               db' = [db EXCEPT ![s.id] = [registered |-> FALSE, enabled |-> FALSE, url |-> s.url]]
        PROVE  <1>6
    <3> DEFINE doc == [registered |-> FALSE, enabled |-> FALSE, url |-> s.url]
    <3>1. doc \in Document /\ doc.registered = FALSE /\ db[s.id].registered = FALSE
      BY <1>5, <2>3
    <3>2. db' = [db EXCEPT ![s.id] = doc]
      BY <2>3
    <3> HIDE DEF doc
    <3> QED
      BY <2>2, <2>3, <3>1, <3>2
  <2>4. ASSUME backend = "mongo", db[s.id] # NoDocument,
               db' = [db EXCEPT ![s.id] = [db[s.id] EXCEPT !.url = s.url]]
        PROVE  <1>6
    BY <1>4, <2>2, <2>4
  <2> QED
    BY <2>1, <2>3, <2>4 DEF StatusSaved, SaveStatus, Write
<1>7. TypeOK'
  BY <1>1, <1>2, <1>6 DEF RegistryInv, TypeOK
<1>8. Durable'
  BY <1>2, <1>6 DEF RegistryInv, Durable
<1>9. Exclusive' /\ InFlight' /\ FromSeeds' /\ LoadedAgrees' /\ MemoryAhead'
  BY <1>2 DEF RegistryInv, Exclusive, InFlight, FromSeeds, LoadedAgrees, MemoryAhead
<1> QED
  BY <1>7, <1>8, <1>9 DEF RegistryInv

-----------------------------------------------------------------------------
\* Init and every step establish the invariant.
LEMMA InitHolds == Init => RegistryInv
<1> SUFFICES ASSUME Init PROVE RegistryInv
  OBVIOUS
<1>1. TypeOK
  BY SeedType DEF Init, TypeOK
<1> QED
  BY <1>1, Marks DEF Init, RegistryInv, Durable, Exclusive, InFlight, FromSeeds,
     LoadedAgrees, MemoryAhead, NoRequest

\* Every step, and every stutter, keeps the invariant.
LEMMA NextKeeps ==
    ASSUME RegistryInv, [Next]_registryVars
    PROVE  RegistryInv'
<1>1. CASE LoadStep
  BY <1>1, StartKeeps, LoadListKeeps, ListFailsKeeps, LoadedKeeps, LoadSeedKeeps
     DEF LoadStep
<1>2. CASE Crash
  BY <1>2, CrashKeeps
<1>3. CASE HealthStep
  BY <1>3, MeasureKeeps, StatusSavedKeeps DEF HealthStep
<1>4. ASSUME NEW a \in Admins, AdminStep(a)
      PROVE  RegistryInv'
  BY <1>4, UpsertKeeps, DeleteKeeps, UpsertStoredKeeps, DeleteStoredKeeps DEF AdminStep
<1>5. CASE UNCHANGED registryVars
  BY <1>5 DEF registryVars, RegistryInv, TypeOK, Durable, Exclusive, InFlight, FromSeeds,
     LoadedAgrees, MemoryAhead
<1> QED
  BY <1>1, <1>2, <1>3, <1>4, <1>5 DEF Next

\* The registry's invariant holds in every reachable state.
THEOREM RegistryInvariance == Spec => []RegistryInv
<1>1. RegistryInv /\ [Next]_registryVars => RegistryInv'
  BY NextKeeps
<1> QED
  BY <1>1, InitHolds, PTL DEF Spec

\* The registry's variables keep their types.
THEOREM RegistryTypeCorrect == Spec => []TypeOK
<1>1. RegistryInv => TypeOK
  BY DEF RegistryInv
<1> QED
  BY <1>1, RegistryInvariance, PTL

\* What an answered request did to a worker stays in the database.
THEOREM AnswersAreDurable == Spec => []Durable
<1>1. RegistryInv => Durable
  BY DEF RegistryInv
<1> QED
  BY <1>1, RegistryInvariance, PTL

\* The registry in memory shows what answered requests did, after a restart too.
THEOREM MemoryShowsAnswers == Spec => []MemoryAgrees
<1>1. RegistryInv => MemoryAgrees
  BY DEF RegistryInv, LoadedAgrees, MemoryAgrees
<1> QED
  BY <1>1, RegistryInvariance, PTL

-----------------------------------------------------------------------------
(* The refinement.  The request in hand is the one the lock is held for; a *)
(* start that misses a seed in memory has found none in the database.      *)

HolderIsBusy == lock # Free => lock \in Admins /\ op[lock] # NoRequest

SeedsAreMissing ==
    phase = "seeds" /\ connected =>
        \A w \in WorkerIds : w \notin DOMAIN mem => ~db[w].registered

SerialInv == RegistryInv /\ HolderIsBusy /\ SeedsAreMissing

Entries == Record \cup [enabled : BOOLEAN]

\* What Registrations sees of a registration is one of its entries, and of a
\* request a request.
LEMMA ShownType ==
    ASSUME RegistryInv
    PROVE  \A rec \in Record : Shown(rec) \in Entries
  BY DEF Shown, Entries, Record

\* While nobody has the lock, nothing is in hand.
LEMMA QuietIsFree ==
    ASSUME SerialInv, phase # "run"
    PROVE  lock = Free
  BY DEF SerialInv, HolderIsBusy, RegistryInv, Exclusive

\* A request in flight is the one in hand.
LEMMA FlightInHand ==
    ASSUME SerialInv, NEW a \in Admins, op[a].kind \in {"upsert", "delete"}
    PROVE  /\ lock = a /\ lock # Free /\ op[a].id \in WorkerIds
           /\ op[a].kind = "upsert" => op[a].rec \in Record
           /\ InHand = [id |-> op[a].id,
                        entry |-> IF op[a].kind = "upsert" THEN Shown(op[a].rec) ELSE Deleted]
           /\ InHand # NoRequest
<1>1. op[a] # NoRequest /\ op[a] \in Request \cup {NoRequest}
  BY DEF NoRequest, SerialInv, RegistryInv, TypeOK
<1>2. lock = a
  BY <1>1 DEF SerialInv, RegistryInv, Exclusive
<1>3. op[a].id \in WorkerIds /\ (op[a].kind = "upsert" => op[a].rec \in Record)
  BY <1>1, RequestKinds
<1>4. lock # Free
  BY <1>2
<1>5. InHand = [id |-> op[a].id,
                entry |-> IF op[a].kind = "upsert" THEN Shown(op[a].rec) ELSE Deleted]
  BY <1>2, <1>4 DEF InHand
<1>6. InHand # NoRequest
  BY <1>5 DEF NoRequest
<1> QED
  BY <1>2, <1>3, <1>4, <1>5, <1>6

-----------------------------------------------------------------------------
(* Steps Registrations does not see.                                       *)

LEMMA SameIsInvisible ==
    ASSUME UNCHANGED <<backend, lock, op, acked>>,
           \A w \in WorkerIds : Entry(w)' = Entry(w)
    PROVE  UNCHANGED Registered!registrationVars
<1>1. [w \in WorkerIds |-> Entry(w)]' = [w \in WorkerIds |-> Entry(w)]
  OBVIOUS
<1>2. InHand' = InHand
  BY DEF InHand, Shown
<1>3. [w \in WorkerIds |-> AnsweredEntry(w)]' = [w \in WorkerIds |-> AnsweredEntry(w)]
  BY DEF AnsweredEntry, Shown
<1> QED
  BY <1>1, <1>2, <1>3 DEF Registered!registrationVars

LEMMA QuietIsInvisible ==
    ASSUME UNCHANGED <<backend, lock, op, acked, db>>
    PROVE  UNCHANGED Registered!registrationVars
<1>1. \A w \in WorkerIds : Entry(w)' = Entry(w)
  BY DEF Entry, Shown
<1> QED
  BY <1>1, SameIsInvisible

\* A status may move a URL on MongoDB, or leave a document that is no registration.
LEMMA StatusIsInvisible ==
    ASSUME RegistryInv, NEW s \in statuses, NEW o \in StoreOutcome, StatusSaved(s, o)
    PROVE  /\ UNCHANGED Registered!registrationVars
           /\ \A v \in WorkerIds : db'[v].registered <=> db[v].registered
<1>1. s.id \in WorkerIds /\ s.url \in Urls
  BY DEF RegistryInv, TypeOK
<1>2. UNCHANGED <<backend, lock, op, acked>>
  BY DEF StatusSaved
<1>3. db[s.id] \in Document \cup {NoDocument} /\ db \in [WorkerIds -> Document \cup {NoDocument}]
  BY <1>1 DEF RegistryInv, TypeOK
<1>4. ASSUME db[s.id] # NoDocument
      PROVE  LET doc == [db[s.id] EXCEPT !.url = s.url]
             IN  doc.registered = db[s.id].registered /\ doc.enabled = db[s.id].enabled
  BY <1>1, <1>3, <1>4 DEF Document
<1>5. ASSUME NEW v \in WorkerIds
      PROVE  /\ db'[v].registered <=> db[v].registered
             /\ db[v].registered => db'[v].enabled = db[v].enabled
             /\ backend = "postgres" => db'[v] = db[v]
  <2>1. CASE UNCHANGED db
    BY <2>1
  <2>2. CASE v # s.id
    BY <1>3, <2>2 DEF StatusSaved, SaveStatus, Write
  <2>3. CASE v = s.id /\ db[s.id] = NoDocument /\ backend = "mongo"
    <3>1. db' = db \/ db'[v] = [registered |-> FALSE, enabled |-> FALSE, url |-> s.url]
      BY <1>1, <1>3, <2>3 DEF StatusSaved, SaveStatus, Write
    <3>2. ~db[v].registered
      BY <2>3 DEF NoDocument
    <3> QED
      BY <2>3, <3>1, <3>2
  <2>4. CASE v = s.id /\ db[s.id] # NoDocument /\ backend = "mongo"
    <3>1. db' = db \/ db'[v] = [db[s.id] EXCEPT !.url = s.url]
      BY <1>1, <1>3, <2>4 DEF StatusSaved, SaveStatus, Write
    <3> QED
      BY <1>4, <2>4, <3>1
  <2> QED
    BY <2>1, <2>2, <2>3, <2>4 DEF StatusSaved, SaveStatus
<1>6. \A w \in WorkerIds : Entry(w)' = Entry(w)
  BY <1>2, <1>5 DEF Entry, Shown, RegistryInv, TypeOK
<1> QED
  BY <1>2, <1>5, <1>6, SameIsInvisible

-----------------------------------------------------------------------------
(* Steps it sees.                                                          *)

\* What is registered for w becomes entry, and nothing else does.
Becomes(w, entry) ==
    Entry(w)' = entry /\ \A v \in WorkerIds : v # w => Entry(v)' = Entry(v)

LEMMA BecomesStored ==
    ASSUME NEW w \in WorkerIds, NEW entry, Becomes(w, entry)
    PROVE  [v \in WorkerIds |-> Entry(v)]' = [[v \in WorkerIds |-> Entry(v)] EXCEPT ![w] = entry]
  BY DEF Becomes

\* A write that is carried out: save_worker_record and delete_worker_record.
LEMMA SaveRecordEffect ==
    ASSUME RegistryInv, NEW w \in WorkerIds, NEW rec \in Record, NEW o, SaveRecord(w, rec, o),
           UNCHANGED <<backend, connected>>
    PROVE  IF connected /\ o # "refused"
           THEN /\ Becomes(w, Shown(rec))
                /\ \A v \in WorkerIds : v # w => db'[v] = db[v]
           ELSE db' = db
<1>1. CASE connected /\ o # "refused"
  <2> DEFINE doc == [registered |-> TRUE, enabled |-> rec.enabled, url |-> rec.url]
  <2>1. db' = [db EXCEPT ![w] = doc] /\ db \in [WorkerIds -> Document \cup {NoDocument}]
    BY <1>1 DEF SaveRecord, Write, RegistryInv, TypeOK
  <2>2. db'[w] = doc /\ \A v \in WorkerIds : v # w => db'[v] = db[v]
    BY <2>1
  <2>3. rec = [url |-> rec.url, enabled |-> rec.enabled]
    BY DEF Record
  <2>4. Entry(w)' = Shown(rec)
    BY <2>2, <2>3 DEF Entry, Shown
  <2>5. \A v \in WorkerIds : v # w => Entry(v)' = Entry(v)
    BY <2>2 DEF Entry, Shown
  <2> QED
    BY <1>1, <2>2, <2>4, <2>5 DEF Becomes
<1>2. CASE ~(connected /\ o # "refused")
  BY <1>2 DEF SaveRecord, Write
<1> QED
  BY <1>1, <1>2

LEMMA DeleteRecordEffect ==
    ASSUME RegistryInv, NEW w \in WorkerIds, NEW o, DeleteRecord(w, o),
           UNCHANGED <<backend, connected>>
    PROVE  IF connected /\ o # "refused" THEN Becomes(w, Deleted) ELSE db' = db
<1>1. db \in [WorkerIds -> Document \cup {NoDocument}] /\ ~NoDocument.registered
  BY DEF RegistryInv, TypeOK, NoDocument
<1>2. CASE db[w] = NoDocument
  <2>1. db' = db /\ ~db[w].registered
    BY <1>1, <1>2 DEF DeleteRecord
  <2> QED
    BY <2>1 DEF Becomes, Entry, Shown
<1>3. CASE db[w] # NoDocument /\ connected /\ o # "refused"
  <2>1. db[w] \in Document
    BY <1>1, <1>3
  <2>2. ~[db[w] EXCEPT !.registered = FALSE, !.enabled = FALSE].registered
    BY <2>1 DEF Document
  <2>3. PICK doc : db' = [db EXCEPT ![w] = doc] /\ ~doc.registered
    BY <1>1, <1>3, <2>2 DEF DeleteRecord, Write
  <2>4. ~db'[w].registered /\ \A v \in WorkerIds : v # w => db'[v] = db[v]
    BY <1>1, <2>3
  <2> QED
    BY <1>3, <2>4 DEF Becomes, Entry, Shown
<1>4. CASE db[w] # NoDocument /\ ~(connected /\ o # "refused")
  BY <1>4 DEF DeleteRecord, Write
<1> QED
  BY <1>2, <1>3, <1>4

\* A request takes the lock.
LEMMA AcquireRefines ==
    ASSUME SerialInv, NEW a \in Admins, NEW req \in Request, Acquire(a, req)
    PROVE  /\ Registered!Begin(req.id, IF req.kind = "upsert" THEN Shown(req.rec) ELSE Deleted)
           /\ HolderIsBusy'
<1>1. req.id \in WorkerIds /\ req # NoRequest
  BY RequestKinds, Marks DEF Request
<1>2. lock = Free /\ lock' = a /\ op' = [op EXCEPT ![a] = req]
      /\ acked' = [acked EXCEPT ![req.id] = Unknown] /\ UNCHANGED <<backend, db>>
  BY DEF Acquire
<1>3. op'[a] = req
  BY <1>2 DEF SerialInv, RegistryInv, TypeOK
<1>4. InHand = NoRequest
  BY <1>2 DEF InHand
<1>5. InHand' = [id |-> req.id,
                 entry |-> IF req.kind = "upsert" THEN Shown(req.rec) ELSE Deleted]
  BY <1>2, <1>3 DEF InHand, Shown
<1>6. [w \in WorkerIds |-> Entry(w)]' = [w \in WorkerIds |-> Entry(w)]
  BY <1>2 DEF Entry, Shown
<1>7. \A v \in WorkerIds : AnsweredEntry(v)' = IF v = req.id THEN Unknown ELSE AnsweredEntry(v)
  <2>1. \A v \in WorkerIds : acked'[v] = IF v = req.id THEN Unknown ELSE acked[v]
    BY <1>1, <1>2 DEF SerialInv, RegistryInv, TypeOK
  <2> QED
    BY <1>2, <2>1, Marks DEF AnsweredEntry, Shown
<1>8. [w \in WorkerIds |-> AnsweredEntry(w)]'
          = [[w \in WorkerIds |-> AnsweredEntry(w)] EXCEPT ![req.id] = Unknown]
  BY <1>7
<1>9. HolderIsBusy'
  BY <1>1, <1>2, <1>3 DEF HolderIsBusy
<1> QED
  BY <1>4, <1>5, <1>6, <1>8, <1>9 DEF Registered!Begin

\* Its database call ends.
LEMMA AnswerRefines ==
    ASSUME SerialInv, NEW a \in Admins, NEW o \in {"ok", "lost", "refused"},
           NEW done \in Record \cup {Deleted},
           op[a].kind \in {"upsert", "delete"}, Answer(a, o, done),
           NEW entry, InHand.entry = entry,
           entry = IF done \in Record THEN Shown(done) ELSE Deleted,
           IF connected /\ o # "refused" THEN Becomes(op[a].id, entry) ELSE db' = db
    PROVE  (Registered!Succeed \/ Registered!Fail) /\ HolderIsBusy'
<1> DEFINE w == op[a].id
<1>1. /\ lock = a /\ w \in WorkerIds /\ InHand.id = w /\ InHand # NoRequest
  BY FlightInHand
<1>2. lock' = Free /\ UNCHANGED <<backend, connected>>
      /\ acked' = IF o = "ok" /\ connected THEN [acked EXCEPT ![w] = done] ELSE acked
  BY DEF Answer
<1> HIDE DEF w
<1>3. InHand' = NoRequest /\ HolderIsBusy'
  BY <1>2 DEF InHand, HolderIsBusy
<1>4. CASE connected /\ o # "refused"
  <2>1. [v \in WorkerIds |-> Entry(v)]'
            = [[v \in WorkerIds |-> Entry(v)] EXCEPT ![InHand.id] = InHand.entry]
    BY <1>1, <1>4, BecomesStored DEF w
  <2>2. CASE o = "ok"
    <3>1. \A v \in WorkerIds : acked'[v] = IF v = w THEN done ELSE acked[v]
      BY <1>1, <1>2, <1>4, <2>2 DEF SerialInv, RegistryInv, TypeOK
    <3>2. \A v \in WorkerIds : AnsweredEntry(v)' = IF v = w THEN entry ELSE AnsweredEntry(v)
      BY <1>2, <3>1 DEF AnsweredEntry, Shown
    <3>3. [v \in WorkerIds |-> AnsweredEntry(v)]'
              = [[v \in WorkerIds |-> AnsweredEntry(v)] EXCEPT ![InHand.id] = InHand.entry]
      BY <1>1, <3>2
    <3>4. Registered!Succeed
      BY <1>1, <1>3, <2>1, <3>3 DEF Registered!Succeed, Registered!TakesEffect
    <3> QED
      BY <1>3, <3>4
  <2>3. CASE o # "ok"
    <3>1. [v \in WorkerIds |-> AnsweredEntry(v)]' = [v \in WorkerIds |-> AnsweredEntry(v)]
      BY <1>2, <2>3 DEF AnsweredEntry, Shown
    <3>2. Registered!Fail
      BY <1>1, <1>3, <2>1, <3>1 DEF Registered!Fail, Registered!TakesEffect
    <3> QED
      BY <1>3, <3>2
  <2> QED
    BY <2>2, <2>3
<1>5. CASE ~(connected /\ o # "refused")
  <2>1. db' = db /\ acked' = acked
    BY <1>2, <1>5
  <2>2. [v \in WorkerIds |-> Entry(v)]' = [v \in WorkerIds |-> Entry(v)]
    BY <1>2, <2>1 DEF Entry, Shown
  <2>3. [v \in WorkerIds |-> AnsweredEntry(v)]' = [v \in WorkerIds |-> AnsweredEntry(v)]
    BY <1>2, <2>1 DEF AnsweredEntry, Shown
  <2>4. Registered!Fail
    BY <1>1, <1>3, <2>2, <2>3 DEF Registered!Fail
  <2> QED
    BY <1>3, <2>4
<1> QED
  BY <1>4, <1>5

LEMMA UpsertStoredRefines ==
    ASSUME SerialInv, NEW a \in Admins, NEW o \in StoreOutcome, UpsertStored(a, o)
    PROVE  (Registered!Succeed \/ Registered!Fail) /\ HolderIsBusy'
<1> DEFINE w == op[a].id
           rec == op[a].rec
<1>1. op[a].kind = "upsert" /\ SaveRecord(w, rec, o) /\ Answer(a, o, rec)
  BY DEF UpsertStored
<1>2. w \in WorkerIds /\ rec \in Record /\ InHand.entry = Shown(rec)
  BY <1>1, FlightInHand
<1>3. UNCHANGED <<backend, connected>> /\ o \in {"ok", "lost", "refused"}
  BY <1>1 DEF Answer, StoreOutcome
<1>4. IF connected /\ o # "refused" THEN Becomes(w, Shown(rec)) ELSE db' = db
  BY <1>1, <1>2, <1>3, SaveRecordEffect DEF SerialInv
<1> QED
  BY <1>1, <1>2, <1>3, <1>4, AnswerRefines

LEMMA DeleteStoredRefines ==
    ASSUME SerialInv, NEW a \in Admins, NEW o \in StoreOutcome, DeleteStored(a, o)
    PROVE  (Registered!Succeed \/ Registered!Fail) /\ HolderIsBusy'
<1> DEFINE w == op[a].id
<1>1. op[a].kind = "delete" /\ DeleteRecord(w, o) /\ Answer(a, o, Deleted)
  BY DEF DeleteStored
<1>2. w \in WorkerIds /\ InHand.entry = Deleted
  BY <1>1, FlightInHand
<1>3. UNCHANGED <<backend, connected>> /\ o \in {"ok", "lost", "refused"}
  BY <1>1 DEF Answer, StoreOutcome
<1>4. IF connected /\ o # "refused" THEN Becomes(w, Deleted) ELSE db' = db
  BY <1>1, <1>2, <1>3, DeleteRecordEffect DEF SerialInv
<1>5. Deleted \notin Record
  BY Marks
<1> QED
  BY <1>1, <1>2, <1>3, <1>4, <1>5, AnswerRefines

\* A process that ends takes the request in hand with it.
LEMMA CrashRefines ==
    ASSUME SerialInv, Crash
    PROVE  Registered!Fail \/ UNCHANGED Registered!registrationVars
<1>1. UNCHANGED <<backend, db, acked>> /\ lock' = Free
  BY DEF Crash
<1>2. [v \in WorkerIds |-> Entry(v)]' = [v \in WorkerIds |-> Entry(v)]
  BY <1>1 DEF Entry, Shown
<1>3. [v \in WorkerIds |-> AnsweredEntry(v)]' = [v \in WorkerIds |-> AnsweredEntry(v)]
  BY <1>1 DEF AnsweredEntry, Shown
<1>4. InHand' = NoRequest
  BY <1>1 DEF InHand
<1> QED
  BY <1>2, <1>3, <1>4 DEF Registered!Fail, Registered!registrationVars

\* A start adds a seed only where nothing is registered.
LEMMA LoadSeedRefines ==
    ASSUME SerialInv, NEW w \in Seeds, NEW o \in StoreOutcome, LoadSeed(w, o)
    PROVE  /\ \/ \E entry \in Entries : Registered!AddSeed(w, entry)
              \/ UNCHANGED Registered!registrationVars
           /\ SeedsAreMissing'
<1>1. /\ phase = "seeds" /\ w \notin DOMAIN mem /\ SaveRecord(w, SeedRecord[w], o)
      /\ DOMAIN mem' = DOMAIN mem \cup {w}
      /\ UNCHANGED <<backend, connected, lock, op, acked>>
  BY DEF LoadSeed
<1>2. w \in WorkerIds /\ SeedRecord[w] \in Record
  BY SeedType
<1>3. IF connected /\ o # "refused"
      THEN /\ Becomes(w, Shown(SeedRecord[w]))
           /\ \A v \in WorkerIds : v # w => db'[v] = db[v]
      ELSE db' = db
  BY <1>1, <1>2, SaveRecordEffect DEF SerialInv
<1>4. SeedsAreMissing'
  BY <1>1, <1>3 DEF SeedsAreMissing, SerialInv
<1>5. CASE connected /\ o # "refused"
  <2>1. InHand = NoRequest /\ InHand' = NoRequest
    BY <1>1, QuietIsFree DEF InHand
  <2>2. Entry(w) = Deleted
    BY <1>1, <1>2, <1>5 DEF Entry, SerialInv, SeedsAreMissing
  <2>3. [v \in WorkerIds |-> Entry(v)]'
            = [[v \in WorkerIds |-> Entry(v)] EXCEPT ![w] = Shown(SeedRecord[w])]
    BY <1>2, <1>3, <1>5, BecomesStored
  <2>4. [v \in WorkerIds |-> AnsweredEntry(v)]' = [v \in WorkerIds |-> AnsweredEntry(v)]
    BY <1>1 DEF AnsweredEntry, Shown
  <2>5. Shown(SeedRecord[w]) \in Entries
    BY <1>2, ShownType DEF SerialInv
  <2>6. Registered!AddSeed(w, Shown(SeedRecord[w]))
    BY <1>2, <2>1, <2>2, <2>3, <2>4 DEF Registered!AddSeed
  <2> QED
    BY <1>4, <2>5, <2>6
<1>6. CASE ~(connected /\ o # "refused")
  BY <1>1, <1>3, <1>4, <1>6, QuietIsInvisible
<1> QED
  BY <1>5, <1>6

-----------------------------------------------------------------------------
\* Every step is one of Registrations or none, and keeps what that rests on.
LEMMA StepRefines ==
    ASSUME SerialInv, [Next]_registryVars
    PROVE  /\ Registered!Next \/ UNCHANGED Registered!registrationVars
           /\ HolderIsBusy' /\ SeedsAreMissing'
<1>1. ASSUME UNCHANGED <<backend, lock, op, acked, db>>
      PROVE  UNCHANGED Registered!registrationVars /\ HolderIsBusy'
  BY <1>1, QuietIsInvisible DEF SerialInv, HolderIsBusy
<1>2. CASE Start \/ ListFails \/ Loaded
  <2>1. UNCHANGED <<backend, lock, op, acked, db>> /\ phase' # "seeds"
    BY <1>2 DEF Start, ListFails, Loaded
  <2> QED
    BY <1>1, <2>1 DEF SeedsAreMissing
<1>3. CASE LoadList
  <2>1. UNCHANGED <<backend, connected, lock, op, acked, db>>
    BY <1>3 DEF LoadList
  <2>2. \A w \in WorkerIds : connected /\ db[w].registered => w \in DOMAIN mem'
    BY <1>3 DEF LoadList
  <2>3. SeedsAreMissing'
    BY <2>1, <2>2 DEF SeedsAreMissing
  <2> QED
    BY <1>1, <2>1, <2>3
<1>4. ASSUME NEW w \in Seeds, NEW o \in StoreOutcome, LoadSeed(w, o)
      PROVE  /\ Registered!Next \/ UNCHANGED Registered!registrationVars
             /\ HolderIsBusy' /\ SeedsAreMissing'
  <2>1. HolderIsBusy'
    BY <1>4 DEF LoadSeed, SerialInv, HolderIsBusy
  <2> QED
    BY <1>4, <2>1, LoadSeedRefines DEF Registered!Next, Entries
<1>5. CASE Crash
  <2>1. HolderIsBusy' /\ SeedsAreMissing'
    BY <1>5 DEF Crash, HolderIsBusy, SeedsAreMissing
  <2> QED
    BY <1>5, <2>1, CrashRefines DEF Registered!Next
<1>6. CASE Measure
  <2>1. UNCHANGED <<backend, connected, phase, mem, lock, op, acked, db>>
    BY <1>6 DEF Measure
  <2>2. SeedsAreMissing'
    BY <2>1 DEF SerialInv, SeedsAreMissing
  <2> QED
    BY <1>1, <2>1, <2>2
<1>7. ASSUME NEW s \in statuses, NEW o \in StoreOutcome, StatusSaved(s, o)
      PROVE  /\ UNCHANGED Registered!registrationVars
             /\ HolderIsBusy' /\ SeedsAreMissing'
  <2>1. UNCHANGED <<backend, connected, phase, mem, lock, op, acked>>
    BY <1>7 DEF StatusSaved
  <2>2. /\ UNCHANGED Registered!registrationVars
        /\ \A v \in WorkerIds : db'[v].registered <=> db[v].registered
    BY <1>7, StatusIsInvisible DEF SerialInv
  <2>3. HolderIsBusy' /\ SeedsAreMissing'
    BY <2>1, <2>2 DEF SerialInv, HolderIsBusy, SeedsAreMissing
  <2> QED
    BY <2>2, <2>3
<1>8. ASSUME NEW a \in Admins, NEW w \in WorkerIds, Delete(a, w)
      PROVE  Registered!Next /\ HolderIsBusy' /\ SeedsAreMissing'
  <2> DEFINE req == [kind |-> "delete", id |-> w]
  <2>1. req \in Request /\ req.id = w /\ req.kind = "delete"
    BY DEF Request
  <2>2. Acquire(a, req)
    BY <1>8 DEF Delete
  <2> HIDE DEF req
  <2>3. Registered!Begin(w, Deleted) /\ HolderIsBusy'
    BY <2>1, <2>2, AcquireRefines
  <2>4. SeedsAreMissing'
    BY <2>2 DEF Acquire, SeedsAreMissing
  <2> QED
    BY <2>3, <2>4 DEF Registered!Next
<1>9. ASSUME NEW a \in Admins, NEW w \in WorkerIds, NEW rec \in Record, Upsert(a, w, rec)
      PROVE  Registered!Next /\ HolderIsBusy' /\ SeedsAreMissing'
  <2> DEFINE req == [kind |-> "upsert", id |-> w, rec |-> rec]
  <2>1. req \in Request /\ req.id = w /\ req.kind = "upsert" /\ req.rec = rec
    BY DEF Request
  <2>2. Acquire(a, req)
    BY <1>9 DEF Upsert
  <2> HIDE DEF req
  <2>3. Registered!Begin(w, Shown(rec)) /\ HolderIsBusy'
    BY <2>1, <2>2, AcquireRefines
  <2>4. Shown(rec) \in Entries
    BY ShownType DEF SerialInv
  <2>5. SeedsAreMissing'
    BY <2>2 DEF Acquire, SeedsAreMissing
  <2> QED
    BY <2>3, <2>4, <2>5 DEF Registered!Next, Entries
<1>10. ASSUME NEW a \in Admins, NEW o \in StoreOutcome,
              UpsertStored(a, o) \/ DeleteStored(a, o)
       PROVE  Registered!Next /\ HolderIsBusy' /\ SeedsAreMissing'
  <2>1. (Registered!Succeed \/ Registered!Fail) /\ HolderIsBusy'
    BY <1>10, UpsertStoredRefines, DeleteStoredRefines
  <2>2. phase = "run" /\ phase' = phase
    <3>1. op[a] # NoRequest
      BY <1>10 DEF UpsertStored, DeleteStored, NoRequest
    <3> QED
      BY <1>10, <3>1 DEF UpsertStored, DeleteStored, Answer, SerialInv, RegistryInv, Exclusive
  <2>3. SeedsAreMissing'
    BY <2>2 DEF SeedsAreMissing
  <2> QED
    BY <2>1, <2>3 DEF Registered!Next
<1>11. CASE UNCHANGED registryVars
  <2>1. UNCHANGED <<backend, connected, phase, mem, lock, op, acked, db>>
    BY <1>11 DEF registryVars
  <2>2. SeedsAreMissing'
    BY <2>1 DEF SerialInv, SeedsAreMissing
  <2> QED
    BY <1>1, <2>1, <2>2
<1> QED
  BY <1>2, <1>3, <1>4, <1>5, <1>6, <1>7, <1>8, <1>9, <1>10, <1>11
     DEF Next, LoadStep, HealthStep, AdminStep

\* The stored registrations change by one request at a time, each as a whole, and
\* otherwise only by a start that adds a missing seed, however requests, health
\* checks, failing calls and crashes interleave: WorkerRegistry implements
\* Registrations.
THEOREM RegistrationsAreSerial == Spec => ChangesAreSerial
<1>1. Init => SerialInv /\ Registered!Init
  <2> SUFFICES ASSUME Init PROVE SerialInv /\ Registered!Init
    OBVIOUS
  <2>1. HolderIsBusy /\ SeedsAreMissing
    BY DEF Init, HolderIsBusy, SeedsAreMissing
  <2>2. \A w \in WorkerIds : Entry(w) = Deleted /\ AnsweredEntry(w) = Unknown
    BY Marks DEF Init, Entry, AnsweredEntry, NoDocument
  <2>3. InHand = NoRequest
    BY DEF Init, InHand
  <2> QED
    BY <2>1, <2>2, <2>3, InitHolds DEF SerialInv, Registered!Init
<1>2. SerialInv /\ [Next]_registryVars => SerialInv'
  BY NextKeeps, StepRefines DEF SerialInv
<1>3. SerialInv /\ [Next]_registryVars
          => [Registered!Next]_(Registered!registrationVars)
  BY StepRefines
<1> QED
  BY <1>1, <1>2, <1>3, PTL DEF Spec, ChangesAreSerial, Registered!Spec

=============================================================================
