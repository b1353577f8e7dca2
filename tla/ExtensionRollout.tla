--------------------------- MODULE ExtensionRollout ---------------------------
(***************************************************************************)
(* The roll-out of the browser extension (orchestrator/api/main.py):       *)
(* upload_extension stores a package in the object storage, makes it the   *)
(* current one in Redis and installs it on every enabled worker;           *)
(* apply_current_extension installs the current one.  Requests interleave  *)
(* at every await, installs of one request run side by side, and an        *)
(* install whose caller has given up may still arrive.                     *)
(*                                                                         *)
(* A package is named by the number of its upload: the version of the code *)
(* starts with the time of the upload.                                     *)
(***************************************************************************)
EXTENDS Naturals

CONSTANTS
    Workers,
    Requests,       \* HTTP requests, each an upload or an apply-current
    All,            \* the worker_id of a request that is meant for all workers
    RolloutEvents   \* which faults may happen: "storage", "redis", "worker", "crash"

ASSUME RolloutAssumption ==
    /\ All \notin Workers
    /\ RolloutEvents \subseteq {"storage", "redis", "worker", "crash"}

NoPackage == 0

VARIABLES
    registry,    \* what the registry says of each worker
    stored,      \* packages in the object storage
    current,     \* the key extension:current
    uploads,     \* number of uploads begun
    req,         \* where each request stands
    sent,        \* installs that have not arrived at their worker
    taken,       \* installs a worker has carried out and may report
    installed,   \* the package each worker has
    published,   \* history: packages that have been the current one
    alone        \* history: requests with no other request, registry change or
                 \* install of another request at any time since they began

rolloutVars ==
    <<registry, stored, current, uploads, req, sent, taken, installed, published, alone>>

\* How a call ends: it returns, it raises although it was carried out, or it
\* raises and was not.
Outcome(service) == IF service \in RolloutEvents THEN {"ok", "lost", "refused"} ELSE {"ok"}

Idle == [at |-> "idle"]

\* Answered with an error, or not at all.
Failed == [at |-> "failed"]

Ended(r) == req[r].at \in {"idle", "done", "failed"}

Listed == {w \in Workers : registry[w] # "absent"}

Enabled == {w \in Workers : registry[w] = "enabled"}

Install(r, w, p) == [req |-> r, w |-> w, version |-> p]

\* A request begins.  Nobody is alone any more but itself, if nothing runs and
\* nothing is on its way.
Begin(r, next) ==
    /\ req[r] = Idle
    /\ req' = [req EXCEPT ![r] = next]
    /\ alone' = IF sent = {} /\ \A x \in Requests : Ended(x) THEN {r} ELSE {}

\* install_extension_on_worker is started for every target.
Installing(r, p, targets) ==
    /\ req' = [req EXCEPT ![r] =
                  [at |-> "install", version |-> p, targets |-> targets, ok |-> {},
                   failed |-> {}]]
    /\ sent' = sent \cup {Install(r, w, p) : w \in targets}

-----------------------------------------------------------------------------
(* upload_extension.                                                       *)

\* The package is valid and gets its version; an invalid one is refused.
Upload(r, apply) ==
    /\ Begin(r, [at |-> "store", version |-> uploads + 1, apply |-> apply])
    /\ uploads' = uploads + 1
    /\ UNCHANGED <<registry, stored, current, sent, taken, installed, published>>

\* Mutation of Stored: the error of the storage is swallowed.
StoredOrNot(r, o) ==
    /\ req[r].at = "store"
    /\ stored' = IF o = "refused" THEN stored ELSE stored \cup {req[r].version}
    /\ req' = [req EXCEPT ![r].at = "publish"]
    /\ UNCHANGED <<registry, current, uploads, sent, taken, installed, published, alone>>

\* store_bytes.
Stored(r, o) ==
    /\ req[r].at = "store"
    /\ stored' = IF o = "refused" THEN stored ELSE stored \cup {req[r].version}
    /\ req' = IF o = "ok" THEN [req EXCEPT ![r].at = "publish"] ELSE [req EXCEPT ![r] = Failed]
    /\ UNCHANGED <<registry, current, uploads, sent, taken, installed, published, alone>>

\* Mutation of SetCurrent: the first package stays.
SetCurrentOnce(p, o) ==
    /\ current' = IF o = "refused" \/ current # NoPackage THEN current ELSE p
    /\ published' = IF o = "refused" THEN published ELSE published \cup {p}

\* Redis executes SET, or does not.
SetCurrent(p, o) ==
    /\ current' = IF o = "refused" THEN current ELSE p
    /\ published' = IF o = "refused" THEN published ELSE published \cup {p}

\* Mutation of Publish: an error of Redis does not stop the roll-out.
PublishOrNot(r, o) ==
    /\ req[r].at = "publish"
    /\ SetCurrent(req[r].version, o)
    /\ Installing(r, req[r].version, Enabled)
    /\ UNCHANGED <<registry, stored, uploads, taken, installed, alone>>

\* SET extension:current, and the roll-out if one is wanted.
Publish(r, o) ==
    /\ req[r].at = "publish"
    /\ SetCurrent(req[r].version, o)
    /\ \/ /\ o # "ok"
          /\ req' = [req EXCEPT ![r] = Failed]
          /\ UNCHANGED sent
       \/ /\ o = "ok"
          /\ Installing(r, req[r].version, IF req[r].apply THEN Enabled ELSE {})
    /\ UNCHANGED <<registry, stored, uploads, taken, installed, alone>>

-----------------------------------------------------------------------------
(* apply_current_extension.                                                *)

ApplyCurrent(r, w) ==
    /\ Begin(r, [at |-> "read", only |-> w])
    /\ UNCHANGED <<registry, stored, current, uploads, sent, taken, installed, published>>

\* A worker that is named gets the package even if it is disabled.
Targets(w) == IF w = All THEN Enabled ELSE {w}

\* Mutation of ReadCurrent: the missing package is not noticed.
ReadCurrentAny(r, o) ==
    /\ req[r].at = "read"
    /\ o = "ok"
    /\ Installing(r, current, Targets(req[r].only))
    /\ UNCHANGED <<registry, stored, current, uploads, taken, installed, published, alone>>

\* GET extension:current; without a package or without the worker the answer is 404.
ReadCurrent(r, o) ==
    /\ req[r].at = "read"
    /\ \/ /\ o = "ok"
          /\ current # NoPackage
          /\ req[r].only \in Listed \cup {All}
          /\ Installing(r, current, Targets(req[r].only))
       \/ /\ \/ o # "ok"
             \/ current = NoPackage
             \/ req[r].only \notin Listed \cup {All}
          /\ req' = [req EXCEPT ![r] = Failed]
          /\ UNCHANGED sent
    /\ UNCHANGED <<registry, stored, current, uploads, taken, installed, published, alone>>

-----------------------------------------------------------------------------
(* The installs, and the answer.                                           *)

\* A worker carries out an install, whether its caller still waits or not.
Arrives(m) ==
    /\ sent' = sent \ {m}
    /\ taken' = taken \cup {m}
    /\ installed' = [installed EXCEPT ![m.w] = m.version]
    /\ alone' = alone \cap {m.req}
    /\ UNCHANGED <<registry, stored, current, uploads, req, published>>

\* The worker's answer is 2xx.
InstallOk(r, w) ==
    /\ req[r].at = "install"
    /\ w \in req[r].targets
    /\ Install(r, w, req[r].version) \in taken
    /\ req' = [req EXCEPT ![r].targets = @ \ {w}, ![r].ok = @ \cup {w}]
    /\ UNCHANGED <<registry, stored, current, uploads, sent, taken, installed, published, alone>>

\* Mutation of InstallFailed: the exception is caught and forgotten.
InstallFailedQuietly(r, w) ==
    /\ "worker" \in RolloutEvents
    /\ req[r].at = "install"
    /\ w \in req[r].targets
    /\ req' = [req EXCEPT ![r].targets = @ \ {w}, ![r].ok = @ \cup {w}]
    /\ UNCHANGED <<registry, stored, current, uploads, sent, taken, installed, published, alone>>

\* The worker refuses, or there is no answer in 90 seconds.
InstallFailed(r, w) ==
    /\ "worker" \in RolloutEvents
    /\ req[r].at = "install"
    /\ w \in req[r].targets
    /\ req' = [req EXCEPT ![r].targets = @ \ {w}, ![r].failed = @ \cup {w}]
    /\ UNCHANGED <<registry, stored, current, uploads, sent, taken, installed, published, alone>>

\* Every install has ended.
Answer(r) ==
    /\ req[r].at = "install"
    /\ req[r].targets = {}
    /\ req' = [req EXCEPT ![r].at = "done"]
    /\ UNCHANGED <<registry, stored, current, uploads, sent, taken, installed, published, alone>>

-----------------------------------------------------------------------------
\* POST and DELETE /workers.
RegistryChanges(w, s) ==
    /\ s # registry[w]
    /\ registry' = [registry EXCEPT ![w] = s]
    /\ alone' = {}
    /\ UNCHANGED <<stored, current, uploads, req, sent, taken, installed, published>>

\* The process ends; what it has sent may arrive all the same.
Crash ==
    /\ "crash" \in RolloutEvents
    /\ \E r \in Requests : ~Ended(r)
    /\ req' = [r \in Requests |-> IF Ended(r) THEN req[r] ELSE Failed]
    /\ UNCHANGED <<registry, stored, current, uploads, sent, taken, installed, published, alone>>

Init ==
    /\ registry \in [Workers -> {"enabled", "disabled", "absent"}]
    /\ stored = {}
    /\ current = NoPackage
    /\ uploads = 0
    /\ req = [r \in Requests |-> Idle]
    /\ sent = {}
    /\ taken = {}
    /\ installed = [w \in Workers |-> NoPackage]
    /\ published = {}
    /\ alone = {}

RequestStep(r) ==
    \/ \E apply \in BOOLEAN : Upload(r, apply)
    \/ \E o \in Outcome("storage") : Stored(r, o)
    \/ \E o \in Outcome("redis") : Publish(r, o) \/ ReadCurrent(r, o)
    \/ \E w \in Workers \cup {All} : ApplyCurrent(r, w)
    \/ \E w \in Workers : InstallOk(r, w) \/ InstallFailed(r, w)
    \/ Answer(r)

Next ==
    \/ \E r \in Requests : RequestStep(r)
    \/ \E m \in sent : Arrives(m)
    \/ \E w \in Workers, s \in {"enabled", "disabled", "absent"} : RegistryChanges(w, s)
    \/ Crash

Spec == Init /\ [][Next]_rolloutVars

-----------------------------------------------------------------------------
(* Properties.                                                             *)

Request ==
    {Idle, Failed}
    \cup [at : {"store", "publish"}, version : Nat, apply : BOOLEAN]
    \cup [at : {"read"}, only : Workers \cup {All}]
    \cup [at : {"install", "done"}, version : Nat, targets : SUBSET Workers,
          ok : SUBSET Workers, failed : SUBSET Workers]

\* The variables keep their types, and no request installs the absent package.
TypeOK ==
    /\ registry \in [Workers -> {"enabled", "disabled", "absent"}]
    /\ stored \subseteq 1 .. uploads
    /\ current \in 0 .. uploads
    /\ uploads \in Nat
    /\ req \in [Requests -> Request]
    /\ sent \cup taken \subseteq [req : Requests, w : Workers, version : 1 .. uploads]
    /\ installed \in [Workers -> 0 .. uploads]
    /\ published \subseteq 1 .. uploads
    /\ alone \subseteq Requests

\* The package that apply-current will offer to workers is in the object
\* storage, whichever calls of the upload failed, were lost or were cut short.
CurrentIsStored == current # NoPackage => current \in stored

\* No worker gets a package, not even late, that was never the current one: an
\* upload that failed half-way has no effect on workers.
OnlyPublished ==
    /\ \A m \in sent : m.version \in published
    /\ \A w \in Workers : installed[w] # NoPackage => installed[w] \in published

\* A worker that the answer of a request reports as updated has carried out an
\* install of the request's package, and one it was meant for is reported.
ReportIsTrue ==
    \A r \in Requests : req[r].at = "done" =>
        /\ \A w \in req[r].ok : Install(r, w, req[r].version) \in taken
        /\ {m.w : m \in {x \in sent \cup taken : x.req = r}} \subseteq req[r].ok \cup req[r].failed

\* A request that nothing else interfered with leaves its package the current
\* one and on every worker it reports as updated, from its answer until the
\* next request or change of the registry.
AloneTakesEffect ==
    \A r \in alone : req[r].at = "done" =>
        /\ current = req[r].version
        /\ \A w \in req[r].ok : installed[w] = req[r].version

=============================================================================
