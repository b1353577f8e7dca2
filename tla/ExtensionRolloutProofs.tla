------------------------ MODULE ExtensionRolloutProofs ------------------------
(***************************************************************************)
(* Theorems about ExtensionRollout, for every set of workers and requests  *)
(* and every set of faults.                                                *)
(***************************************************************************)
EXTENDS ExtensionRollout, TLAPS

\* A request that has started its installs and is not cut short.
Carrying(r) == req[r].at \in {"install", "done"}

\* How far the package of a request has come.
VersionsOK ==
    \A r \in Requests :
        /\ req[r].at \in {"store", "publish", "install", "done"} => req[r].version \in 1 .. uploads
        /\ req[r].at = "publish" => req[r].version \in stored
        /\ Carrying(r) => req[r].version \in published

CurrentPublished == current # NoPackage => current \in published

\* An install is of the package and for a target of its request.
InstallsOK ==
    \A m \in sent \cup taken :
        /\ req[m.req].at \in {"install", "done", "failed"}
        /\ Carrying(m.req) =>
              /\ m.version = req[m.req].version
              /\ m.w \in req[m.req].targets \cup req[m.req].ok \cup req[m.req].failed

\* What a request counts as done was carried out.
ReportsOK ==
    \A r \in Requests : Carrying(r) =>
        /\ \A w \in req[r].ok : Install(r, w, req[r].version) \in taken
        /\ req[r].at = "done" => req[r].targets = {}

\* A request that is alone: what it installed is what the workers have.
AloneOK ==
    \A r \in alone :
        /\ \A x \in Requests \ {r} : Ended(x)
        /\ \A m \in sent : m.req = r
        /\ Carrying(r) =>
              /\ current = req[r].version
              /\ \A m \in taken : m.req = r => installed[m.w] = m.version

RolloutInv ==
    /\ TypeOK /\ VersionsOK /\ CurrentIsStored /\ CurrentPublished /\ OnlyPublished
    /\ InstallsOK /\ ReportsOK /\ AloneOK

USE RolloutAssumption

-----------------------------------------------------------------------------
(* What a request is, by where it stands.                                  *)

LEMMA Shapes ==
    ASSUME NEW q \in Request
    PROVE  /\ q.at \in {"idle", "failed", "store", "publish", "read", "install", "done"}
           /\ q.at \in {"store", "publish"} =>
                 q \in [at : {"store", "publish"}, version : Nat, apply : BOOLEAN]
           /\ q.at = "read" => q \in [at : {"read"}, only : Workers \cup {All}]
           /\ q.at \in {"install", "done"} =>
                 q \in [at : {"install", "done"}, version : Nat, targets : SUBSET Workers,
                        ok : SUBSET Workers, failed : SUBSET Workers]
  BY DEF Request, Idle, Failed

\* What an install is.
LEMMA MessageType ==
    ASSUME TypeOK, NEW m \in sent \cup taken
    PROVE  m.req \in Requests /\ m.w \in Workers /\ m.version \in 1 .. uploads
  BY DEF TypeOK

-----------------------------------------------------------------------------
(* The steps up to the installs.                                           *)

\* A request begins.
LEMMA BeginKeeps ==
    ASSUME RolloutInv, NEW r \in Requests, NEW next \in Request, Begin(r, next),
           next.at \in {"store", "read"},
           next.at = "store" => next.version = uploads + 1 /\ uploads' = uploads + 1,
           next.at = "read" => uploads' = uploads,
           UNCHANGED <<registry, stored, current, sent, taken, installed, published>>
    PROVE  RolloutInv'
  <1> USE DEF RolloutInv
  <1>1. uploads \in Nat /\ uploads' \in Nat /\ uploads <= uploads'
    BY DEF TypeOK
  <1>2. req \in [Requests -> Request] /\ req' = [req EXCEPT ![r] = next] /\ req[r] = Idle
    BY DEF TypeOK, Begin
  <1>3. TypeOK'
    <2>1. req' \in [Requests -> Request]
      BY <1>2
    <2>2. alone' \subseteq Requests
      BY DEF Begin
    <2> QED
      BY <1>1, <2>1, <2>2 DEF TypeOK
  <1>4. req'[r] = next /\ \A x \in Requests \ {r} : req'[x] = req[x]
    BY <1>2
  <1>5. VersionsOK'
    BY <1>1, <1>4 DEF VersionsOK, Carrying
  <1>6. CurrentIsStored' /\ CurrentPublished' /\ OnlyPublished'
    BY DEF CurrentIsStored, CurrentPublished, OnlyPublished
  <1>7. \A m \in sent \cup taken : m.req # r
    BY <1>2 DEF InstallsOK, Idle
  <1>8. InstallsOK'
    BY <1>4, <1>7, MessageType DEF InstallsOK, Carrying
  <1>9. ReportsOK'
    BY <1>4 DEF ReportsOK, Carrying
  <1>10. AloneOK'
    <2> SUFFICES ASSUME NEW y \in alone'
                 PROVE  /\ \A x \in Requests \ {y} : Ended(x)'
                        /\ \A m \in sent : m.req = y
                        /\ ~Carrying(y)'
      BY DEF AloneOK
    <2>1. y = r /\ sent = {} /\ \A x \in Requests : Ended(x)
      BY DEF Begin
    <2> QED
      BY <1>4, <2>1 DEF Ended, Carrying
  <1> QED
    BY <1>3, <1>5, <1>6, <1>8, <1>9, <1>10

LEMMA UploadKeeps ==
    ASSUME RolloutInv, NEW r \in Requests, NEW apply \in BOOLEAN, Upload(r, apply)
    PROVE  RolloutInv'
  <1> DEFINE next == [at |-> "store", version |-> uploads + 1, apply |-> apply]
  <1>1. next \in Request
    BY DEF Request, RolloutInv, TypeOK
  <1>2. next.at = "store" /\ next.version = uploads + 1
    OBVIOUS
  <1> QED
    BY <1>1, <1>2, BeginKeeps DEF Upload

LEMMA ApplyCurrentKeeps ==
    ASSUME RolloutInv, NEW r \in Requests, NEW w \in Workers \cup {All}, ApplyCurrent(r, w)
    PROVE  RolloutInv'
  <1> DEFINE next == [at |-> "read", only |-> w]
  <1>1. next \in Request
    BY DEF Request
  <1>2. next.at = "read"
    OBVIOUS
  <1> QED
    BY <1>1, <1>2, BeginKeeps DEF ApplyCurrent

\* A request fails before its installs.
LEMMA FailKeeps ==
    ASSUME RolloutInv, NEW r \in Requests, req[r].at \in {"store", "publish", "read"},
           req' = [req EXCEPT ![r] = Failed],
           UNCHANGED <<registry, uploads, sent, taken, installed, alone>>,
           stored \subseteq stored', stored' \subseteq 1 .. uploads,
           published \subseteq published', published' \subseteq 1 .. uploads,
           current' \in 0 .. uploads, current' # NoPackage => current' \in stored',
           current' # NoPackage => current' \in published'
    PROVE  RolloutInv'
  <1> USE DEF RolloutInv
  <1>1. req \in [Requests -> Request] /\ Failed \in Request
    BY DEF TypeOK, Request
  <1>2. TypeOK'
    BY <1>1 DEF TypeOK
  <1>3. req'[r] = Failed /\ \A x \in Requests \ {r} : req'[x] = req[x]
    BY <1>1
  <1>4. VersionsOK'
    BY <1>3 DEF VersionsOK, Carrying, Failed
  <1>5. CurrentIsStored' /\ CurrentPublished' /\ OnlyPublished'
    BY DEF CurrentIsStored, CurrentPublished, OnlyPublished
  <1>6. \A m \in sent \cup taken : m.req # r
    BY DEF InstallsOK
  <1>7. InstallsOK'
    BY <1>3, <1>6, MessageType DEF InstallsOK, Carrying
  <1>8. ReportsOK'
    BY <1>3 DEF ReportsOK, Carrying, Failed
  <1>9. AloneOK'
    <2> SUFFICES ASSUME NEW y \in alone
                 PROVE  /\ \A x \in Requests \ {y} : Ended(x)'
                        /\ \A m \in sent : m.req = y
                        /\ Carrying(y)' =>
                              /\ current' = req'[y].version
                              /\ \A m \in taken : m.req = y => installed[m.w] = m.version
      BY DEF AloneOK
    <2>1. ~Ended(r)
      BY DEF Ended
    <2>2. y = r
      BY <2>1 DEF AloneOK
    <2> QED
      BY <1>3, <2>2 DEF AloneOK, Ended, Carrying, Failed
  <1> QED
    BY <1>2, <1>4, <1>5, <1>7, <1>8, <1>9

LEMMA StoredKeeps ==
    ASSUME RolloutInv, NEW r \in Requests, NEW o \in Outcome("storage"), Stored(r, o)
    PROVE  RolloutInv'
  <1> USE DEF RolloutInv
  <1>1. req \in [Requests -> Request] /\ req[r].at = "store"
    BY DEF TypeOK, Stored
  <1>2. stored \subseteq stored' /\ stored' \subseteq 1 .. uploads
    BY <1>1 DEF TypeOK, Stored, VersionsOK
  <1>3. CASE o # "ok"
    BY <1>1, <1>2, <1>3, FailKeeps
       DEF Stored, TypeOK, CurrentIsStored, CurrentPublished
  <1>4. CASE o = "ok"
    <2>1. req' = [req EXCEPT ![r].at = "publish"] /\ req[r].version \in stored'
      BY <1>4 DEF Stored
    <2>2. req[r] \in [at : {"store", "publish"}, version : Nat, apply : BOOLEAN]
      BY <1>1, Shapes
    <2>3. req'[r] = [req[r] EXCEPT !.at = "publish"] /\ \A x \in Requests \ {r} : req'[x] = req[x]
      BY <1>1, <2>1
    <2>4. req'[r].at = "publish" /\ req'[r].version = req[r].version
      BY <2>2, <2>3
    <2>5. TypeOK'
      <3>1. [req[r] EXCEPT !.at = "publish"] \in Request
        BY <2>2 DEF Request
      <3> QED
        BY <1>1, <1>2, <2>1, <3>1 DEF TypeOK, Stored
    <2>6. VersionsOK'
      BY <1>1, <1>2, <2>1, <2>3, <2>4 DEF VersionsOK, Carrying, Stored
    <2>7. CurrentIsStored' /\ CurrentPublished' /\ OnlyPublished'
      BY <1>2 DEF CurrentIsStored, CurrentPublished, OnlyPublished, Stored
    <2>8. \A m \in sent \cup taken : m.req # r
      BY <1>1 DEF InstallsOK
    <2>9. InstallsOK'
      BY <2>3, <2>8, MessageType DEF InstallsOK, Carrying, Stored
    <2>10. ReportsOK'
      BY <2>3, <2>4 DEF ReportsOK, Carrying, Stored
    <2>11. AloneOK'
      <3> SUFFICES ASSUME NEW y \in alone
                   PROVE  /\ \A x \in Requests \ {y} : Ended(x)'
                          /\ \A m \in sent : m.req = y
                          /\ ~Carrying(y)'
        BY DEF AloneOK, Stored
      <3>1. y = r
        BY <1>1 DEF AloneOK, Ended
      <3> QED
        BY <2>3, <2>4, <3>1 DEF AloneOK, Ended, Carrying
    <2> QED
      BY <2>5, <2>6, <2>7, <2>9, <2>10, <2>11
  <1> QED
    BY <1>3, <1>4

\* A request starts its installs, of what is now the current package.
LEMMA InstallingKeeps ==
    ASSUME RolloutInv, NEW r \in Requests, req[r].at \in {"publish", "read"},
           NEW p \in 1 .. uploads, NEW targets \in SUBSET Workers,
           Installing(r, p, targets),
           UNCHANGED <<registry, stored, uploads, taken, installed, alone>>,
           published \subseteq published', published' \subseteq 1 .. uploads,
           current' = p, p \in stored, p \in published'
    PROVE  RolloutInv'
  <1> USE DEF RolloutInv
  <1> DEFINE next == [at |-> "install", version |-> p, targets |-> targets, ok |-> {},
                      failed |-> {}]
  <1> DEFINE new == {Install(r, w, p) : w \in targets}
  <1>1. req \in [Requests -> Request] /\ req' = [req EXCEPT ![r] = next] /\ sent' = sent \cup new
    BY DEF TypeOK, Installing
  <1>2. \A m \in new : m.req = r /\ m.version = p /\ m.w \in targets
    BY DEF Install
  <1>3. TypeOK'
    <2>1. next \in Request
      BY DEF Request, TypeOK
    <2>2. new \subseteq [req : Requests, w : Workers, version : 1 .. uploads]
      BY DEF Install
    <2> HIDE DEF next, new
    <2> QED
      BY <1>1, <2>1, <2>2 DEF TypeOK
  <1>4. /\ req'[r].at = "install" /\ req'[r].version = p /\ req'[r].targets = targets
        /\ req'[r].ok = {}
    BY <1>1
  <1>5. \A x \in Requests \ {r} : req'[x] = req[x]
    BY <1>1
  <1> HIDE DEF next, new
  <1>6. VersionsOK'
    BY <1>4, <1>5 DEF VersionsOK, Carrying
  <1>7. CurrentIsStored' /\ CurrentPublished'
    BY DEF CurrentIsStored, CurrentPublished
  <1>8. OnlyPublished'
    BY <1>1, <1>2 DEF OnlyPublished
  <1>9. \A m \in sent \cup taken : m.req # r
    BY DEF InstallsOK
  <1>10. InstallsOK'
    BY <1>1, <1>2, <1>4, <1>5, <1>9, MessageType DEF InstallsOK, Carrying
  <1>11. ReportsOK'
    BY <1>4, <1>5 DEF ReportsOK, Carrying
  <1>12. AloneOK'
    <2> SUFFICES ASSUME NEW y \in alone
                 PROVE  /\ \A x \in Requests \ {y} : Ended(x)'
                        /\ \A m \in sent' : m.req = y
                        /\ current' = req'[y].version
                        /\ \A m \in taken : m.req # y
      BY DEF AloneOK
    <2>1. y = r
      BY DEF AloneOK, Ended
    <2> QED
      BY <1>1, <1>2, <1>4, <1>5, <1>9, <2>1 DEF AloneOK, Ended
  <1> QED
    BY <1>3, <1>6, <1>7, <1>8, <1>10, <1>11, <1>12

LEMMA PublishKeeps ==
    ASSUME RolloutInv, NEW r \in Requests, NEW o \in Outcome("redis"), Publish(r, o)
    PROVE  RolloutInv'
  <1> USE DEF RolloutInv
  <1> DEFINE p == req[r].version
  <1>1. req[r].at = "publish" /\ p \in 1 .. uploads /\ p \in stored
    BY DEF Publish, VersionsOK
  <1>2. /\ published \subseteq published' /\ published' \subseteq 1 .. uploads
        /\ current' \in {p, current}
        /\ current' = p => p \in published'
    <2>1. published \subseteq 1 .. uploads /\ p # NoPackage
      BY <1>1 DEF TypeOK, NoPackage
    <2>2. CASE o = "refused"
      <3>1. current' = current /\ published' = published
        BY <2>2 DEF Publish, SetCurrent
      <3> QED
        BY <2>1, <3>1 DEF CurrentPublished
    <2>3. CASE o # "refused"
      <3>1. current' = p /\ published' = published \cup {p}
        BY <2>3 DEF Publish, SetCurrent
      <3> QED
        BY <1>1, <2>1, <3>1
    <2> QED
      BY <2>2, <2>3
  <1>3. CASE o = "ok"
    <2>1. current' = p /\ p \in published'
      BY <1>3 DEF Publish, SetCurrent
    <2>2. PICK targets \in SUBSET Workers : Installing(r, p, targets)
      BY <1>3 DEF Publish, Enabled
    <2> QED
      BY <1>1, <1>2, <2>1, <2>2, InstallingKeeps DEF Publish
  <1>4. CASE o # "ok"
    <2>1. req' = [req EXCEPT ![r] = Failed] /\ sent' = sent
      BY <1>4 DEF Publish
    <2>2. current' \in 0 .. uploads /\ stored \subseteq 1 .. uploads
      BY <1>1, <1>2 DEF TypeOK
    <2>3. /\ current' # NoPackage => current' \in stored
          /\ current' # NoPackage => current' \in published'
      BY <1>1, <1>2 DEF CurrentIsStored, CurrentPublished
    <2> QED
      BY <1>1, <1>2, <2>1, <2>2, <2>3, FailKeeps DEF Publish
  <1> QED
    BY <1>3, <1>4

LEMMA ReadCurrentKeeps ==
    ASSUME RolloutInv, NEW r \in Requests, NEW o \in Outcome("redis"), ReadCurrent(r, o)
    PROVE  RolloutInv'
  <1> USE DEF RolloutInv
  <1>1. req[r].at = "read" /\ req[r].only \in Workers \cup {All}
    <2>1. req[r].at = "read" /\ req[r] \in Request
      BY DEF ReadCurrent, TypeOK
    <2> QED
      BY <2>1, Shapes
  <1>2. CASE req' = [req EXCEPT ![r] = Failed] /\ sent' = sent
    BY <1>1, <1>2, FailKeeps DEF ReadCurrent, TypeOK, CurrentIsStored, CurrentPublished
  <1>3. CASE current # NoPackage /\ Installing(r, current, Targets(req[r].only))
    <2>1. Targets(req[r].only) \in SUBSET Workers
      BY <1>1 DEF Targets, Enabled
    <2>2. current \in 1 .. uploads /\ current \in stored /\ current \in published
      BY <1>3 DEF CurrentIsStored, CurrentPublished, TypeOK
    <2>3. published \subseteq 1 .. uploads
      BY DEF TypeOK
    <2> QED
      BY <1>1, <1>3, <2>1, <2>2, <2>3, InstallingKeeps DEF ReadCurrent
  <1> QED
    BY <1>2, <1>3 DEF ReadCurrent

-----------------------------------------------------------------------------
(* The installs, and the answer.                                           *)

LEMMA ArrivesKeeps ==
    ASSUME RolloutInv, NEW m \in sent, Arrives(m)
    PROVE  RolloutInv'
  <1> USE DEF RolloutInv
  <1>1. m.req \in Requests /\ m.w \in Workers /\ m.version \in 1 .. uploads
    BY MessageType
  <1>2. TypeOK'
    BY <1>1 DEF TypeOK, Arrives
  <1>3. VersionsOK' /\ CurrentIsStored' /\ CurrentPublished'
    BY DEF VersionsOK, Carrying, CurrentIsStored, CurrentPublished, Arrives
  <1>4. installed' = [installed EXCEPT ![m.w] = m.version] /\ installed \in [Workers -> 0 .. uploads]
    BY DEF Arrives, TypeOK
  <1>5. OnlyPublished'
    BY <1>1, <1>4 DEF OnlyPublished, Arrives
  <1>6. InstallsOK' /\ ReportsOK'
    BY DEF InstallsOK, ReportsOK, Carrying, Arrives
  <1>7. AloneOK'
    <2> SUFFICES ASSUME NEW y \in alone'
                 PROVE  /\ \A x \in Requests \ {y} : Ended(x)'
                        /\ \A n \in sent' : n.req = y
                        /\ Carrying(y)' =>
                              /\ current' = req'[y].version
                              /\ \A n \in taken' : n.req = y => installed'[n.w] = n.version
      BY DEF AloneOK
    <2>1. y = m.req /\ y \in alone /\ req' = req /\ current' = current /\ taken' = taken \cup {m}
      BY DEF Arrives
    <2>2. \A x \in Requests \ {y} : Ended(x)'
      BY <2>1 DEF AloneOK, Ended
    <2>3. \A n \in sent' : n.req = y
      BY <2>1 DEF AloneOK, Arrives
    <2>4. ASSUME Carrying(y) PROVE current = req[y].version
      BY <2>1, <2>4 DEF AloneOK
    <2>5. ASSUME Carrying(y), NEW n \in taken', n.req = y
          PROVE  installed'[n.w] = n.version
      <3>1. n.version = req[y].version /\ m.version = req[y].version
        BY <2>1, <2>5 DEF InstallsOK
      <3>2. n.w \in Workers
        BY <1>1, <2>1, MessageType
      <3>3. CASE n.w = m.w
        BY <1>4, <3>1, <3>2, <3>3
      <3>4. CASE n.w # m.w
        BY <1>4, <2>1, <2>5, <3>2, <3>4 DEF AloneOK
      <3> QED
        BY <3>3, <3>4
    <2> QED
      BY <2>1, <2>2, <2>3, <2>4, <2>5 DEF Carrying
  <1> QED
    BY <1>2, <1>3, <1>5, <1>6, <1>7

\* A request that carries installs goes on with the same package; what it has
\* reported or still waits for is what it was meant for, and what it reports as
\* done was carried out.
LEMMA ProgressKeeps ==
    ASSUME RolloutInv, NEW r \in Requests, req[r].at = "install",
           NEW next \in Request, req' = [req EXCEPT ![r] = next],
           next.at \in {"install", "done"}, next.version = req[r].version,
           next.targets \cup next.ok \cup next.failed
               = req[r].targets \cup req[r].ok \cup req[r].failed,
           \A w \in next.ok : Install(r, w, next.version) \in taken,
           next.at = "done" => next.targets = {},
           UNCHANGED <<registry, stored, current, uploads, sent, taken, installed, published,
                       alone>>
    PROVE  RolloutInv'
  <1> USE DEF RolloutInv
  <1>1. req \in [Requests -> Request]
    BY DEF TypeOK
  <1>2. req'[r] = next /\ \A x \in Requests \ {r} : req'[x] = req[x]
    BY <1>1
  <1>3. TypeOK'
    BY <1>1 DEF TypeOK
  <1>4. VersionsOK'
    BY <1>2 DEF VersionsOK, Carrying
  <1>5. CurrentIsStored' /\ CurrentPublished' /\ OnlyPublished'
    BY DEF CurrentIsStored, CurrentPublished, OnlyPublished
  <1>6. InstallsOK'
    <2> SUFFICES ASSUME NEW m \in sent \cup taken
                 PROVE  /\ req'[m.req].at \in {"install", "done", "failed"}
                        /\ Carrying(m.req)' =>
                              /\ m.version = req'[m.req].version
                              /\ m.w \in req'[m.req].targets \cup req'[m.req].ok \cup req'[m.req].failed
      BY DEF InstallsOK
    <2>1. CASE m.req = r
      BY <1>2, <2>1 DEF InstallsOK, Carrying
    <2>2. CASE m.req # r
      BY <1>2, <2>2, MessageType DEF InstallsOK, Carrying
    <2> QED
      BY <2>1, <2>2
  <1>7. ReportsOK'
    BY <1>2 DEF ReportsOK, Carrying
  <1>8. AloneOK'
    <2> SUFFICES ASSUME NEW y \in alone
                 PROVE  /\ \A x \in Requests \ {y} : Ended(x)'
                        /\ \A m \in sent : m.req = y
                        /\ Carrying(y)' =>
                              /\ current = req'[y].version
                              /\ \A m \in taken : m.req = y => installed[m.w] = m.version
      BY DEF AloneOK
    <2>1. y = r
      BY DEF AloneOK, Ended
    <2> QED
      BY <1>2, <2>1 DEF AloneOK, Ended, Carrying
  <1> QED
    BY <1>3, <1>4, <1>5, <1>6, <1>7, <1>8

\* What a request in its installs is.
LEMMA InstallShape ==
    ASSUME RolloutInv, NEW r \in Requests, req[r].at = "install"
    PROVE  req[r] \in [at : {"install", "done"}, version : Nat, targets : SUBSET Workers,
                       ok : SUBSET Workers, failed : SUBSET Workers]
  <1>1. req[r] \in Request
    BY DEF RolloutInv, TypeOK
  <1> QED
    BY <1>1, Shapes

LEMMA InstallOkKeeps ==
    ASSUME RolloutInv, NEW r \in Requests, NEW w \in Workers, InstallOk(r, w)
    PROVE  RolloutInv'
  <1> DEFINE next == [req[r] EXCEPT !.targets = @ \ {w}, !.ok = @ \cup {w}]
  <1>1. req[r].at = "install" /\ w \in req[r].targets /\ Install(r, w, req[r].version) \in taken
    BY DEF InstallOk
  <1>2. req' = [req EXCEPT ![r] = next]
    BY DEF InstallOk
  <1>3. /\ next \in Request /\ next.at = "install" /\ next.version = req[r].version
        /\ next.targets = req[r].targets \ {w} /\ next.ok = req[r].ok \cup {w}
        /\ next.failed = req[r].failed
    BY <1>1, InstallShape DEF Request
  <1>4. \A v \in req[r].ok : Install(r, v, req[r].version) \in taken
    BY <1>1 DEF RolloutInv, ReportsOK, Carrying
  <1> HIDE DEF next
  <1>5. \A v \in next.ok : Install(r, v, next.version) \in taken
    BY <1>1, <1>3, <1>4
  <1>6. next.targets \cup next.ok \cup next.failed
            = req[r].targets \cup req[r].ok \cup req[r].failed
    BY <1>1, <1>3
  <1> QED
    BY <1>1, <1>2, <1>3, <1>5, <1>6, ProgressKeeps DEF InstallOk

LEMMA InstallFailedKeeps ==
    ASSUME RolloutInv, NEW r \in Requests, NEW w \in Workers, InstallFailed(r, w)
    PROVE  RolloutInv'
  <1> DEFINE next == [req[r] EXCEPT !.targets = @ \ {w}, !.failed = @ \cup {w}]
  <1>1. req[r].at = "install" /\ w \in req[r].targets
    BY DEF InstallFailed
  <1>2. req' = [req EXCEPT ![r] = next]
    BY DEF InstallFailed
  <1>3. /\ next \in Request /\ next.at = "install" /\ next.version = req[r].version
        /\ next.targets = req[r].targets \ {w} /\ next.ok = req[r].ok
        /\ next.failed = req[r].failed \cup {w}
    BY <1>1, InstallShape DEF Request
  <1>4. \A v \in req[r].ok : Install(r, v, req[r].version) \in taken
    BY <1>1 DEF RolloutInv, ReportsOK, Carrying
  <1> HIDE DEF next
  <1>5. next.targets \cup next.ok \cup next.failed
            = req[r].targets \cup req[r].ok \cup req[r].failed
    BY <1>1, <1>3
  <1> QED
    BY <1>1, <1>2, <1>3, <1>4, <1>5, ProgressKeeps DEF InstallFailed

LEMMA AnswerKeeps ==
    ASSUME RolloutInv, NEW r \in Requests, Answer(r)
    PROVE  RolloutInv'
  <1> DEFINE next == [req[r] EXCEPT !.at = "done"]
  <1>1. req[r].at = "install" /\ req[r].targets = {} /\ req' = [req EXCEPT ![r] = next]
    BY DEF Answer
  <1>2. /\ next \in Request /\ next.at = "done" /\ next.version = req[r].version
        /\ next.targets = req[r].targets /\ next.ok = req[r].ok /\ next.failed = req[r].failed
    BY <1>1, InstallShape DEF Request
  <1>3. \A v \in req[r].ok : Install(r, v, req[r].version) \in taken
    BY <1>1 DEF RolloutInv, ReportsOK, Carrying
  <1> HIDE DEF next
  <1> QED
    BY <1>1, <1>2, <1>3, ProgressKeeps DEF Answer

-----------------------------------------------------------------------------
LEMMA RegistryChangesKeeps ==
    ASSUME RolloutInv, NEW w \in Workers, NEW s \in {"enabled", "disabled", "absent"},
           RegistryChanges(w, s)
    PROVE  RolloutInv'
  <1>1. TypeOK'
    BY DEF RolloutInv, TypeOK, RegistryChanges
  <1>2. AloneOK'
    BY DEF AloneOK, RegistryChanges
  <1> QED
    BY <1>1, <1>2
       DEF RolloutInv, RegistryChanges, VersionsOK, CurrentIsStored, CurrentPublished,
           OnlyPublished, InstallsOK, ReportsOK, Carrying

LEMMA CrashKeeps ==
    ASSUME RolloutInv, Crash
    PROVE  RolloutInv'
  <1> USE DEF RolloutInv
  <1>1. req' = [r \in Requests |-> IF Ended(r) THEN req[r] ELSE Failed]
    BY DEF Crash
  <1>2. \A r \in Requests : \/ req'[r] = req[r] /\ Ended(r)
                            \/ req'[r] = Failed /\ ~Ended(r)
    BY <1>1
  <1>3. Failed.at = "failed" /\ Failed \in Request
    BY DEF Failed, Request
  <1>4. TypeOK'
    BY <1>1, <1>3 DEF TypeOK, Crash
  <1>5. VersionsOK'
    BY <1>2, <1>3 DEF VersionsOK, Carrying, Crash
  <1>6. CurrentIsStored' /\ CurrentPublished' /\ OnlyPublished'
    BY DEF CurrentIsStored, CurrentPublished, OnlyPublished, Crash
  <1>7. InstallsOK'
    BY <1>2, <1>3, MessageType DEF InstallsOK, Carrying, Crash
  <1>8. ReportsOK'
    BY <1>2, <1>3 DEF ReportsOK, Carrying, Crash
  <1>9. AloneOK'
    <2>1. \A r \in Requests : Ended(r)'
      BY <1>2, <1>3 DEF Ended
    <2>2. alone \subseteq Requests
      BY DEF TypeOK
    <2> QED
      BY <1>2, <1>3, <2>1, <2>2 DEF AloneOK, Carrying, Crash
  <1> QED
    BY <1>4, <1>5, <1>6, <1>7, <1>8, <1>9

-----------------------------------------------------------------------------
LEMMA RolloutInvHolds == Spec => []RolloutInv
  <1>1. Init => RolloutInv
    <2> SUFFICES ASSUME Init PROVE RolloutInv
      OBVIOUS
    <2>1. TypeOK
      BY DEF Init, TypeOK, NoPackage, Request
    <2>2. \A r \in Requests : req[r].at = "idle"
      BY DEF Init, Idle
    <2>3. VersionsOK /\ ReportsOK
      BY <2>2 DEF VersionsOK, ReportsOK, Carrying
    <2>4. CurrentIsStored /\ CurrentPublished /\ OnlyPublished /\ InstallsOK /\ AloneOK
      BY DEF Init, CurrentIsStored, CurrentPublished, OnlyPublished, InstallsOK, AloneOK
    <2> QED
      BY <2>1, <2>3, <2>4 DEF RolloutInv
  <1>2. RolloutInv /\ [Next]_rolloutVars => RolloutInv'
    <2> SUFFICES ASSUME RolloutInv, [Next]_rolloutVars PROVE RolloutInv'
      OBVIOUS
    <2>1. ASSUME NEW r \in Requests, RequestStep(r) PROVE RolloutInv'
      BY <2>1, UploadKeeps, StoredKeeps, PublishKeeps, ReadCurrentKeeps, ApplyCurrentKeeps,
         InstallOkKeeps, InstallFailedKeeps, AnswerKeeps DEF RequestStep
    <2>2. ASSUME NEW m \in sent, Arrives(m) PROVE RolloutInv'
      BY <2>2, ArrivesKeeps
    <2>3. ASSUME NEW w \in Workers, NEW s \in {"enabled", "disabled", "absent"},
                 RegistryChanges(w, s)
          PROVE  RolloutInv'
      BY <2>3, RegistryChangesKeeps
    <2>4. CASE Crash
      BY <2>4, CrashKeeps
    <2>5. CASE UNCHANGED rolloutVars
      BY <2>5
         DEF rolloutVars, RolloutInv, TypeOK, VersionsOK, CurrentIsStored, CurrentPublished,
             OnlyPublished, InstallsOK, ReportsOK, AloneOK, Carrying, Ended
    <2> QED
      BY <2>1, <2>2, <2>3, <2>4, <2>5 DEF Next
  <1> QED
    BY <1>1, <1>2, PTL DEF Spec

\* What the storage, the manifest, the requests and the workers hold keeps its type.
THEOREM RolloutTypeCorrect == Spec => []TypeOK
  <1>1. RolloutInv => TypeOK
    BY DEF RolloutInv
  <1> QED
    BY <1>1, RolloutInvHolds, PTL

\* Whatever fails, the package that apply-current offers is in the storage.
THEOREM CurrentExists == Spec => []CurrentIsStored
  <1>1. RolloutInv => CurrentIsStored
    BY DEF RolloutInv
  <1> QED
    BY <1>1, RolloutInvHolds, PTL

\* Workers only ever get packages that were the current one.
THEOREM PackagesArePublished == Spec => []OnlyPublished
  <1>1. RolloutInv => OnlyPublished
    BY DEF RolloutInv
  <1> QED
    BY <1>1, RolloutInvHolds, PTL

\* The answer of a roll-out says of each worker it was meant for what happened.
THEOREM AnswersAreTrue == Spec => []ReportIsTrue
  <1>1. RolloutInv => ReportIsTrue
    <2> SUFFICES ASSUME RolloutInv, NEW r \in Requests, req[r].at = "done"
                 PROVE  /\ \A w \in req[r].ok : Install(r, w, req[r].version) \in taken
                        /\ \A m \in sent \cup taken : m.req = r => m.w \in req[r].ok \cup req[r].failed
      BY DEF ReportIsTrue
    <2>1. Carrying(r)
      BY DEF Carrying
    <2> QED
      BY <2>1 DEF RolloutInv, ReportsOK, InstallsOK
  <1> QED
    BY <1>1, RolloutInvHolds, PTL

\* A roll-out that nothing interferes with leaves its package the current one,
\* and on every worker it reports as updated.
THEOREM RolloutTakesEffect == Spec => []AloneTakesEffect
  <1>1. RolloutInv => AloneTakesEffect
    <2> SUFFICES ASSUME RolloutInv, NEW r \in alone, req[r].at = "done"
                 PROVE  /\ current = req[r].version
                        /\ \A w \in req[r].ok : installed[w] = req[r].version
      BY DEF AloneTakesEffect
    <2>1. Carrying(r) /\ r \in Requests
      BY DEF Carrying, RolloutInv, TypeOK
    <2>2. \A w \in req[r].ok : Install(r, w, req[r].version) \in taken
      BY <2>1 DEF RolloutInv, ReportsOK
    <2>3. \A m \in taken : m.req = r => installed[m.w] = m.version
      BY <2>1 DEF RolloutInv, AloneOK
    <2>4. \A w : /\ Install(r, w, req[r].version).req = r
                 /\ Install(r, w, req[r].version).w = w
                 /\ Install(r, w, req[r].version).version = req[r].version
      BY DEF Install
    <2> QED
      BY <2>1, <2>2, <2>3, <2>4 DEF RolloutInv, AloneOK
  <1> QED
    BY <1>1, RolloutInvHolds, PTL

=============================================================================
