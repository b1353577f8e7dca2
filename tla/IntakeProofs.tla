----------------------------- MODULE IntakeProofs -----------------------------
(***************************************************************************)
(* What Intake promises about the settings of a job, its input image, the  *)
(* answer of PATCH and the answer of the media proxy, for any number of    *)
(* requests, types, clients and workers, and what the rate limiter lets    *)
(* in, for any limit and window.                                           *)
(*                                                                         *)
(* What the limiter keeps is a fold over the ages in a bucket: what is so  *)
(* of it for a bucket of any length is proved from the least number of     *)
(* ages it would not be so of (LeastNumber).                               *)
(***************************************************************************)
EXTENDS Intake, WellFoundedInduction, TLAPS

USE IntakeAssumption

\* What is so of request r while the settings f are in force.  SettingsOfJob,
\* ImageIsStored and NotFoundIsTrue say it of a request at its last step; the
\* rest is what carries it there.
Sound(r, f) ==
    /\ r \in Request
    /\ r.at = "admitted" => f[r.type] \in r.due
    /\ r.at = "enqueue" =>
           /\ IF r.override = None THEN r.settings \in r.due ELSE r.settings = r.override
           /\ r.input # "data"
           /\ r.input = "link" => r.stored
    /\ r.at = "image" =>
           IF r.override = None THEN r.settings \in r.due ELSE r.settings = r.override
    /\ r.at = "video" =>
           \A n \in DOMAIN r.copies : n <= r.asked => r.copies[n] \in {"lacks", "errors"}
    /\ r.at = "answered" /\ r.status \in {404, 502} =>
           \A n \in DOMAIN r.copies : r.copies[n] \in {"lacks", "errors"}

IntakeInv ==
    /\ up \in BOOLEAN
    /\ flow \in Settings
    /\ req \in [Handlers -> Request]
    /\ ~up => \A h \in Handlers : req[h] = Idle
    /\ \A h \in Handlers : Sound(req[h], flow)
    /\ AnsweredHolds

-----------------------------------------------------------------------------
(* The shapes of a request.                                                *)

\* Where a request stands tells which fields it has.
LEMMA Shapes ==
    ASSUME NEW r \in Request
    PROVE  /\ r.at = "admitted" => r \in [at : {"admitted"}, type : Types, due : SUBSET Values]
           /\ r.at \in {"image", "enqueue"} =>
                  r \in [at : {"image", "enqueue"}, type : Types, due : SUBSET Values,
                         override : Values \cup {None}, settings : Values,
                         input : {"none", "data", "link"}, stored : BOOLEAN]
           /\ r.at \in {"video", "answered"} => r \in Video
           /\ r.at \in {"idle", "admitted", "image", "enqueue", "video", "answered"}
  BY DEF Request, Generation, Video, Idle

\* A request that is over is sound.
LEMMA IdleIsSound ==
    ASSUME NEW f
    PROVE  Sound(Idle, f)
  BY DEF Sound, Request, Idle

-----------------------------------------------------------------------------
(* A step that changes one request, or none, and no settings.              *)

LEMMA OneRequestStep ==
    ASSUME IntakeInv, NEW h \in Handlers, NEW x, Sound(x, flow), up \/ x = Idle,
           req' = [req EXCEPT ![h] = x], UNCHANGED <<up, settingsVars>>
    PROVE  IntakeInv'
<1>1. req' \in [Handlers -> Request] /\ \A g \in Handlers : Sound(req'[g], flow)
  BY DEF IntakeInv, Sound
<1>2. ~up' => \A g \in Handlers : req'[g] = Idle
  BY DEF IntakeInv
<1> QED
  BY <1>1, <1>2 DEF IntakeInv, AnsweredHolds, settingsVars

LEMMA NoRequestStep ==
    ASSUME IntakeInv, UNCHANGED <<up, settingsVars, req>>
    PROVE  IntakeInv'
  BY DEF IntakeInv, AnsweredHolds, settingsVars

-----------------------------------------------------------------------------
(* Generation requests.                                                    *)

\* A request that is not over belongs to a process that runs.
LEMMA BusyIsUp ==
    ASSUME IntakeInv, NEW h \in Handlers, req[h].at # "idle"
    PROVE  up
  BY DEF IntakeInv, Idle

LEMMA AdmitKeeps ==
    ASSUME IntakeInv, NEW h \in Handlers, NEW key \in Keys, Admit(h, key)
    PROVE  IntakeInv'
<1> DEFINE x == [at |-> "admitted", type |-> key[2], due |-> {InForce(key[2])}]
<1>1. key[2] \in Types
  BY DEF Keys
<1>2. InForce(key[2]) = flow[key[2]]
  BY DEF InForce, IntakeInv, AnsweredHolds, Admit
<1>3. flow[key[2]] \in Values
  BY <1>1 DEF IntakeInv, Settings
<1>4. Sound(x, flow)
  <2>1. x \in Request
    BY <1>1, <1>2, <1>3 DEF Request, Generation
  <2> QED
    BY <2>1, <1>2 DEF Sound
<1> QED
  BY <1>4, OneRequestStep DEF Admit

LEMMA EndKeeps ==
    ASSUME IntakeInv, NEW h \in Handlers, req' = [req EXCEPT ![h] = Idle],
           UNCHANGED <<up, settingsVars>>
    PROVE  IntakeInv'
  BY IdleIsSound, OneRequestStep

LEMMA ResolveKeeps ==
    ASSUME IntakeInv, NEW h \in Handlers, NEW override \in Values \cup {None},
           NEW input \in {"none", "data"}, Resolve(h, override, input)
    PROVE  IntakeInv'
<1> DEFINE r == req[h]
           x == [at |-> IF input = "data" THEN "image" ELSE "enqueue",
                 type |-> r.type, due |-> r.due, override |-> override,
                 settings |-> IF override = None THEN flow[r.type] ELSE override,
                 input |-> input, stored |-> FALSE]
<1>1. r.at = "admitted" /\ Sound(r, flow)
  BY DEF Resolve, IntakeInv
<1>2. r \in [at : {"admitted"}, type : Types, due : SUBSET Values]
  BY <1>1, Shapes DEF Sound
<1>3. x.settings \in Values
  BY <1>2 DEF IntakeInv, Settings
<1>4. x \in Request
  BY <1>2, <1>3 DEF Request, Generation
<1>5. IF override = None THEN x.settings \in x.due ELSE x.settings = x.override
  BY <1>1 DEF Sound
<1>6. Sound(x, flow)
  BY <1>4, <1>5 DEF Sound
<1>7. up /\ req' = [req EXCEPT ![h] = x] /\ UNCHANGED <<up, settingsVars>>
  <2>1. req' = [req EXCEPT ![h] = x]
    BY DEF Resolve
  <2> QED
    BY <1>1, <2>1, BusyIsUp DEF Resolve
<1> HIDE DEF x
<1> QED
  BY <1>6, <1>7, OneRequestStep

LEMMA StoreImageKeeps ==
    ASSUME IntakeInv, NEW h \in Handlers, StoreImage(h)
    PROVE  IntakeInv'
<1> DEFINE r == req[h]
           x == Externalized(r)
<1>1. r.at = "image" /\ Sound(r, flow)
  BY DEF StoreImage, IntakeInv
<1>2. r \in [at : {"image", "enqueue"}, type : Types, due : SUBSET Values,
             override : Values \cup {None}, settings : Values,
             input : {"none", "data", "link"}, stored : BOOLEAN]
  BY <1>1, Shapes DEF Sound
<1>3. Sound(x, flow)
  <2>1. x \in Request
    BY <1>2 DEF Request, Generation, Externalized
  <2>2. /\ x.at = "enqueue" /\ x.input = "link" /\ x.stored
        /\ x.override = r.override /\ x.settings = r.settings /\ x.due = r.due
    BY <1>2 DEF Externalized
  <2> QED
    BY <1>1, <2>1, <2>2 DEF Sound
<1>4. CASE req' = [req EXCEPT ![h] = Idle]
  BY <1>4, EndKeeps DEF StoreImage
<1>5. CASE req' = [req EXCEPT ![h] = x]
  BY <1>1, <1>3, <1>5, BusyIsUp, OneRequestStep DEF StoreImage
<1> QED
  BY <1>4, <1>5 DEF StoreImage

-----------------------------------------------------------------------------
(* PATCH.                                                                  *)

\* Settings with a payload on top are settings.
LEMMA PatchedIsSettings ==
    ASSUME IntakeInv, NEW payload \in Payload
    PROVE  Patched(payload) \in Settings
<1>1. PICK S \in SUBSET Types : payload \in [S -> Values]
  BY DEF Payload
<1> QED
  BY <1>1 DEF Settings, Patched, IntakeInv

\* Whatever settings come into force, what waits to be resolved may find them.
LEMMA WitnessedIsSound ==
    ASSUME IntakeInv, NEW f \in Settings
    PROVE  /\ Witnessed(f) \in [Handlers -> Request]
           /\ \A h \in Handlers : Sound(Witnessed(f)[h], f)
<1> SUFFICES ASSUME NEW h \in Handlers
             PROVE  Sound(Witnessed(f)[h], f)
  BY DEF Witnessed, Sound
<1>1. Sound(req[h], flow)
  BY DEF IntakeInv
<1>2. CASE req[h].at = "admitted"
  <2> DEFINE r == req[h]
             x == [r EXCEPT !.due = @ \cup {f[r.type]}]
  <2>1. r \in [at : {"admitted"}, type : Types, due : SUBSET Values]
    BY <1>1, <1>2, Shapes DEF Sound
  <2>2. f[r.type] \in Values
    BY <2>1 DEF Settings
  <2>3. x \in [at : {"admitted"}, type : Types, due : SUBSET Values]
    BY <2>1, <2>2
  <2>4. x.at = "admitted" /\ x.type = r.type /\ f[r.type] \in x.due
    BY <2>1
  <2>5. x \in Request
    BY <2>3 DEF Request, Generation
  <2>6. Sound(x, f)
    BY <2>4, <2>5 DEF Sound
  <2> QED
    BY <1>2, <2>6 DEF Witnessed
<1>3. CASE req[h].at # "admitted"
  BY <1>1, <1>3 DEF Witnessed, Sound
<1> QED
  BY <1>2, <1>3

LEMMA PatchKeeps ==
    ASSUME IntakeInv, NEW payload \in Payload, Patch(payload) \/ PatchFails(payload)
    PROVE  IntakeInv'
<1>1. up /\ up' /\ flow' = Patched(payload) /\ req' = Witnessed(flow')
  BY DEF Patch, PatchFails
<1>2. flow' \in Settings
  BY <1>1, PatchedIsSettings
<1>3. AnsweredHolds'
  BY DEF Patch, PatchFails, AnsweredHolds
<1> QED
  BY <1>1, <1>2, <1>3, WitnessedIsSound DEF IntakeInv

-----------------------------------------------------------------------------
(* The media proxy.                                                        *)

LEMMA AskForVideoKeeps ==
    ASSUME IntakeInv, NEW h \in Handlers, NEW n \in 0 .. NumWorkers,
           NEW copies \in [1 .. n -> Copy], AskForVideo(h, copies)
    PROVE  IntakeInv'
<1> DEFINE x == [at |-> "video", copies |-> copies, asked |-> 0, status |-> 0]
<1>1. x \in Request
  BY DEF Request, Video
<1>2. Sound(x, flow)
  BY <1>1 DEF Sound
<1> QED
  BY <1>2, OneRequestStep DEF AskForVideo

\* The parts of a request for a video.
LEMMA VideoParts ==
    ASSUME NEW r \in Video
    PROVE  /\ r.asked \in 0 .. NumWorkers
           /\ Len(r.copies) \in 0 .. NumWorkers
           /\ DOMAIN r.copies = 1 .. Len(r.copies)
           /\ \A n \in DOMAIN r.copies : r.copies[n] \in Copy
  BY DEF Video

\* Wherever the search stands, the request has its form.
LEMMA SearchForm ==
    ASSUME NEW r \in Video, NEW at \in {"video", "answered"}, NEW n \in 0 .. NumWorkers,
           NEW status \in {0, 200, 404, 500, 502}
    PROVE  Searched(r, at, n, status) \in Request
  BY DEF Video, Request, Searched

LEMMA AskNextKeeps ==
    ASSUME IntakeInv, NEW h \in Handlers, AskNext(h)
    PROVE  IntakeInv'
<1> DEFINE r == req[h]
           n == r.asked + 1
<1>1. r.at = "video" /\ n \in DOMAIN r.copies /\ Sound(r, flow) /\ up
  BY BusyIsUp DEF AskNext, IntakeInv
<1>2. r \in Video
  BY <1>1, Shapes DEF Sound
<1>3. n \in 0 .. NumWorkers /\ DOMAIN r.copies \subseteq Nat /\ r.asked \in Nat
  BY <1>1, <1>2, VideoParts
<1>4. UNCHANGED <<up, settingsVars>>
  BY DEF AskNext
<1>5. ASSUME NEW status \in {404, 500}, r.copies[n] \in {"lacks", "errors"},
             Search(h, "video", n, status)
      PROVE  IntakeInv'
  <2>1. Searched(r, "video", n, status) \in Request
    BY <1>2, <1>3, SearchForm
  <2>2. \A k \in DOMAIN r.copies : k <= n => r.copies[k] \in {"lacks", "errors"}
    BY <1>1, <1>3, <1>5 DEF Sound
  <2>3. Sound(Searched(r, "video", n, status), flow)
    BY <2>1, <2>2 DEF Sound, Searched
  <2>4. PICK x : x = Searched(r, "video", n, status) /\ req' = [req EXCEPT ![h] = x]
    BY <1>5 DEF Search
  <2>5. up /\ Sound(x, flow)
    BY <1>1, <2>3, <2>4
  <2> HIDE DEF r
  <2> QED
    BY <1>4, <2>4, <2>5, OneRequestStep
<1>6. ASSUME NEW status \in {200, 500}, Search(h, "answered", n, status)
      PROVE  IntakeInv'
  <2>1. Searched(r, "answered", n, status) \in Request
    BY <1>2, <1>3, SearchForm
  <2>2. Sound(Searched(r, "answered", n, status), flow)
    BY <2>1 DEF Sound, Searched
  <2>3. PICK x : x = Searched(r, "answered", n, status) /\ req' = [req EXCEPT ![h] = x]
    BY <1>6 DEF Search
  <2>4. up /\ Sound(x, flow)
    BY <1>1, <2>2, <2>3
  <2> HIDE DEF r
  <2> QED
    BY <1>4, <2>3, <2>4, OneRequestStep
<1> QED
  BY <1>5, <1>6 DEF AskNext

LEMMA NobodyLeftKeeps ==
    ASSUME IntakeInv, NEW h \in Handlers, NobodyLeft(h)
    PROVE  IntakeInv'
<1> DEFINE r == req[h]
<1>1. r.at = "video" /\ r.asked = Len(r.copies) /\ Sound(r, flow) /\ up
  BY BusyIsUp DEF NobodyLeft, IntakeInv
<1>2. r \in Video
  BY <1>1, Shapes DEF Sound
<1>3. \A n \in DOMAIN r.copies : r.copies[n] \in {"lacks", "errors"}
  BY <1>1, <1>2, VideoParts DEF Sound
<1>4. PICK status \in {404, 502} : Search(h, "answered", r.asked, status)
  BY DEF NobodyLeft
<1>5. Searched(r, "answered", r.asked, status) \in Request
  BY <1>2, VideoParts, SearchForm
<1>6. Sound(Searched(r, "answered", r.asked, status), flow)
  BY <1>3, <1>5 DEF Sound, Searched
<1>7. PICK x : x = Searched(r, "answered", r.asked, status) /\ req' = [req EXCEPT ![h] = x]
  BY <1>4 DEF Search
<1>8. UNCHANGED <<up, settingsVars>>
  BY DEF NobodyLeft
<1>9. up /\ Sound(x, flow)
  BY <1>1, <1>6, <1>7
<1> HIDE DEF r
<1> QED
  BY <1>7, <1>8, <1>9, OneRequestStep

-----------------------------------------------------------------------------
(* The end of the process and its start.                                   *)

LEMMA StopKeeps ==
    ASSUME IntakeInv, Stops, UNCHANGED <<file, promised>> \/ promised' = None
    PROVE  IntakeInv'
<1>1. ~up' /\ up' \in BOOLEAN /\ flow' = flow /\ req' = [h \in Handlers |-> Idle]
  BY DEF Stops
<1>2. AnsweredHolds'
  BY <1>1 DEF AnsweredHolds, IntakeInv
<1>3. Idle \in Request
  BY DEF Request
<1> QED
  BY <1>1, <1>2, <1>3, IdleIsSound DEF IntakeInv

LEMMA StartKeeps ==
    ASSUME IntakeInv, Restart \/ Redeploy
    PROVE  IntakeInv'
<1>1. ~up /\ up' \in BOOLEAN /\ req' = req /\ flow' \in Settings
  BY DEF Restart, Redeploy, IntakeInv
<1>2. \A h \in Handlers : req'[h] = Idle
  BY <1>1 DEF IntakeInv
<1>3. AnsweredHolds'
  BY DEF Restart, Redeploy, AnsweredHolds, IntakeInv
<1> QED
  BY <1>1, <1>2, <1>3, IdleIsSound DEF IntakeInv

-----------------------------------------------------------------------------
(* The invariant and what it shows.                                        *)

LEMMA IntakeInvInit == Init => IntakeInv
<1> SUFFICES ASSUME Init
             PROVE  IntakeInv
  OBVIOUS
<1>1. flow \in Settings /\ Idle \in Request
  BY DEF Init, Shipped, Settings, Request
<1> QED
  BY <1>1, IdleIsSound DEF Init, IntakeInv, AnsweredHolds

LEMMA IntakeInvStep == IntakeInv /\ [Next]_intakeVars => IntakeInv'
<1> SUFFICES ASSUME IntakeInv, [Next]_intakeVars
             PROVE  IntakeInv'
  OBVIOUS
<1>1. ASSUME NEW h \in Handlers, GenerationStep(h)
      PROVE  IntakeInv'
  <2>1. ASSUME BadBody(h) \/ HandOver(h)
        PROVE  IntakeInv'
    BY <2>1, EndKeeps DEF BadBody, HandOver
  <2> QED
    BY <1>1, <2>1, AdmitKeeps, ResolveKeeps, StoreImageKeeps DEF GenerationStep
<1>2. ASSUME NEW h \in Handlers, VideoStep(h)
      PROVE  IntakeInv'
  <2>1. ASSUME VideoEnds(h)
        PROVE  IntakeInv'
    BY <2>1, EndKeeps DEF VideoEnds
  <2> QED
    BY <1>2, <2>1, AskForVideoKeeps, AskNextKeeps, NobodyLeftKeeps DEF VideoStep
<1>3. ASSUME NEW key \in Keys, Refuse(key)
      PROVE  IntakeInv'
  BY <1>3, NoRequestStep DEF Refuse
<1>4. CASE Tick
  BY <1>4, NoRequestStep DEF Tick
<1>5. CASE PatchStep
  BY <1>5, PatchKeeps, StopKeeps DEF PatchStep, CrashInPatch
<1>6. CASE Crash
  BY <1>6, StopKeeps DEF Crash
<1>7. CASE Restart \/ Redeploy
  BY <1>7, StartKeeps
<1>8. CASE UNCHANGED intakeVars
  BY <1>8, NoRequestStep DEF intakeVars
<1> QED
  BY <1>1, <1>2, <1>3, <1>4, <1>5, <1>6, <1>7, <1>8 DEF Next

LEMMA IntakeInvAlways == Spec => []IntakeInv
  BY IntakeInvInit, IntakeInvStep, PTL DEF Spec

\* What PATCH answered is in force and in the file, until a later one fails or
\* the file is replaced: neither a request's override nor a restart takes it back.
THEOREM AnswersHold == Spec => []AnsweredHolds
<1>1. IntakeInv => AnsweredHolds
  BY DEF IntakeInv
<1> QED
  BY <1>1, IntakeInvAlways, PTL

\* A job is queued with its own override, or with settings that were in force
\* at some time since its request came in.
THEOREM JobsHaveTheirSettings == Spec => []SettingsOfJob
<1>1. IntakeInv => SettingsOfJob
  BY DEF IntakeInv, Sound, SettingsOfJob
<1> QED
  BY <1>1, IntakeInvAlways, PTL

\* Neither image data nor a link to an image that is not stored is queued.
THEOREM ImagesAreStored == Spec => []ImageIsStored
<1>1. IntakeInv => ImageIsStored
  BY DEF IntakeInv, Sound, ImageIsStored
<1> QED
  BY <1>1, IntakeInvAlways, PTL

\* 404 and 502 mean that every enabled worker has answered and none would serve the
\* video, in whatever order those that do, that lack it and that fail are asked.
THEOREM NotFoundIsJustified == Spec => []NotFoundIsTrue
<1>1. IntakeInv => NotFoundIsTrue
  BY DEF IntakeInv, Sound, NotFoundIsTrue
<1> QED
  BY <1>1, IntakeInvAlways, PTL

-----------------------------------------------------------------------------
(* What the limiter keeps of a list of ages.                               *)

\* Every nonempty set of natural numbers has a least element: what the proofs
\* by induction below rest on.
LEMMA LeastNumber ==
    ASSUME NEW T \in SUBSET Nat, T # {}
    PROVE  \E n \in T : \A m \in T : n <= m
<1>1. PICK n \in T : \A m \in T : ~(<<m, n>> \in OpToRel(<, Nat))
  BY NatLessThanWellFounded, WFMin, Zenon
<1>2. ASSUME NEW m \in T, m < n PROVE FALSE
  <2>1. <<m, n>> \in OpToRel(<, Nat)
    BY <1>2 DEF OpToRel
  <2> QED
    BY <1>1, <2>1
<1> QED
  BY <1>2

LEMMA MaxOfNumbers ==
    ASSUME NEW n \in Nat, NEW s \in SUBSET (1 .. n), n \in s
    PROVE  Max(s) = n
<1>1. \A x \in s : (\A y \in s : x >= y) => x = n
  OBVIOUS
<1>2. \A y \in s : n >= y
  OBVIOUS
<1> QED
  BY <1>1, <1>2 DEF Max

\* What becomes of what was kept when the next age is looked at.
With(kept, age, limit) == IF age <= limit THEN Append(kept, age) ELSE kept

LEMMA WithType ==
    ASSUME NEW limit \in Nat, NEW kept \in Seq(0 .. limit), NEW age \in Nat
    PROVE  /\ With(kept, age, limit) \in Seq(0 .. limit)
           /\ Len(With(kept, age, limit)) \in {Len(kept), Len(kept) + 1}
<1>1. CASE age <= limit
  <2>1. age \in 0 .. limit
    BY <1>1
  <2>2. With(kept, age, limit) = Append(kept, age)
    BY <1>1 DEF With
  <2> QED
    BY <2>1, <2>2
<1>2. CASE ~(age <= limit)
  BY <1>2 DEF With
<1> QED
  BY <1>1, <1>2

\* g is the function NotOlder goes through: what is kept of the ages at a set of
\* positions.
KeepsAges(g, ages, limit, D) ==
    g = [s \in SUBSET D |->
            IF s = {} THEN <<>> ELSE With(g[s \ {Max(s)}], ages[Max(s)], limit)]

LEMMA AgesAreKept ==
    ASSUME NEW ages, NEW limit
    PROVE  NotOlder(ages, limit)
               = (CHOOSE g : KeepsAges(g, ages, limit, DOMAIN ages))[DOMAIN ages]
  BY DEF NotOlder, FoldLeft, MapThenFoldSet, KeepsAges, With

LEMMA KeepingExists ==
    ASSUME NEW ages, NEW limit, NEW n \in Nat
    PROVE  \E g : KeepsAges(g, ages, limit, 1 .. n)
<1> DEFINE Lacking == {k \in Nat : ~\E g : KeepsAges(g, ages, limit, 1 .. k)}
<1> SUFFICES ASSUME Lacking # {} PROVE FALSE
  OBVIOUS
<1>1. PICK k \in Lacking : \A m \in Lacking : k <= m
  BY LeastNumber
<1>2. k # 0
  <2> DEFINE g == [s \in SUBSET {} |-> <<>>]
  <2>1. KeepsAges(g, ages, limit, {})
    BY DEF KeepsAges
  <2>2. 1 .. 0 = {}
    OBVIOUS
  <2> QED
    BY <2>1, <2>2
<1>3. PICK g : KeepsAges(g, ages, limit, 1 .. (k - 1))
  BY <1>1, <1>2
<1> DEFINE h == [s \in SUBSET (1 .. k) |->
                    IF k \in s THEN With(g[s \ {k}], ages[k], limit) ELSE g[s]]
<1>4. ASSUME NEW s \in SUBSET (1 .. k)
      PROVE  h[s] = IF s = {} THEN <<>> ELSE With(h[s \ {Max(s)}], ages[Max(s)], limit)
  <2>1. CASE k \in s
    <3>1. Max(s) = k /\ s \ {k} \in SUBSET (1 .. k) /\ k \notin s \ {k}
      BY <2>1, MaxOfNumbers
    <3> QED
      BY <2>1, <3>1
  <2>2. CASE k \notin s
    <3> \A i \in s : i \in 1 .. (k - 1)
      BY <2>2
    <3>1. s \in SUBSET (1 .. (k - 1)) /\ s \ {Max(s)} \in SUBSET (1 .. k)
      OBVIOUS
    <3>2. h[s] = g[s] /\ h[s \ {Max(s)}] = g[s \ {Max(s)}]
      BY <2>2, <3>1
    <3>3. g[s] = IF s = {} THEN <<>> ELSE With(g[s \ {Max(s)}], ages[Max(s)], limit)
      BY <1>3, <3>1 DEF KeepsAges
    <3> QED
      BY <3>2, <3>3
  <2> QED
    BY <2>1, <2>2
<1>5. KeepsAges(h, ages, limit, 1 .. k)
  BY <1>4 DEF KeepsAges
<1> QED
  BY <1>1, <1>5

\* p[k] is what is kept of the first k ages.
KeepsPrefixes(p, ages, limit) ==
    /\ p[0] = <<>>
    /\ \A k \in 1 .. Len(ages) : p[k] = With(p[k - 1], ages[k], limit)

\* NotOlder goes through the ages one after the other.
LEMMA NotOlderByPrefixes ==
    ASSUME NEW ages \in Seq(Nat), NEW limit \in Nat
    PROVE  \E p : KeepsPrefixes(p, ages, limit) /\ NotOlder(ages, limit) = p[Len(ages)]
<1> DEFINE D == DOMAIN ages
           g == CHOOSE f : KeepsAges(f, ages, limit, D)
           p == [k \in 0 .. Len(ages) |-> g[1 .. k]]
<1>1. D = 1 .. Len(ages) /\ Len(ages) \in Nat
  OBVIOUS
<1>2. KeepsAges(g, ages, limit, D)
  <2>1. \E f : KeepsAges(f, ages, limit, 1 .. Len(ages))
    BY <1>1, KeepingExists
  <2>2. \E f : KeepsAges(f, ages, limit, D)
    BY <1>1, <2>1, Zenon
  <2> HIDE DEF D
  <2> QED
    BY <2>2, Zenon
<1>3. \A s \in SUBSET D :
         g[s] = IF s = {} THEN <<>> ELSE With(g[s \ {Max(s)}], ages[Max(s)], limit)
  BY <1>2 DEF KeepsAges
<1>4. NotOlder(ages, limit) = g[D]
  BY AgesAreKept
<1> HIDE DEF g
<1>5. p[0] = <<>>
  <2>1. 1 .. 0 = {} /\ p[0] = g[1 .. 0]
    OBVIOUS
  <2> QED
    BY <1>3, <2>1
<1>6. ASSUME NEW k \in 1 .. Len(ages)
      PROVE  p[k] = With(p[k - 1], ages[k], limit)
  <2>1. k \in Nat /\ k - 1 \in 0 .. Len(ages) /\ k \in 0 .. Len(ages) /\ k \in 1 .. k
    BY <1>1
  <2>2. Max(1 .. k) = k
    BY <2>1, MaxOfNumbers
  <2>3. \A i \in 1 .. k : i \in D
    BY <1>1, <2>1
  <2>4. (1 .. k) \ {k} = 1 .. (k - 1)
    BY <2>1
  <2>5. g[1 .. k] = With(g[1 .. (k - 1)], ages[k], limit)
    BY <1>3, <2>1, <2>2, <2>3, <2>4
  <2> QED
    BY <2>1, <2>5
<1>7. NotOlder(ages, limit) = p[Len(ages)]
  BY <1>1, <1>4
<1> QED
  BY <1>5, <1>6, <1>7 DEF KeepsPrefixes

\* There is but one way through them.
LEMMA NotOlderIs ==
    ASSUME NEW ages \in Seq(Nat), NEW limit \in Nat, NEW p, KeepsPrefixes(p, ages, limit)
    PROVE  NotOlder(ages, limit) = p[Len(ages)]
<1>1. PICK q : KeepsPrefixes(q, ages, limit) /\ NotOlder(ages, limit) = q[Len(ages)]
  BY NotOlderByPrefixes
<1> DEFINE Wrong == {k \in 0 .. Len(ages) : p[k] # q[k]}
<1>2. Len(ages) \in Nat
  OBVIOUS
<1>3. ASSUME NEW k \in Wrong, \A m \in Wrong : k <= m PROVE FALSE
  <2>1. k # 0
    BY <1>1 DEF KeepsPrefixes
  <2>2. p[k - 1] = q[k - 1] /\ k \in 1 .. Len(ages)
    BY <1>2, <1>3, <2>1
  <2> QED
    BY <1>1, <2>2 DEF KeepsPrefixes
<1>4. Wrong = {}
  <2>1. Wrong \in SUBSET Nat
    BY <1>2
  <2> HIDE DEF Wrong
  <2> QED
    BY <1>3, <2>1, LeastNumber
<1> QED
  BY <1>1, <1>2, <1>4

\* None that is kept is older, and there are no more than before.
LEMMA NotOlderType ==
    ASSUME NEW ages \in Seq(Nat), NEW limit \in Nat
    PROVE  NotOlder(ages, limit) \in Seq(0 .. limit) /\ Len(NotOlder(ages, limit)) <= Len(ages)
<1>1. PICK p : KeepsPrefixes(p, ages, limit) /\ NotOlder(ages, limit) = p[Len(ages)]
  BY NotOlderByPrefixes
<1> DEFINE Right(k) == p[k] \in Seq(0 .. limit) /\ Len(p[k]) <= k
           Wrong == {k \in 0 .. Len(ages) : ~Right(k)}
<1>2. Len(ages) \in Nat
  OBVIOUS
<1>3. ASSUME NEW k \in Wrong, \A m \in Wrong : k <= m PROVE FALSE
  <2>1. k # 0
    <3>1. p[0] = <<>>
      BY <1>1 DEF KeepsPrefixes
    <3>2. Right(0)
      BY <3>1
    <3> QED
      BY <1>3, <3>2
  <2>2. Right(k - 1) /\ k \in 1 .. Len(ages)
    BY <1>2, <1>3, <2>1
  <2>3. p[k] = With(p[k - 1], ages[k], limit) /\ ages[k] \in Nat
    BY <1>1, <2>2 DEF KeepsPrefixes
  <2>4. p[k - 1] \in Seq(0 .. limit) /\ Len(p[k - 1]) <= k - 1 /\ k \in Nat
    BY <1>2, <2>2
  <2>5. p[k] \in Seq(0 .. limit) /\ Len(p[k]) <= k
    BY <2>3, <2>4, WithType
  <2>6. Right(k)
    BY <2>5
  <2> QED
    BY <1>3, <2>6
<1>4. Wrong = {}
  <2>1. Wrong \in SUBSET Nat
    BY <1>2
  <2> HIDE DEF Wrong
  <2> QED
    BY <1>3, <2>1, LeastNumber
<1>5. Right(Len(ages))
  BY <1>2, <1>4
<1> QED
  BY <1>1, <1>5

\* If none is older, all are kept.
LEMMA NotOlderAll ==
    ASSUME NEW limit \in Nat, NEW ages \in Seq(0 .. limit)
    PROVE  NotOlder(ages, limit) = ages
<1> DEFINE p == [k \in 0 .. Len(ages) |-> [i \in 1 .. k |-> ages[i]]]
<1>1. ages \in Seq(Nat) /\ Len(ages) \in Nat
  OBVIOUS
<1>2. p[0] = <<>>
  OBVIOUS
<1>3. ASSUME NEW k \in 1 .. Len(ages)
      PROVE  p[k] = With(p[k - 1], ages[k], limit)
  <2>1. ages[k] <= limit
    OBVIOUS
  <2>2. p[k] = Append(p[k - 1], ages[k])
    OBVIOUS
  <2> QED
    BY <2>1, <2>2 DEF With
<1>4. NotOlder(ages, limit) = p[Len(ages)]
  <2>1. KeepsPrefixes(p, ages, limit)
    BY <1>2, <1>3 DEF KeepsPrefixes
  <2> HIDE DEF p
  <2> QED
    BY <1>1, <2>1, NotOlderIs
<1>5. p[Len(ages)] = ages
  BY <1>1
<1> QED
  BY <1>4, <1>5

\* What comes last is looked at last.
LEMMA NotOlderAppend ==
    ASSUME NEW ages \in Seq(Nat), NEW age \in Nat, NEW limit \in Nat
    PROVE  NotOlder(Append(ages, age), limit) = With(NotOlder(ages, limit), age, limit)
<1>1. PICK p : KeepsPrefixes(p, ages, limit) /\ NotOlder(ages, limit) = p[Len(ages)]
  BY NotOlderByPrefixes
<1> DEFINE n == Len(ages)
           more == Append(ages, age)
           q == [k \in 0 .. n + 1 |-> IF k <= n THEN p[k] ELSE With(p[n], age, limit)]
<1>2. n \in Nat /\ more \in Seq(Nat) /\ Len(more) = n + 1 /\ more[n + 1] = age
  OBVIOUS
<1>3. \A k \in 1 .. n : more[k] = ages[k]
  OBVIOUS
<1> HIDE DEF n, more
<1>4. q[0] = <<>>
  BY <1>1, <1>2 DEF KeepsPrefixes
<1>5. ASSUME NEW k \in 1 .. n + 1
      PROVE  q[k] = With(q[k - 1], more[k], limit)
  <2>1. CASE k = n + 1
    BY <1>2, <2>1
  <2>2. CASE k # n + 1
    <3>1. k \in 1 .. n /\ q[k] = p[k] /\ q[k - 1] = p[k - 1]
      BY <1>2, <2>2
    <3>2. p[k] = With(p[k - 1], ages[k], limit)
      BY <1>1, <3>1 DEF KeepsPrefixes, n
    <3> QED
      BY <1>3, <3>1, <3>2
  <2> QED
    BY <2>1, <2>2
<1>6. NotOlder(more, limit) = q[n + 1]
  <2>1. KeepsPrefixes(q, more, limit)
    BY <1>2, <1>4, <1>5 DEF KeepsPrefixes
  <2> HIDE DEF q
  <2> QED
    BY <1>2, <2>1, NotOlderIs
<1>7. q[n + 1] = With(p[n], age, limit)
  BY <1>2
<1> QED
  BY <1>1, <1>6, <1>7 DEF n, more

\* Time passes for a list of ages.
Later(ages) == [i \in DOMAIN ages |-> ages[i] + 1]

LEMMA LaterAppend ==
    ASSUME NEW ages \in Seq(Nat), NEW age \in Nat
    PROVE  /\ Later(ages) \in Seq(Nat) /\ Len(Later(ages)) = Len(ages)
           /\ Later(Append(ages, age)) = Append(Later(ages), age + 1)
  BY DEF Later

\* Whether the old ones are dropped before time passes or, not counted on, after it.
LEMMA OlderIsForgotten ==
    ASSUME NEW ages \in Seq(Nat)
    PROVE  Recent([i \in DOMAIN ages |-> Older(ages[i])]) = Recent(Later(Recent(ages)))
<1>1. PICK p : KeepsPrefixes(p, ages, Window) /\ Recent(ages) = p[Len(ages)]
  BY NotOlderByPrefixes DEF Recent
<1> DEFINE n == Len(ages)
           old == [i \in DOMAIN ages |-> Older(ages[i])]
           q == [k \in 0 .. n |-> Recent(Later(p[k]))]
           Right(k) == p[k] \in Seq(Nat)
           Wrong == {k \in 0 .. n : ~Right(k)}
<1>2. n \in Nat /\ DOMAIN ages = 1 .. n /\ \A k \in 1 .. n : ages[k] \in Nat
  OBVIOUS
<1>3. old \in Seq(Nat) /\ Len(old) = n /\ \A k \in 1 .. n : old[k] = Older(ages[k])
  BY DEF Older
<1> HIDE DEF n, old
<1>4. ASSUME NEW k \in Wrong, \A m \in Wrong : k <= m PROVE FALSE
  <2>1. k # 0
    <3>1. p[0] = <<>>
      BY <1>1 DEF KeepsPrefixes
    <3>2. Right(0)
      BY <3>1
    <3> QED
      BY <1>4, <3>2
  <2>2. Right(k - 1) /\ k \in 1 .. n
    BY <1>2, <1>4, <2>1
  <2>3. p[k] = With(p[k - 1], ages[k], Window) /\ ages[k] \in Nat
    BY <1>1, <1>2, <2>2 DEF KeepsPrefixes, n
  <2>4. Right(k)
    BY <2>2, <2>3 DEF With
  <2> QED
    BY <1>4, <2>4
<1>5. \A k \in 0 .. n : p[k] \in Seq(Nat)
  <2>1. Wrong = {}
    <3>1. Wrong \in SUBSET Nat
      BY <1>2
    <3> HIDE DEF Wrong
    <3> QED
      BY <1>4, <3>1, LeastNumber
  <2> QED
    BY <2>1
<1>6. q[0] = <<>>
  <2>1. p[0] = <<>> /\ Later(<<>>) = <<>> /\ q[0] = Recent(Later(p[0]))
    BY <1>1, <1>2 DEF KeepsPrefixes, Later
  <2>2. <<>> \in Seq(0 .. Window)
    OBVIOUS
  <2>3. Recent(<<>>) = <<>>
    BY <2>2, NotOlderAll DEF Recent
  <2> QED
    BY <2>1, <2>3
<1>7. ASSUME NEW k \in 1 .. n
      PROVE  q[k] = With(q[k - 1], old[k], Window)
  <2>1. k \in 0 .. n /\ k - 1 \in 0 .. n /\ p[k - 1] \in Seq(Nat) /\ ages[k] \in Nat
    BY <1>2, <1>5
  <2>2. p[k] = With(p[k - 1], ages[k], Window)
    BY <1>1 DEF KeepsPrefixes, n
  <2>3. q[k] = Recent(Later(p[k])) /\ q[k - 1] = Recent(Later(p[k - 1])) /\ old[k] = Older(ages[k])
    BY <1>3, <2>1
  <2>4. CASE ages[k] <= Window
    <3>1. Later(p[k]) = Append(Later(p[k - 1]), ages[k] + 1) /\ Later(p[k - 1]) \in Seq(Nat)
      BY <2>1, <2>2, <2>4, LaterAppend DEF With
    <3>2. Recent(Later(p[k])) = With(Recent(Later(p[k - 1])), ages[k] + 1, Window)
      BY <2>1, <3>1, NotOlderAppend DEF Recent
    <3>3. old[k] = ages[k] + 1
      BY <2>1, <2>3, <2>4 DEF Older
    <3> QED
      BY <2>3, <3>2, <3>3
  <2>5. CASE ages[k] > Window
    <3>1. p[k] = p[k - 1]
      BY <2>1, <2>2, <2>5 DEF With
    <3>2. old[k] = ages[k]
      BY <2>3, <2>5 DEF Older
    <3> QED
      BY <2>1, <2>3, <2>5, <3>1, <3>2 DEF With
  <2> QED
    BY <2>1, <2>4, <2>5
<1>8. Recent(old) = q[n]
  <2>1. KeepsPrefixes(q, old, Window)
    BY <1>3, <1>6, <1>7 DEF KeepsPrefixes
  <2> HIDE DEF q
  <2> QED
    BY <1>3, <2>1, NotOlderIs DEF Recent
<1> QED
  BY <1>1, <1>2, <1>8 DEF n, old

-----------------------------------------------------------------------------
(* The limiter: the requests let in during the last minute are those of the *)
(* bucket that are not older, however late the bucket is cleaned.           *)

LimiterInv ==
    /\ buckets \in [Keys -> Seq(0 .. Window + 1)]
    /\ admitted \in [Keys -> Seq(0 .. Window)]
    /\ \A k \in Keys : admitted[k] = Recent(buckets[k]) /\ Len(admitted[k]) <= Limit

\* Cleaning a bucket leaves it a bucket and, done again, changes nothing.
LEMMA RecentType ==
    ASSUME NEW bucket \in Seq(Nat)
    PROVE  /\ Recent(bucket) \in Seq(0 .. Window)
           /\ Recent(bucket) \in Seq(Nat) /\ Recent(bucket) \in Seq(0 .. Window + 1)
           /\ Len(Recent(bucket)) <= Len(bucket)
           /\ Recent(Recent(bucket)) = Recent(bucket)
<1>1. Recent(bucket) \in Seq(0 .. Window) /\ Len(Recent(bucket)) <= Len(bucket)
  BY NotOlderType DEF Recent
<1>2. Recent(Recent(bucket)) = Recent(bucket)
  BY <1>1, NotOlderAll DEF Recent
<1> QED
  BY <1>1, <1>2

\* A request that comes now is counted.
LEMMA RecentWithNow ==
    ASSUME NEW bucket \in Seq(Nat)
    PROVE  Recent(Append(Recent(bucket), 0)) = Append(Recent(bucket), 0)
<1>1. Recent(bucket) \in Seq(Nat) /\ Recent(Recent(bucket)) = Recent(bucket)
  BY RecentType
<1>2. Recent(Append(Recent(bucket), 0)) = With(Recent(Recent(bucket)), 0, Window)
  BY <1>1, NotOlderAppend DEF Recent
<1> QED
  BY <1>1, <1>2 DEF With

LEMMA LimiterRefuse ==
    ASSUME LimiterInv, NEW key \in Keys, Refuse(key)
    PROVE  LimiterInv'
<1>1. buckets[key] \in Seq(Nat)
  BY DEF LimiterInv
<1>2. buckets' = [buckets EXCEPT ![key] = Recent(buckets[key])] /\ admitted' = admitted
  BY DEF Refuse
<1>3. Recent(buckets[key]) \in Seq(0 .. Window + 1)
      /\ Recent(Recent(buckets[key])) = Recent(buckets[key])
  BY <1>1, RecentType
<1>4. buckets' \in [Keys -> Seq(0 .. Window + 1)]
  BY <1>2, <1>3 DEF LimiterInv
<1>5. \A k \in Keys : Recent(buckets'[k]) = Recent(buckets[k])
  BY <1>2, <1>3 DEF LimiterInv
<1> QED
  BY <1>2, <1>4, <1>5 DEF LimiterInv

LEMMA LimiterAdmit ==
    ASSUME LimiterInv, NEW h \in Handlers, NEW key \in Keys, Admit(h, key)
    PROVE  LimiterInv'
<1> DEFINE b == Recent(buckets[key])
<1>1. buckets[key] \in Seq(Nat) /\ admitted[key] = b
  BY DEF LimiterInv
<1>2. /\ buckets' = [buckets EXCEPT ![key] = Append(b, 0)]
      /\ admitted' = [admitted EXCEPT ![key] = Append(b, 0)]
      /\ Len(b) < Limit
  BY <1>1 DEF Admit
<1>3. b \in Seq(0 .. Window) /\ Recent(Append(b, 0)) = Append(b, 0)
  BY <1>1, RecentType, RecentWithNow
<1> HIDE DEF b
<1>4. /\ Append(b, 0) \in Seq(0 .. Window) /\ Append(b, 0) \in Seq(0 .. Window + 1)
      /\ Len(Append(b, 0)) <= Limit
  BY <1>2, <1>3
<1>5. /\ buckets' \in [Keys -> Seq(0 .. Window + 1)]
      /\ admitted' \in [Keys -> Seq(0 .. Window)]
  BY <1>2, <1>4 DEF LimiterInv
<1>6. ASSUME NEW k \in Keys
      PROVE  admitted'[k] = Recent(buckets'[k]) /\ Len(admitted'[k]) <= Limit
  <2>1. CASE k = key
    <3>1. buckets'[k] = Append(b, 0) /\ admitted'[k] = Append(b, 0)
      BY <1>2, <2>1 DEF LimiterInv
    <3> QED
      BY <1>3, <1>4, <3>1
  <2>2. CASE k # key
    <3>1. buckets'[k] = buckets[k] /\ admitted'[k] = admitted[k]
      BY <1>2, <2>2 DEF LimiterInv
    <3> QED
      BY <3>1 DEF LimiterInv
  <2> QED
    BY <2>1, <2>2
<1> QED
  BY <1>5, <1>6 DEF LimiterInv

\* Ages stay within the bound.
LEMMA OlderType ==
    ASSUME NEW ages \in Seq(0 .. Window + 1)
    PROVE  [i \in DOMAIN ages |-> Older(ages[i])] \in Seq(0 .. Window + 1)
<1> DEFINE old == [i \in 1 .. Len(ages) |-> Older(ages[i])]
<1>1. Len(ages) \in Nat /\ DOMAIN ages = 1 .. Len(ages)
  OBVIOUS
<1>2. \A i \in 1 .. Len(ages) : ages[i] \in 0 .. Window + 1
  OBVIOUS
<1>3. \A i \in 1 .. Len(ages) : Older(ages[i]) \in 0 .. Window + 1
  BY <1>2 DEF Older
<1>4. old \in [1 .. Len(ages) -> 0 .. Window + 1]
  BY <1>3
<1>5. old \in Seq(0 .. Window + 1)
  BY <1>1, <1>4
<1> QED
  BY <1>1, <1>5

LEMMA LimiterTick ==
    ASSUME LimiterInv, Tick
    PROVE  LimiterInv'
<1>1. ASSUME NEW k \in Keys
      PROVE  /\ buckets'[k] \in Seq(0 .. Window + 1)
             /\ admitted'[k] = Recent(buckets'[k])
             /\ admitted'[k] \in Seq(0 .. Window)
             /\ Len(admitted'[k]) <= Limit
  <2> DEFINE b == buckets[k]
             a == admitted[k]
  <2>1. /\ b \in Seq(0 .. Window + 1) /\ b \in Seq(Nat)
        /\ a = Recent(b) /\ a \in Seq(Nat) /\ Len(a) <= Limit /\ Len(a) \in Nat
    BY DEF LimiterInv
  <2>2. buckets'[k] = [i \in DOMAIN b |-> Older(b[i])]
    BY DEF Tick
  <2>3. admitted'[k] = Recent(Later(a))
    BY DEF Tick, Recent, Later
  <2> HIDE DEF a, b
  <2>4. [i \in DOMAIN b |-> Older(b[i])] \in Seq(0 .. Window + 1)
    BY <2>1, OlderType
  <2>5. Recent([i \in DOMAIN b |-> Older(b[i])]) = Recent(Later(a))
    BY <2>1, OlderIsForgotten
  <2>6. Later(a) \in Seq(Nat) /\ Len(Later(a)) = Len(a)
    BY <2>1 DEF Later
  <2>7. Recent(Later(a)) \in Seq(0 .. Window) /\ Len(Recent(Later(a))) <= Len(a)
    BY <2>6, RecentType
  <2>8. Len(Recent(Later(a))) <= Limit
    <3>1. Len(Recent(Later(a))) \in Nat
      BY <2>7
    <3> QED
      BY <2>1, <2>7, <3>1
  <2> QED
    BY <2>2, <2>3, <2>4, <2>5, <2>7, <2>8
<1>2. DOMAIN buckets' = Keys /\ buckets' = [k \in Keys |-> buckets'[k]]
  BY DEF Tick
<1>3. DOMAIN admitted' = Keys /\ admitted' = [k \in Keys |-> admitted'[k]]
  BY DEF Tick
<1> QED
  BY <1>1, <1>2, <1>3 DEF LimiterInv

LEMMA LimiterEmpty ==
    ASSUME buckets' = [k \in Keys |-> <<>>], admitted' = [k \in Keys |-> <<>>]
    PROVE  LimiterInv'
<1>1. Recent(<<>>) = <<>>
  <2>1. <<>> \in Seq(0 .. Window)
    OBVIOUS
  <2> QED
    BY <2>1, NotOlderAll DEF Recent
<1> QED
  BY <1>1 DEF LimiterInv

LEMMA LimiterSame ==
    ASSUME LimiterInv, UNCHANGED limiterVars
    PROVE  LimiterInv'
  BY DEF LimiterInv, limiterVars

LEMMA LimiterInvInit == Init => LimiterInv
<1>1. Recent(<<>>) = <<>>
  <2>1. <<>> \in Seq(0 .. Window)
    OBVIOUS
  <2> QED
    BY <2>1, NotOlderAll DEF Recent
<1> QED
  BY <1>1 DEF Init, LimiterInv

LEMMA LimiterInvStep == LimiterInv /\ [Next]_intakeVars => LimiterInv'
<1> SUFFICES ASSUME LimiterInv, [Next]_intakeVars
             PROVE  LimiterInv'
  OBVIOUS
<1>1. ASSUME NEW h \in Handlers, GenerationStep(h)
      PROVE  LimiterInv'
  <2>1. ASSUME BadBody(h) \/ StoreImage(h) \/ HandOver(h)
        PROVE  LimiterInv'
    BY <2>1, LimiterSame DEF BadBody, StoreImage, HandOver
  <2>2. ASSUME NEW override \in Values \cup {None}, NEW input \in {"none", "data"},
               Resolve(h, override, input)
        PROVE  LimiterInv'
    BY <2>2, LimiterSame DEF Resolve
  <2> QED
    BY <1>1, <2>1, <2>2, LimiterAdmit DEF GenerationStep
<1>2. ASSUME NEW h \in Handlers, VideoStep(h)
      PROVE  LimiterInv'
  BY <1>2, LimiterSame DEF VideoStep, AskForVideo, AskNext, NobodyLeft, VideoEnds
<1>3. ASSUME NEW key \in Keys, Refuse(key)
      PROVE  LimiterInv'
  BY <1>3, LimiterRefuse
<1>4. CASE Tick
  BY <1>4, LimiterTick
<1>5. ASSUME NEW payload \in Payload, Patch(payload) \/ PatchFails(payload)
      PROVE  LimiterInv'
  BY <1>5, LimiterSame DEF Patch, PatchFails
<1>6. ASSUME Stops
      PROVE  LimiterInv'
  BY <1>6, LimiterEmpty DEF Stops
<1>7. CASE Restart \/ Redeploy
  BY <1>7, LimiterSame DEF Restart, Redeploy
<1>8. CASE UNCHANGED intakeVars
  BY <1>8, LimiterSame DEF intakeVars
<1> QED
  BY <1>1, <1>2, <1>3, <1>4, <1>5, <1>6, <1>7, <1>8 DEF Next, PatchStep, CrashInPatch, Crash

LEMMA LimiterInvAlways == Spec => []LimiterInv
  BY LimiterInvInit, LimiterInvStep, PTL DEF Spec

\* No client gets more than the limit on a path into any minute, though the
\* limiter looks at a bucket only when a request for it comes.
THEOREM WindowsAreLimited == Spec => []WindowLimit
<1>1. LimiterInv => WindowLimit
  BY DEF LimiterInv, WindowLimit
<1> QED
  BY <1>1, LimiterInvAlways, PTL

\* Who is refused has had the limit let in during the last minute.
THEOREM RefusalsAreDue == Spec => RefusedOnlyWhenFull
<1>1. LimiterInv /\ [Next]_intakeVars
          => [\A k \in Keys : Refuse(k) => Len(admitted[k]) = Limit]_intakeVars
  <2> SUFFICES ASSUME LimiterInv, NEW k \in Keys, Refuse(k)
               PROVE  Len(admitted[k]) = Limit
    OBVIOUS
  <2>1. Len(admitted[k]) >= Limit /\ Len(admitted[k]) <= Limit
    BY DEF LimiterInv, Refuse
  <2>2. Len(admitted[k]) \in Nat
    BY DEF LimiterInv
  <2> QED
    BY <2>1, <2>2
<1> QED
  BY <1>1, LimiterInvAlways, PTL DEF Spec, RefusedOnlyWhenFull

-----------------------------------------------------------------------------
(* Types.                                                                  *)

FileInv ==
    /\ file \in Settings \cup {NoYaml, NoSettings}
    /\ promised \in Settings \cup {None}

\* What is left of settings that were being written is one of the files.
LEMMA CutType ==
    ASSUME NEW settings \in Settings
    PROVE  Cut(settings) \subseteq Settings \cup {NoYaml, NoSettings}
  BY DEF Cut, Settings

LEMMA FileInvStep ==
    ASSUME IntakeInv, FileInv, [Next]_intakeVars
    PROVE  FileInv'
<1>1. ASSUME UNCHANGED <<file, promised>>
      PROVE  FileInv'
  BY <1>1 DEF FileInv
<1>2. ASSUME NEW h \in Handlers, GenerationStep(h) \/ VideoStep(h)
      PROVE  FileInv'
  BY <1>2, <1>1 DEF GenerationStep, VideoStep, Admit, BadBody, StoreImage, HandOver, Resolve,
                    AskForVideo, AskNext, NobodyLeft, VideoEnds, settingsVars
<1>3. ASSUME NEW payload \in Payload, Patch(payload) \/ PatchFails(payload) \/ CrashInPatch(payload)
      PROVE  FileInv'
  <2>1. /\ Patched(payload) \in Settings
        /\ Cut(Patched(payload)) \subseteq Settings \cup {NoYaml, NoSettings}
    BY PatchedIsSettings, CutType
  <2> QED
    BY <1>3, <2>1 DEF Patch, PatchFails, CrashInPatch, FileInv
<1>4. CASE Redeploy
  BY <1>4 DEF Redeploy, FileInv, Shipped, Settings
<1>5. CASE (\E k \in Keys : Refuse(k)) \/ Tick \/ Crash \/ Restart \/ UNCHANGED intakeVars
  BY <1>5, <1>1 DEF Refuse, Tick, Crash, Restart, settingsVars, intakeVars
<1> QED
  BY <1>2, <1>3, <1>4, <1>5 DEF Next, PatchStep

\* Every variable keeps its type.
THEOREM IntakeTypeCorrect == Spec => []TypeOK
<1>1. Init => FileInv
  BY DEF Init, FileInv, Shipped, Settings
<1>2. IntakeInv /\ FileInv /\ [Next]_intakeVars => FileInv'
  BY FileInvStep
<1>3. IntakeInv /\ LimiterInv /\ FileInv => TypeOK
  BY DEF IntakeInv, LimiterInv, FileInv, TypeOK
<1> QED
  BY <1>1, <1>2, <1>3, IntakeInvAlways, LimiterInvAlways, PTL DEF Spec

=============================================================================
