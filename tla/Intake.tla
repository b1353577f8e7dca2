-------------------------------- MODULE Intake --------------------------------
(***************************************************************************)
(* What a request meets before the queue (orchestrator/api/main.py): the   *)
(* middleware with its rate limiter, the flow settings a job is built with *)
(* (flow_config/manager.py), which PATCH /flow-settings changes in memory  *)
(* and in the YAML file, and the upload of an input image (storage/r2.py). *)
(* Beside them the media proxy, which asks the workers for a video.        *)
(* Module Orchestrator has what follows, from GlobalQueue.enqueue on.      *)
(*                                                                         *)
(* Of each settings section one key is followed: a PATCH, an override, a   *)
(* dump and a load do what they do key by key.  Times are ages: how long   *)
(* ago, in units of which the limiter's minute has Window.                 *)
(***************************************************************************)
EXTENDS Naturals, Sequences, SequencesExt

CONSTANTS
    Types,         \* generation types: a section of the settings and a path each
    Clients,       \* hosts that requests come from
    Values,        \* of the key that is followed
    Default,       \* what it is if the file does not say
    None,          \* no value
    NoYaml,        \* a file that is no YAML mapping
    NoSettings,    \* one that is, in which a section lacks what it must have
    Handlers,      \* requests in progress at once
    Limit,         \* security.rate_limit_per_minute
    Window,        \* a minute
    NumWorkers,    \* registered workers, in the order of their ids
    IntakeEvents   \* what goes wrong: object "storage", the "disk", a "crash"

Settings == [Types -> Values]

ASSUME IntakeAssumption ==
    /\ Default \in Values
    /\ None \notin Values
    /\ {None, NoYaml, NoSettings} \cap Settings = {}
    /\ NoYaml # NoSettings
    /\ Limit \in Nat \ {0}
    /\ Window \in Nat
    /\ NumWorkers \in Nat
    /\ IntakeEvents \subseteq {"storage", "disk", "crash"}

VARIABLES
    up,        \* the process runs
    flow,      \* FlowConfigManager._settings
    file,      \* the settings the YAML file has, or what it has instead
    buckets,   \* _rate_buckets: the ages of what it holds, for each client and path
    req,       \* the requests in progress
    admitted,  \* history: the ages of the requests let in during the last minute
    promised   \* history: the settings the last PATCH answered with, None once a
               \* later one failed or the file was replaced

settingsVars == <<flow, file, promised>>

limiterVars == <<buckets, admitted>>

intakeVars == <<up, settingsVars, limiterVars, req>>

-----------------------------------------------------------------------------
Keys == Clients \X Types

\* The file of the repository says what the defaults say.
Shipped == [t \in Types |-> Default]

\* What a write that did not come to its end leaves: the beginning of the text.
\* It may be no YAML, or lack what the section it ends in must have.  Else the
\* sections before that one are whole and those behind it are read as defaults;
\* in the torn one the key is missing or its value cut short: it may say anything.
Cut(settings) ==
    {NoYaml, NoSettings} \cup
    {[t \in Types |-> IF t \in kept THEN settings[t] ELSE IF t = torn THEN value ELSE Default] :
        kept \in SUBSET Types, torn \in Types, value \in Values}

Idle == [at |-> "idle"]

\* What an enabled worker does with a request for a video: it answers 200 or 206,
\* 404, or something else (416 and 5xx among it), or it does not answer.
Copy == {"serves", "lacks", "errors", "down"}

\* A generation request: let in; its image being stored; its job being queued.
\* settings, input and stored come with Resolve.
Generation ==
    [at : {"admitted"}, type : Types, due : SUBSET Values]
        \cup [at : {"image", "enqueue"}, type : Types, due : SUBSET Values,
              override : Values \cup {None}, settings : Values,
              input : {"none", "data", "link"}, stored : BOOLEAN]

\* A request for a video: how many workers have been asked, the last status.
Video ==
    [at : {"video", "answered"}, copies : UNION {[1 .. n -> Copy] : n \in 0 .. NumWorkers},
     asked : 0 .. NumWorkers, status : {0, 200, 404, 500, 502}]

Request == {Idle} \cup Generation \cup Video

-----------------------------------------------------------------------------
(* rate_limit, called by the middleware for a request with the right key.  *)

\* The ages of at most limit, in their order.
NotOlder(ages, limit) ==
    FoldLeft(LAMBDA kept, age : IF age <= limit THEN Append(kept, age) ELSE kept, <<>>, ages)

\* Mutation of Recent: entries of exactly a minute ago are left out.
RecentOpen(bucket) == NotOlder(bucket, Window - 1)

\* The entries with item >= window_start.
Recent(bucket) == NotOlder(bucket, Window)

\* Mutation of Refuse: what is refused counts.
RefuseCounting(key) ==
    /\ up
    /\ Len(Recent(buckets[key])) >= Limit
    /\ buckets' = [buckets EXCEPT ![key] = Append(Recent(@), 0)]
    /\ UNCHANGED <<up, settingsVars, admitted, req>>

\* 429.
Refuse(key) ==
    /\ up
    /\ Len(Recent(buckets[key])) >= Limit
    /\ buckets' = [buckets EXCEPT ![key] = Recent(@)]
    /\ UNCHANGED <<up, settingsVars, admitted, req>>

\* The value that a client may count on: what was promised last
\* or, after a failure or a new file, what is in force.
InForce(t) == IF promised = None THEN flow[t] ELSE promised[t]

Admit(h, key) ==
    /\ up
    /\ req[h] = Idle
    /\ Len(Recent(buckets[key])) < Limit
    /\ buckets' = [buckets EXCEPT ![key] = Append(Recent(@), 0)]
    /\ admitted' = [admitted EXCEPT ![key] = Append(@, 0)]
    /\ req' = [req EXCEPT ![h] = [at |-> "admitted", type |-> key[2], due |-> {InForce(key[2])}]]
    /\ UNCHANGED <<up, settingsVars>>

\* Mutation of Older: without the bound.
OlderForever(age) == age + 1

\* Time passes.  Ages beyond the minute are all alike.
Older(age) == IF age > Window THEN age ELSE age + 1

Tick ==
    /\ up
    /\ buckets' = [k \in Keys |-> [i \in DOMAIN buckets[k] |-> Older(buckets[k][i])]]
    /\ admitted' = [k \in Keys |->
                     NotOlder([i \in DOMAIN admitted[k] |-> admitted[k][i] + 1], Window)]
    /\ UNCHANGED <<up, settingsVars, req>>

-----------------------------------------------------------------------------
(* enqueue_generation up to the queue.                                     *)

\* The body of the request is not valid: 422.
BadBody(h) ==
    /\ req[h].at = "admitted"
    /\ req' = [req EXCEPT ![h] = Idle]
    /\ UNCHANGED <<up, settingsVars, limiterVars>>

\* Mutation of Resolve: the override is put into the settings in force.
ResolveShared(h, override, input) ==
    /\ req[h].at = "admitted"
    /\ flow' = IF override = None THEN flow ELSE [flow EXCEPT ![req[h].type] = override]
    /\ req' = [req EXCEPT ![h] =
                  [at |-> IF input = "data" THEN "image" ELSE "enqueue",
                   type |-> @.type, due |-> @.due, override |-> override,
                   settings |-> flow'[@.type], input |-> input, stored |-> FALSE]]
    /\ UNCHANGED <<up, file, promised, limiterVars>>

\* Mutation of Resolve: the settings are the defaults, whatever is in force.
ResolveDefaults(h, override, input) ==
    /\ req[h].at = "admitted"
    /\ req' = [req EXCEPT ![h] =
                  [at |-> IF input = "data" THEN "image" ELSE "enqueue",
                   type |-> @.type, due |-> @.due, override |-> override,
                   settings |-> IF override = None THEN Default ELSE override,
                   input |-> input, stored |-> FALSE]]
    /\ UNCHANGED <<up, settingsVars, limiterVars>>

\* resolve: a copy of what is in force, with the override of the request, if it
\* names the key, on top.  An image that comes as data has to be stored.
Resolve(h, override, input) ==
    /\ req[h].at = "admitted"
    /\ req' = [req EXCEPT ![h] =
                  [at |-> IF input = "data" THEN "image" ELSE "enqueue",
                   type |-> @.type, due |-> @.due, override |-> override,
                   settings |-> IF override = None THEN flow[@.type] ELSE override,
                   input |-> input, stored |-> FALSE]]
    /\ UNCHANGED <<up, settingsVars, limiterVars>>

\* externalize_image_inputs: the link takes the place of the data.
Externalized(r) == [r EXCEPT !.at = "enqueue", !.input = "link", !.stored = TRUE]

\* Mutation of StoreImage: an upload that fails is passed over.
StoreImageOrNot(h) ==
    /\ req[h].at = "image"
    /\ \/ req' = [req EXCEPT ![h] = Externalized(@)]
       \/ /\ "storage" \in IntakeEvents
          /\ req' = [req EXCEPT ![h] = [Externalized(@) EXCEPT !.stored = FALSE]]
    /\ UNCHANGED <<up, settingsVars, limiterVars>>

\* store_data_url.  If the upload raises, the data are no image or no storage
\* is configured, the request ends with 500; an object may be left that nobody
\* names.
StoreImage(h) ==
    /\ req[h].at = "image"
    /\ \/ req' = [req EXCEPT ![h] = Externalized(@)]
       \/ "storage" \in IntakeEvents /\ req' = [req EXCEPT ![h] = Idle]
    /\ UNCHANGED <<up, settingsVars, limiterVars>>

\* The job is built and handed to GlobalQueue.enqueue.
HandOver(h) ==
    /\ req[h].at = "enqueue"
    /\ req' = [req EXCEPT ![h] = Idle]
    /\ UNCHANGED <<up, settingsVars, limiterVars>>

-----------------------------------------------------------------------------
(* PATCH /flow-settings: no await, so nothing comes between its steps but  *)
(* the end of the process.  A payload with an unknown section or a bad     *)
(* value is answered 400 before anything changes and is not a step.        *)

Payload == UNION {[S -> Values] : S \in SUBSET Types \ {{}}}

\* What a request that is not resolved yet may find, now that settings change.
Witnessed(new) ==
    [h \in Handlers |-> IF req[h].at = "admitted"
                        THEN [req[h] EXCEPT !.due = @ \cup {new[req[h].type]}] ELSE req[h]]

\* The settings in force with the payload on top.
Patched(payload) ==
    [t \in Types |-> IF t \in DOMAIN payload THEN payload[t] ELSE flow[t]]

\* 200.
Patch(payload) ==
    /\ up
    /\ file # NoYaml
    /\ flow' = Patched(payload)
    /\ file' = flow'
    /\ promised' = flow'
    /\ req' = Witnessed(flow')
    /\ UNCHANGED <<up, limiterVars>>

\* The file cannot be read, opened or written to its end: 500, and the new
\* settings are in force.
PatchFails(payload) ==
    /\ up
    /\ flow' = Patched(payload)
    /\ \/ file = NoYaml /\ UNCHANGED file
       \/ /\ file # NoYaml
          /\ "disk" \in IntakeEvents
          /\ file' \in {file} \cup Cut(flow')
    /\ promised' = None
    /\ req' = Witnessed(flow')
    /\ UNCHANGED <<up, limiterVars>>

-----------------------------------------------------------------------------
(* GET /media/videos: the enabled workers are asked one after the other.   *)

AskForVideo(h, copies) ==
    /\ up
    /\ req[h] = Idle
    /\ req' = [req EXCEPT ![h] = [at |-> "video", copies |-> copies, asked |-> 0, status |-> 0]]
    /\ UNCHANGED <<up, settingsVars, limiterVars>>

\* Request r when its search goes on or ends, after so many workers and with
\* this status.
Searched(r, at, asked, status) ==
    [at |-> at, copies |-> r.copies, asked |-> asked, status |-> status]

Search(h, at, asked, status) ==
    req' = [req EXCEPT ![h] = Searched(@, at, asked, status)]

\* Mutation of AskNext: an error status ends the search.
AskNextOrStop(h) ==
    LET n == req[h].asked + 1
    IN  /\ req[h].at = "video"
        /\ n \in DOMAIN req[h].copies
        /\ \/ req[h].copies[n] = "serves" /\ Search(h, "answered", n, 200)
           \/ req[h].copies[n] = "lacks"  /\ Search(h, "video", n, 404)
           \/ req[h].copies[n] = "errors" /\ Search(h, "answered", n, 502)
           \/ req[h].copies[n] = "down"   /\ Search(h, "answered", n, 500)
        /\ UNCHANGED <<up, settingsVars, limiterVars>>

\* The next worker serves the video, has none or fails, or cannot be reached,
\* and nobody catches that.
AskNext(h) ==
    LET n == req[h].asked + 1
    IN  /\ req[h].at = "video"
        /\ n \in DOMAIN req[h].copies
        /\ \/ req[h].copies[n] = "serves" /\ Search(h, "answered", n, 200)
           \/ req[h].copies[n] = "lacks"  /\ Search(h, "video", n, 404)
           \/ req[h].copies[n] = "errors" /\ Search(h, "video", n, 500)
           \/ req[h].copies[n] = "down"   /\ Search(h, "answered", n, 500)
        /\ UNCHANGED <<up, settingsVars, limiterVars>>

NobodyLeft(h) ==
    /\ req[h].at = "video"
    /\ req[h].asked = Len(req[h].copies)
    /\ Search(h, "answered", req[h].asked, IF req[h].status \in {0, 404} THEN 404 ELSE 502)
    /\ UNCHANGED <<up, settingsVars, limiterVars>>

VideoEnds(h) ==
    /\ req[h].at = "answered"
    /\ req' = [req EXCEPT ![h] = Idle]
    /\ UNCHANGED <<up, settingsVars, limiterVars>>

-----------------------------------------------------------------------------
(* The process ends, perhaps while it writes the file, and is started      *)
(* again: the limiter is empty and the settings are those of the file.     *)

Stops ==
    /\ "crash" \in IntakeEvents
    /\ up
    /\ up' = FALSE
    /\ req' = [h \in Handlers |-> Idle]
    /\ buckets' = [k \in Keys |-> <<>>]
    /\ admitted' = [k \in Keys |-> <<>>]
    /\ UNCHANGED flow

Crash == Stops /\ UNCHANGED <<file, promised>>

CrashInPatch(payload) ==
    /\ Stops
    /\ file # NoYaml
    /\ file' \in Cut(Patched(payload))
    /\ promised' = None

\* load_settings; with a file without valid settings the process does not start.
Restart ==
    /\ ~up
    /\ file \in Settings
    /\ up' = TRUE
    /\ flow' = file
    /\ UNCHANGED <<file, promised, limiterVars, req>>

\* The file of the repository is put back.
Redeploy ==
    /\ ~up
    /\ file' = Shipped
    /\ promised' = None
    /\ UNCHANGED <<up, flow, limiterVars, req>>

-----------------------------------------------------------------------------
Init ==
    /\ up = TRUE
    /\ file = Shipped
    /\ flow = file
    /\ buckets = [k \in Keys |-> <<>>]
    /\ admitted = [k \in Keys |-> <<>>]
    /\ req = [h \in Handlers |-> Idle]
    /\ promised = None

GenerationStep(h) ==
    \/ \E k \in Keys : Admit(h, k)
    \/ BadBody(h) \/ StoreImage(h) \/ HandOver(h)
    \/ \E override \in Values \cup {None}, input \in {"none", "data"} :
          Resolve(h, override, input)

VideoStep(h) ==
    \/ \E n \in 0 .. NumWorkers : \E copies \in [1 .. n -> Copy] : AskForVideo(h, copies)
    \/ AskNext(h) \/ NobodyLeft(h) \/ VideoEnds(h)

PatchStep == \E p \in Payload : Patch(p) \/ PatchFails(p) \/ CrashInPatch(p)

Next ==
    \/ \E h \in Handlers : GenerationStep(h) \/ VideoStep(h)
    \/ \E k \in Keys : Refuse(k)
    \/ PatchStep \/ Tick
    \/ Crash \/ Restart \/ Redeploy

Spec == Init /\ [][Next]_intakeVars

-----------------------------------------------------------------------------
TypeOK ==
    /\ up \in BOOLEAN
    /\ flow \in Settings
    /\ file \in Settings \cup {NoYaml, NoSettings}
    /\ buckets \in [Keys -> Seq(0 .. Window + 1)]
    /\ admitted \in [Keys -> Seq(0 .. Window)]
    /\ req \in [Handlers -> Request]
    /\ promised \in Settings \cup {None}

\* Between two starts a client gets no more than Limit requests on a path into any
\* minute, both ends of it included, however its requests lie around the limiter's
\* window.
WindowLimit == \A k \in Keys : Len(admitted[k]) <= Limit

\* And it is refused only if it got as many: neither what was refused nor what
\* lies further back counts against it.
RefusedOnlyWhenFull ==
    [][\A k \in Keys : Refuse(k) => Len(admitted[k]) = Limit]_intakeVars

\* PATCH answered 200: until a later PATCH fails or the file is replaced, the
\* settings it answered with are in force and in the file, whatever requests
\* with overrides and restarts come in between.
AnsweredHolds ==
    promised # None =>
        /\ file = promised
        /\ up => flow = promised

\* A job is queued with the settings its own request asked for, or with ones
\* in force at some time since the request came in: none that a PATCH answered
\* before had replaced, and none another request asked for.
SettingsOfJob ==
    \A h \in Handlers : req[h].at = "enqueue" =>
        IF req[h].override = None THEN req[h].settings \in req[h].due
                                  ELSE req[h].settings = req[h].override

\* No image data get into the queue, and no link to an image that is not stored:
\* an upload that fails fails the request.
ImageIsStored ==
    \A h \in Handlers : req[h].at = "enqueue" =>
        /\ req[h].input # "data"
        /\ req[h].input = "link" => req[h].stored

\* Not found, by 404 or 502, is answered only when every enabled worker has answered
\* and none would serve the video: a worker without it, or one that answers with
\* an error, does not hide it on a later one.  One that answers with an error
\* (416 to a bad range, 5xx) may have the video all the same.
NotFoundIsTrue ==
    \A h \in Handlers : req[h].at = "answered" /\ req[h].status \in {404, 502} =>
        \A n \in DOMAIN req[h].copies : req[h].copies[n] \in {"lacks", "errors"}

=============================================================================
