----------------------------- MODULE JobLifecycle -----------------------------
(***************************************************************************)
(* What the orchestrator promises about one job: the states of JobState    *)
(* (orchestrator/queue/models.py) a job may go through and how many        *)
(* attempts it is given.  Here every change is one step and nothing fails; *)
(* the calls, the crashes and the interleavings of Orchestrator are        *)
(* invisible.                                                              *)
(***************************************************************************)
EXTENDS Naturals

CONSTANTS
    Jobs,        \* the jobs
    MaxRetries   \* how many failed attempts are forgiven, a natural number

VARIABLES
    state,    \* the state each job is in
    retries   \* how many of its attempts have failed

lifecycleVars == <<state, retries>>

Waiting == {"QUEUED", "RETRYING"}

InAttempt == {"ASSIGNED", "PROCESSING"}

Terminal == {"COMPLETED", "FAILED", "TIMEOUT"}

Init ==
    /\ state = [j \in Jobs |-> "ABSENT"]
    /\ retries = [j \in Jobs |-> 0]

Moves(j, from, to) ==
    /\ state[j] \in from
    /\ state' = [state EXCEPT ![j] = to]

\* The job enters the system.
Accept(j) == Moves(j, {"ABSENT"}, "QUEUED") /\ UNCHANGED retries

\* No worker had capacity for it.
Wait(j) == Moves(j, Waiting, "RETRYING") /\ UNCHANGED retries

\* A worker is chosen.
Assign(j) ==
    /\ retries[j] <= MaxRetries
    /\ Moves(j, Waiting, "ASSIGNED")
    /\ UNCHANGED retries

\* The worker accepts it.
Run(j) == Moves(j, {"ASSIGNED"}, "PROCESSING") /\ UNCHANGED retries

\* The attempt fails, perhaps after the worker had accepted the job.
AttemptFails(j) ==
    /\ retries[j] <= MaxRetries
    /\ retries' = [retries EXCEPT ![j] = @ + 1]
    /\ \/ Moves(j, {"ASSIGNED"}, "PROCESSING")
       \/ state[j] \in InAttempt /\ UNCHANGED state

\* A failed attempt is followed by another, or by the end of the job.
Retry(j) ==
    /\ retries[j] \in 1 .. MaxRetries
    /\ Moves(j, InAttempt, "RETRYING")
    /\ UNCHANGED retries

GiveUp(j) ==
    /\ retries[j] > MaxRetries
    /\ Moves(j, InAttempt, "FAILED")
    /\ UNCHANGED retries

\* A worker reports the end of a job it runs, or it is given up as stale.
End(j) == \E end \in Terminal : Moves(j, {"PROCESSING"}, end) /\ UNCHANGED retries

Next ==
    \E j \in Jobs :
        \/ Accept(j) \/ Wait(j) \/ Assign(j) \/ Run(j)
        \/ AttemptFails(j) \/ Retry(j) \/ GiveUp(j) \/ End(j)

Spec == Init /\ [][Next]_lifecycleVars

=============================================================================
