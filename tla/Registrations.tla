----------------------------- MODULE Registrations -----------------------------
(***************************************************************************)
(* What the worker registry promises about the stored registrations        *)
(* (WorkerRegistry.load, upsert and delete): POST and DELETE /workers are  *)
(* carried out one at a time, each changes the registration of its worker  *)
(* at once and as a whole or fails, perhaps after it did so, and nothing   *)
(* else changes one, but that a start adds a seed that is missing.  Memory,*)
(* lock, documents, health checks and the life of the process are          *)
(* invisible.                                                              *)
(***************************************************************************)
CONSTANTS
    Workers,   \* ids of workers
    Entries,   \* what may be registered for one
    Seeds,     \* workers a start adds
    Removed,   \* no registration
    Open,      \* the outcome of a request that was not answered
    Nobody     \* no request is being carried out

VARIABLES
    stored,    \* the registration of each worker
    request,   \* the request that is being carried out
    answered   \* what the last request on each worker did, if it was answered

registrationVars == <<stored, request, answered>>

Init ==
    /\ stored = [w \in Workers |-> Removed]
    /\ request = Nobody
    /\ answered = [w \in Workers |-> Open]

Begin(w, entry) ==
    /\ request = Nobody
    /\ request' = [id |-> w, entry |-> entry]
    /\ answered' = [answered EXCEPT ![w] = Open]
    /\ UNCHANGED stored

TakesEffect == stored' = [stored EXCEPT ![request.id] = request.entry]

\* The request is answered with success, and the database has it.
Succeed ==
    /\ request # Nobody
    /\ TakesEffect
    /\ answered' = [answered EXCEPT ![request.id] = request.entry]
    /\ request' = Nobody

\* It is answered 500, the process ends, or there is no database.
Fail ==
    /\ request # Nobody
    /\ TakesEffect \/ UNCHANGED stored
    /\ request' = Nobody
    /\ UNCHANGED answered

\* load adds a seed that is not registered.
AddSeed(w, entry) ==
    /\ request = Nobody
    /\ stored[w] = Removed
    /\ stored' = [stored EXCEPT ![w] = entry]
    /\ UNCHANGED <<request, answered>>

Next ==
    \/ \E w \in Workers, entry \in Entries \cup {Removed} : Begin(w, entry)
    \/ Succeed \/ Fail
    \/ \E w \in Seeds, entry \in Entries : AddSeed(w, entry)

Spec == Init /\ [][Next]_registrationVars

=============================================================================
