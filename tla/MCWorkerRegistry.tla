--------------------------- MODULE MCWorkerRegistry ---------------------------
(***************************************************************************)
(* The instances of WorkerRegistry that TLC checks.  The requests are      *)
(* interchangeable.                                                        *)
(***************************************************************************)
EXTENDS WorkerRegistry, TLC

CONSTANT u1   \* the URL of every seed

SeedsAtU1 == [w \in Seeds |-> [url |-> u1, enabled |-> TRUE]]

AdminSymmetry == Permutations(Admins)

=============================================================================
