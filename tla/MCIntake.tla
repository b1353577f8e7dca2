------------------------------- MODULE MCIntake -------------------------------
(***************************************************************************)
(* The instance of Intake that TLC checks.  Requests, generation types and *)
(* clients are interchangeable.                                            *)
(***************************************************************************)
EXTENDS Intake, TLC

Symmetry ==
    Permutations(Handlers) \cup Permutations(Types) \cup Permutations(Clients)

===============================================================================
