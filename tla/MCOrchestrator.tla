---------------------------- MODULE MCOrchestrator ----------------------------
(***************************************************************************)
(* The instances of Orchestrator that TLC checks; each cfg gives the       *)
(* constants their values.  The workers are interchangeable: nothing in    *)
(* the model prefers one of them.                                          *)
(***************************************************************************)
EXTENDS Orchestrator

WorkerSymmetry == Permutations(Workers)

=============================================================================
