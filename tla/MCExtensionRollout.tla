-------------------------- MODULE MCExtensionRollout --------------------------
(***************************************************************************)
(* The instance of ExtensionRollout that TLC checks.  Requests are         *)
(* interchangeable, and so are workers.                                    *)
(***************************************************************************)
EXTENDS ExtensionRollout, TLC

RolloutSymmetry == Permutations(Requests) \cup Permutations(Workers)

=============================================================================
