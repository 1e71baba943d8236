------------------------- MODULE MCTestRunLifecycle -------------------------
(***************************************************************************)
(* Instances of TestRunLifecycle for TLC.                                  *)
(***************************************************************************)
EXTENDS TestRunLifecycle, TLC

Symmetry == Permutations(Runs) \cup Permutations(Jids)
              \cup Permutations(Web) \cup Permutations(Workers)
=============================================================================
