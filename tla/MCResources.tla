---------------------------- MODULE MCResources ----------------------------
(***************************************************************************)
(* An instance of Resources for TLC: two names, one the copy of the other. *)
(***************************************************************************)
EXTENDS Resources, TLC

CopyName == "a" :> "b"
Symmetry == Permutations(Web)
=============================================================================
