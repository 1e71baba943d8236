--------------------------- MODULE MCRunExecution ---------------------------
(***************************************************************************)
(* Instances of RunExecution for TLC.                                      *)
(***************************************************************************)
EXTENDS RunExecution

(* Every kind of run *)
AllSetups == Setup

(* Runs without a receiver *)
SenderOnly == {s \in Setup : s.scenarios = {"load"} /\ ~s.csv}
=============================================================================
