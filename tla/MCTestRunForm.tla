--------------------------- MODULE MCTestRunForm ---------------------------
(***************************************************************************)
(* An instance of TestRunForm for TLC: one scenario to begin with, no      *)
(* profile, and a second row in either table.                              *)
(***************************************************************************)
EXTENDS TestRunForm

OneSender == {[table |-> "scenario", id |-> 1, receiver |-> FALSE]}
=============================================================================
