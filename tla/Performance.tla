---------------------------- MODULE Performance ----------------------------
(***************************************************************************)
(* What TestRunLifecycle relies on of one performance of a job: users may  *)
(* stop it, it may store results, and it ends with one outcome.  The       *)
(* detailed performance, RunExecution, implements it.                      *)
(***************************************************************************)
VARIABLES outcome, stopped, storing, stored

vars == <<outcome, stopped, storing, stored>>

Outcomes == {"complete", "pending", "complete_with_errors", "lost"}

Init == outcome = "none" /\ stopped = FALSE /\ storing = FALSE /\ stored = FALSE

(* TestRunner#stop, at any moment *)
Stop == stopped' = TRUE /\ UNCHANGED <<outcome, storing, stored>>

(* Results are stored before the end, if the run is not stopped when it    *)
(* comes to them, once ...                                                 *)
Choose == /\ outcome = "none"
          /\ ~stopped /\ ~storing /\ ~stored
          /\ storing' = TRUE
          /\ UNCHANGED <<outcome, stopped, stored>>

(* ... stopped meanwhile or not, unless that fails. *)
Store == /\ storing
         /\ storing' = FALSE
         /\ stored' \in BOOLEAN
         /\ UNCHANGED <<outcome, stopped>>

(* A complete run was not stopped and has its results, a run that goes     *)
(* back to pending was stopped.                                            *)
Finish(end) == /\ outcome = "none" /\ ~storing
               /\ end = "complete" => stored /\ ~stopped
               /\ end = "pending" => stopped
               /\ outcome' = end
               /\ UNCHANGED <<stopped, storing, stored>>

Next == Stop \/ Choose \/ Store \/ \E end \in Outcomes : Finish(end)

Spec == Init /\ [][Next]_vars
=============================================================================
