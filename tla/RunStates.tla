----------------------------- MODULE RunStates -----------------------------
(***************************************************************************)
(* The state machine a TestRun declares (app/models/test_run.rb, 160-219): *)
(* its states, and for each event the states it may leave and the one it   *)
(* enters.  The table has no variables: TestRunMachine turns it into the   *)
(* abstract life of a row, TestRunLifecycle fires its events from the web  *)
(* processes and the Sidekiq workers.                                      *)
(***************************************************************************)

States == {"pending", "queued", "running", "complete", "complete_with_errors"}

(* What the test_runs table can say of a run: no row yet, a state of the   *)
(* machine, or a row already deleted.                                      *)
RowStates == States \cup {"absent", "destroyed"}

Transitions ==
  [ enqueue  |-> [from |-> {"pending"},           to |-> "queued"],
    start    |-> [from |-> {"pending", "queued"}, to |-> "running"],
    complete |-> [from |-> {"running"},           to |-> "complete"],
    stop     |-> [from |-> {"running"},           to |-> "pending"],
    cancel   |-> [from |-> {"queued"},            to |-> "pending"],
    complete_with_errors |-> [from |-> States,    to |-> "complete_with_errors"] ]

Events == {"enqueue", "start", "complete", "stop", "cancel", "complete_with_errors"}

CanFire(event, state) == state \in Transitions[event].from

(* The state a row that still exists is left in by an UPDATE of an event;  *)
(* an UPDATE of a deleted row matches nothing and raises nothing.          *)
Written(state, event) ==
  IF state = "destroyed" THEN state ELSE Transitions[event].to
=============================================================================
