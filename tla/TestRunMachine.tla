--------------------------- MODULE TestRunMachine ---------------------------
(***************************************************************************)
(* What app/models/test_run.rb promises of the state column of every run:  *)
(* a run is created pending, then only ever moves along a declared event,  *)
(* until its row is deleted.  Nothing is said of who fires the event.      *)
(***************************************************************************)
EXTENDS RunStates

CONSTANT Runs

VARIABLE state

Init == state = [t \in Runs |-> "absent"]

Create(t) == /\ state[t] = "absent"
             /\ state' = [state EXCEPT ![t] = "pending"]

Fire(t, event) == /\ CanFire(event, state[t])
                  /\ state' = [state EXCEPT ![t] = Transitions[event].to]

Destroy(t) == /\ state[t] \in States
              /\ state' = [state EXCEPT ![t] = "destroyed"]

Next == \E t \in Runs : \/ Create(t)
                        \/ \E event \in Events : Fire(t, event)
                        \/ Destroy(t)

Spec == Init /\ [][Next]_state
=============================================================================
