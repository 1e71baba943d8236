----------------------------- MODULE RunCopies ------------------------------
(***************************************************************************)
(* What ActiveRecord and state_machine together promise of the state       *)
(* column (app/models/test_run.rb, 160-219): a client loads a copy of a    *)
(* row, and changes the row only by a declared event its own copy may      *)
(* fire, whatever became of the row since.  The row itself is a register   *)
(* the last writer wins, until it is deleted.                              *)
(***************************************************************************)
EXTENDS RunStates

CONSTANTS Runs,    \* rows of test_runs
          Clients  \* what loads a row: one request or performance at a time

VARIABLES state,  \* the state column of each row
          copy    \* the row each client has loaded, if any, as it knows it

vars == <<state, copy>>

Init == /\ state = [t \in Runs |-> "absent"]
        /\ copy = [c \in Clients |-> {}]

Create(t) == /\ state[t] = "absent"
             /\ state' = [state EXCEPT ![t] = "pending"]
             /\ UNCHANGED copy

Read(c, t) == /\ copy[c] = {}
              /\ state[t] \in States
              /\ copy' = [copy EXCEPT ![c] = {[run |-> t, state |-> state[t]]}]
              /\ UNCHANGED state

(* The event is guarded by the copy and written to the row; the client is  *)
(* done with its copy or goes on with the state it wrote.                  *)
Fire(c, event) ==
  \E loaded \in copy[c] :
    /\ CanFire(event, loaded.state)
    /\ state' = [state EXCEPT ![loaded.run] = Written(@, event)]
    /\ \/ copy' = [copy EXCEPT ![c] = {}]
       \/ copy' = [copy EXCEPT ![c] =
            {[run |-> loaded.run, state |-> Transitions[event].to]}]

Delete(c) ==
  \E loaded \in copy[c] :
    /\ state' = [state EXCEPT ![loaded.run] = "destroyed"]
    /\ copy' = [copy EXCEPT ![c] = {}]

Forget(c) == /\ copy' = [copy EXCEPT ![c] = {}]
             /\ UNCHANGED state

Next == \/ \E t \in Runs : Create(t)
        \/ \E c \in Clients, t \in Runs : Read(c, t)
        \/ \E c \in Clients, event \in Events : Fire(c, event)
        \/ \E c \in Clients : Delete(c) \/ Forget(c)

Spec == Init /\ [][Next]_vars
=============================================================================
