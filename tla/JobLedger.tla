----------------------------- MODULE JobLedger -----------------------------
(***************************************************************************)
(* What Sidekiq promises TestRunWorker of every job it is handed, with     *)
(* retry => false (app/workers/test_run_worker.rb:3): a job is issued      *)
(* once, waits, is held by one worker that owes it an end, and once done   *)
(* never waits or is held again.  The only way back from a worker to the   *)
(* queue is a shutdown that returns the job; a job that waits can be       *)
(* deleted, which ends it.                                                 *)
(***************************************************************************)
CONSTANT Jids

VARIABLE job

Stages == {"unissued", "queued", "held", "done"}

Init == job = [j \in Jids |-> "unissued"]

Move(j, from, to) == job[j] = from /\ job' = [job EXCEPT ![j] = to]

Issue(j)    == Move(j, "unissued", "queued")
Take(j)     == Move(j, "queued", "held")
Delete(j)   == Move(j, "queued", "done")
Return(j)   == Move(j, "held", "queued")
Finish(j)   == Move(j, "held", "done")

Next == \E j \in Jids :
          Issue(j) \/ Take(j) \/ Delete(j) \/ Return(j) \/ Finish(j)

Spec == Init /\ [][Next]_job
=============================================================================
