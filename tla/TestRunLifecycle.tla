-------------------------- MODULE TestRunLifecycle --------------------------
(***************************************************************************)
(* The life of test runs across the processes of a deployment: web         *)
(* processes that serve TestRunsController, Sidekiq worker processes that  *)
(* perform TestRunWorker, each with a thread that polls for stop signals,  *)
(* one Postgres table and one Redis with a job queue and the `stopjobs'    *)
(* set.                                                                    *)
(*                                                                         *)
(* One event of the state machine is an UPDATE, its after_transition       *)
(* callbacks and a COMMIT: the guard reads the object the process loaded   *)
(* earlier, the UPDATE takes the row lock, the callbacks reach Redis at    *)
(* once, and other processes read the old row until the COMMIT.            *)
(***************************************************************************)
EXTENDS Naturals, FiniteSets, SequencesExt, RunStates

CONSTANTS
  Runs,       \* rows of test_runs
  Jids,       \* ids Sidekiq may give to jobs (bounds the number of enqueues)
  Web,        \* web processes, one request at a time each
  Workers,    \* Sidekiq processes (config.options[:concurrency] = 1)
  Ops,        \* what users ask for
  Faults,     \* what may go wrong
  MaxFaults,  \* bound on how often something goes wrong
  None        \* nil: no jid, no run, no owner

AllOps == {"enqueue", "cancel", "stop", "destroy"}

(* kill:     a worker process dies at once (the job it popped is lost)     *)
(* shutdown: a worker process is told to stop and gives its job back       *)
(* crash:    a web process dies inside a transaction                       *)
(* redis:    one srem of a worker raises                                   *)
(* orphan:   the profile, target or scenario of a run is deleted           *)
AllFaults == {"kill", "shutdown", "crash", "redis", "orphan"}

ASSUME OpsAssumption       == Ops \subseteq AllOps
ASSUME FaultsAssumption    == Faults \subseteq AllFaults
ASSUME MaxFaultsAssumption == MaxFaults \in Nat
ASSUME NoneAssumption      == None \notin Runs \cup Jids \cup Web

VARIABLES
  row,      \* test_runs: the committed state and jid of each run
  lock,     \* the web request whose transaction holds the row, or None
  queue,    \* the Sidekiq queue, the job BRPOP takes next first
  jobRun,   \* the argument of each job pushed so far
  stopSet,  \* the Redis set `stopjobs'
  web,      \* the request each web process is serving
  worker,   \* what each worker process is performing
  pollers,  \* stop_signal_listener threads, as (worker, jid) pairs
  stored,   \* runs whose results a job has parsed into the database
  orphaned, \* runs whose profile, target or scenario is gone
  harm,     \* history: what went wrong with each run
  asked,    \* history: jobs a user asked to stop
  canceled, \* history: runs whose last answered request was a cancel
  faults    \* history: how many faults happened

dbVars   == <<row, lock, stored, orphaned>>
jobVars  == <<queue, jobRun, stopSet>>
histVars == <<harm, asked, canceled, faults>>
vars == <<row, lock, queue, jobRun, stopSet, web, worker, pollers, stored,
          orphaned, harm, asked, canceled, faults>>

-----------------------------------------------------------------------------
(* Records *)

Jid == Jids \cup {None}

(* A request: what was asked, the test run it loaded, the job it pushed.   *)
Request == [pc : {"idle", "loaded", "acted"}, op : AllOps \cup {"none"},
            run : Runs \cup {None}, state : RowStates, jid : Jid, job : Jid]

NoRequest == [pc |-> "idle", op |-> "none", run |-> None,
              state |-> "absent", jid |-> None, job |-> None]

(* Where TestRunWorker#perform can be *)
BeforeStart == {"fetched", "checked", "found"}
AfterStart  == {"running", "ran", "stopping", "completing", "failed"}

(* A performing worker: its job and the run the job names, the state and   *)
(* jid of the TestRun object it loaded, whether start! succeeded on that   *)
(* object (validated, its associations stay loaded), TestRunner#stopped,   *)
(* and whether the process is shutting down.                               *)
Performance == [pc : {"idle"} \cup BeforeStart \cup AfterStart, jid : Jid,
                run : Runs \cup {None}, state : RowStates, rowJid : Jid,
                started : BOOLEAN, stopped : BOOLEAN, draining : BOOLEAN]

NoJob == [pc |-> "idle", jid |-> None, run |-> None, state |-> "absent",
          rowJid |-> None, started |-> FALSE, stopped |-> FALSE,
          draining |-> FALSE]

(* Sidekiq::Queue#each with job.delete, for one jid: jids are fresh, so     *)
(* at most one entry has it (NoDuplicates in TestRunLifecycle_proofs).     *)
Without(jobs, j) == IF j \in Range(jobs)
                    THEN RemoveAt(jobs, CHOOSE i \in DOMAIN jobs : jobs[i] = j)
                    ELSE jobs

Queued(j)      == j \in Range(queue)
Holds(p, j)    == worker[p].jid = j /\ worker[p].pc # "idle"
Executes(p, t) == worker[p].run = t /\ worker[p].started
Unlocked(t)    == lock[t] = None

(* A job that can still act: it waits in the queue or a worker has it.     *)
Live(j) == Queued(j) \/ \E p \in Workers : Holds(p, j)

Init == /\ row      = [t \in Runs |-> [state |-> "absent", jid |-> None]]
        /\ lock     = [t \in Runs |-> None]
        /\ queue    = << >>
        /\ jobRun   = [j \in Jids |-> None]
        /\ stopSet  = {}
        /\ web      = [w \in Web |-> NoRequest]
        /\ worker   = [p \in Workers |-> NoJob]
        /\ pollers  = {}
        /\ stored   = {}
        /\ orphaned = {}
        /\ harm     = [t \in Runs |-> {}]
        /\ asked    = {}
        /\ canceled = {}
        /\ faults   = 0
-----------------------------------------------------------------------------
(* The web processes *)

(* `create' and `copy' save a new row; the run is pending. *)
Create(t) ==
  /\ row[t].state = "absent"
  /\ row' = [row EXCEPT ![t].state = "pending"]
  /\ UNCHANGED <<lock, stored, orphaned, jobVars, web, worker, pollers, histVars>>

(* A request arrives and finds its test run: the state and jid it will     *)
(* test and write from are those of this moment.                           *)
Load(w, op, t) ==
  /\ web[w].pc = "idle"
  /\ row[t].state \in States
  /\ web' = [web EXCEPT ![w] = [NoRequest EXCEPT !.pc = "loaded", !.op = op,
               !.run = t, !.state = row[t].state, !.jid = row[t].jid]]
  /\ UNCHANGED <<dbVars, jobVars, worker, pollers, histVars>>

Reading(w, op) == web[w].pc = "loaded" /\ web[w].op = op

(* The guard and the validations of an event fired by a request. *)
Allowed(w, event) ==
  CanFire(event, web[w].state) /\ web[w].run \notin orphaned

(* An event that is not allowed returns false: the user reads that the run *)
(* can not be enqueued, canceled or stopped.                               *)
Refuse(w) ==
  /\ web[w].pc = "loaded"
  /\ web[w].op # "destroy"
  /\ ~Allowed(w, web[w].op)
  /\ web' = [web EXCEPT ![w] = NoRequest]
  /\ UNCHANGED <<dbVars, jobVars, worker, pollers, histVars>>

(* The UPDATE of an event: it waits for the row lock and takes it, unless  *)
(* the row is gone.  The new state is not visible before Commit.           *)
Update(w, job) ==
  LET t == web[w].run IN
  /\ Unlocked(t)
  /\ lock' = [lock EXCEPT ![t] = IF row[t].state = "destroyed" THEN None ELSE w]
  /\ web' = [web EXCEPT ![w].pc = "acted", ![w].job = job]

(* Variant: the jid perform_async returns is not checked, no job waits. *)
EnqueueNothing(w) ==
  /\ Reading(w, "enqueue")
  /\ Allowed(w, "enqueue")
  /\ \E j \in Jids : /\ jobRun[j] = None
                    /\ Update(w, j)
                    /\ jobRun' = [jobRun EXCEPT ![j] = web[w].run]
  /\ UNCHANGED <<row, stored, orphaned, queue, stopSet, worker, pollers, histVars>>

(* TestRun#enqueue: the job is in the queue before the row says so.  No    *)
(* middleware stops a push here, so perform_async returns a jid and the    *)
(* `unless jid' of the callback never raises.                              *)
Enqueue(w) ==
  /\ Reading(w, "enqueue")
  /\ Allowed(w, "enqueue")
  /\ \E j \in Jids :
       /\ jobRun[j] = None
       /\ Update(w, j)
       /\ queue' = Append(queue, j)
       /\ jobRun' = [jobRun EXCEPT ![j] = web[w].run]
  /\ UNCHANGED <<row, stored, orphaned, stopSet, worker, pollers, histVars>>

(* TestRun#cancel: the job whose jid the request loaded leaves the queue,  *)
(* if it still waits there.                                                *)
Cancel(w) ==
  /\ Reading(w, "cancel")
  /\ Allowed(w, "cancel")
  /\ Update(w, None)
  /\ queue' = Without(queue, web[w].jid)
  /\ UNCHANGED <<row, stored, orphaned, jobRun, stopSet, worker, pollers, histVars>>

(* TestRun#stop: the job whose jid the request loaded is to be stopped. *)
Stop(w) ==
  /\ Reading(w, "stop")
  /\ Allowed(w, "stop")
  /\ Update(w, None)
  /\ stopSet' = stopSet \cup ({web[w].jid} \ {None})
  /\ asked' = asked \cup ({web[w].jid} \ {None})
  /\ UNCHANGED <<row, stored, orphaned, queue, jobRun, worker, pollers,
                 harm, canceled, faults>>

(* The COMMIT of the transaction; the answer goes to the user. *)
Commit(w) ==
  LET t  == web[w].run
      op == web[w].op IN
  /\ web[w].pc = "acted"
  /\ row' = [row EXCEPT
       ![t].state = Written(row[t].state, op),
       ![t].jid   = IF op = "enqueue" /\ row[t].state # "destroyed"
                    THEN web[w].job ELSE @]
  /\ lock' = [lock EXCEPT ![t] = IF @ = w THEN None ELSE @]
  /\ canceled' = IF op = "cancel" THEN canceled \cup {t}
                 ELSE IF op = "enqueue" THEN canceled \ {t} ELSE canceled
  /\ web' = [web EXCEPT ![w] = NoRequest]
  /\ UNCHANGED <<stored, orphaned, jobVars, worker, pollers, harm, asked, faults>>

(* `destroy' deletes the row whatever its state. *)
Destroy(w) ==
  LET t == web[w].run IN
  /\ Reading(w, "destroy")
  /\ Unlocked(t)
  /\ row' = [row EXCEPT ![t].state = "destroyed"]
  /\ web' = [web EXCEPT ![w] = NoRequest]
  /\ UNCHANGED <<lock, stored, orphaned, jobVars, worker, pollers, histVars>>
-----------------------------------------------------------------------------
(* The workers: TestRunWorker#perform *)

UnchangedWeb == UNCHANGED <<lock, jobRun, web, orphaned, asked, canceled>>

(* The object of perform is dropped; a process told to stop stays so. *)
Drop(p) == [NoJob EXCEPT !.draining = worker[p].draining]

Step(p, from, to) ==
  worker[p].pc = from /\ worker' = [worker EXCEPT ![p].pc = to]

(* Variant: the job is read from the list and left there. *)
FetchByReading(p) ==
  /\ worker[p].pc = "idle"
  /\ ~worker[p].draining
  /\ queue # << >>
  /\ worker' = [worker EXCEPT ![p] = [NoJob EXCEPT !.pc = "fetched",
                  !.jid = Head(queue), !.run = jobRun[Head(queue)]]]
  /\ UnchangedWeb
  /\ UNCHANGED <<row, queue, stopSet, pollers, stored, harm, faults>>

(* BRPOP: the job is in no list any more, only in the worker's memory. *)
Fetch(p) ==
  /\ worker[p].pc = "idle"
  /\ ~worker[p].draining
  /\ queue # << >>
  /\ queue' = Tail(queue)
  /\ worker' = [worker EXCEPT ![p] = [NoJob EXCEPT !.pc = "fetched",
                  !.jid = Head(queue), !.run = jobRun[Head(queue)]]]
  /\ UnchangedWeb
  /\ UNCHANGED <<row, stopSet, pollers, stored, harm, faults>>

(* `return if check_for_stop_signal': a job asked to stop is not run. *)
CheckSignal(p) ==
  LET j == worker[p].jid IN
  /\ worker[p].pc = "fetched"
  /\ worker' = [worker EXCEPT ![p] = IF j \in stopSet THEN Drop(p)
                                     ELSE [@ EXCEPT !.pc = "checked"]]
  /\ stopSet' = stopSet \ {j}
  /\ UnchangedWeb
  /\ UNCHANGED <<row, queue, pollers, stored, harm, faults>>

(* TestRun.find: the worker works on the row of this moment from now on. *)
Find(p) ==
  LET t == worker[p].run IN
  /\ worker[p].pc = "checked"
  /\ row[t].state \in States
  /\ worker' = [worker EXCEPT ![p].pc = "found", ![p].state = row[t].state,
                              ![p].rowJid = row[t].jid]
  /\ UnchangedWeb
  /\ UNCHANGED <<row, queue, stopSet, pollers, stored, harm, faults>>

(* Variant: Sidekiq retries the job that raised. *)
FindNothingAndRetry(p) ==
  /\ worker[p].pc = "checked"
  /\ row[worker[p].run].state = "destroyed"
  /\ worker' = [worker EXCEPT ![p] = Drop(p)]
  /\ queue' = Append(queue, worker[p].jid)
  /\ UnchangedWeb
  /\ UNCHANGED <<row, stopSet, pollers, stored, harm, faults>>

(* The row is deleted: find raises, the rescue clause raises again on the  *)
(* nil test_run, and the job is over.                                      *)
FindNothing(p) ==
  /\ worker[p].pc = "checked"
  /\ row[worker[p].run].state = "destroyed"
  /\ worker' = [worker EXCEPT ![p] = Drop(p)]
  /\ UnchangedWeb
  /\ UNCHANGED <<row, queue, stopSet, pollers, stored, harm, faults>>

(* Variant: the state is set without asking the machine. *)
StartUnguarded(p) ==
  LET t == worker[p].run IN
  /\ worker[p].pc = "found"
  /\ Unlocked(t)
  /\ worker' = [worker EXCEPT ![p].pc = "running", ![p].state = "running",
                              ![p].started = TRUE]
  /\ row' = [row EXCEPT ![t].state = Written(@, "start")]
  /\ pollers' = pollers \cup {<<p, worker[p].jid>>}
  /\ UnchangedWeb
  /\ UNCHANGED <<queue, stopSet, stored, harm, faults>>

(* start!: guarded by the state found, valid if nothing the run needs is   *)
(* gone; then the thread that listens for stop signals is created.         *)
Start(p) ==
  LET t == worker[p].run IN
  /\ worker[p].pc = "found"
  /\ CanFire("start", worker[p].state)
  /\ t \notin orphaned
  /\ Unlocked(t)
  /\ worker' = [worker EXCEPT ![p].pc = "running", ![p].state = "running",
                              ![p].started = TRUE]
  /\ row' = [row EXCEPT ![t].state = Written(@, "start")]
  /\ pollers' = pollers \cup {<<p, worker[p].jid>>}
  /\ UnchangedWeb
  /\ UNCHANGED <<queue, stopSet, stored, harm, faults>>

(* start! raises InvalidTransition. *)
StartRefused(p) ==
  /\ Step(p, "found", "failed")
  /\ \/ ~CanFire("start", worker[p].state)
     \/ worker[p].run \in orphaned
  /\ UnchangedWeb
  /\ UNCHANGED <<row, queue, stopSet, pollers, stored, harm, faults>>

(* TestRunner#run returns: results were parsed unless it was stopped when  *)
(* it came to parse them.                                                  *)
RunReturns(p) ==
  /\ Step(p, "running", "ran")
  /\ Unlocked(worker[p].run)
  /\ \/ stored' = stored \cup {worker[p].run}
     \/ worker[p].stopped /\ stored' = stored
  /\ UnchangedWeb
  /\ UNCHANGED <<row, queue, stopSet, pollers, harm, faults>>

(* TestRunner#run raises, before or after it parsed the results. *)
RunRaises(p) ==
  /\ Step(p, "running", "failed")
  /\ stored' \in {stored, stored \cup {worker[p].run}}
  /\ UnchangedWeb
  /\ UNCHANGED <<row, queue, stopSet, pollers, harm, faults>>

(* Variant: a performance that returns is taken for a complete one. *)
JudgeReturned(p) ==
  /\ Step(p, "ran", "completing")
  /\ UnchangedWeb
  /\ UNCHANGED <<row, queue, stopSet, pollers, stored, harm, faults>>

(* `if @test_runner.stopped': the flag is read a second time here. *)
Judge(p) ==
  /\ Step(p, "ran", IF worker[p].stopped THEN "stopping" ELSE "completing")
  /\ UnchangedWeb
  /\ UNCHANGED <<row, queue, stopSet, pollers, stored, harm, faults>>

(* The last write of a performance: it waits for the row lock. *)
Write(p, from, event) ==
  LET t == worker[p].run IN
  /\ worker[p].pc = from
  /\ Unlocked(t)
  /\ row' = [row EXCEPT ![t].state = Written(@, event)]
  /\ worker' = [worker EXCEPT ![p] = Drop(p)]

(* Variant: the callback does not ask whether there is a jid. *)
WriteStopAnyJid(p) ==
  /\ Write(p, "stopping", "stop")
  /\ stopSet' = stopSet \cup {worker[p].rowJid}
  /\ UnchangedWeb
  /\ UNCHANGED <<queue, pollers, stored, harm, faults>>

(* stop!: pending, and the callback of the event signals the job again. *)
WriteStop(p) ==
  /\ Write(p, "stopping", "stop")
  /\ stopSet' = stopSet \cup ({worker[p].rowJid} \ {None})
  /\ UnchangedWeb
  /\ UNCHANGED <<queue, pollers, stored, harm, faults>>

WriteComplete(p) ==
  /\ Write(p, "completing", "complete")
  /\ UnchangedWeb
  /\ UNCHANGED <<queue, stopSet, pollers, stored, harm, faults>>

(* Variant: the exception leaves perform before anything is saved. *)
RaiseOnly(p) ==
  /\ worker[p].pc = "failed"
  /\ worker' = [worker EXCEPT ![p] = Drop(p)]
  /\ UnchangedWeb
  /\ UNCHANGED <<row, queue, stopSet, pollers, stored, harm, faults>>

(* The rescue clause: complete_with_errors saves unless the run is invalid *)
(* by now, also where it loops back (state_machine marks the column        *)
(* changed), and the exception goes on to Sidekiq, which does not retry.   *)
WriteErrors(p) ==
  /\ worker[p].run \notin orphaned \/ worker[p].started
  /\ Write(p, "failed", "complete_with_errors")
  /\ UnchangedWeb
  /\ UNCHANGED <<queue, stopSet, pollers, stored, harm, faults>>

(* The run is not valid: nothing at all is saved. *)
ErrorsRefused(p) ==
  /\ worker[p].pc = "failed"
  /\ worker[p].run \in orphaned /\ ~worker[p].started
  /\ worker' = [worker EXCEPT ![p] = Drop(p)]
  /\ UnchangedWeb
  /\ UNCHANGED <<row, queue, stopSet, pollers, stored, harm, faults>>
-----------------------------------------------------------------------------
(* The listener threads *)

(* Variant: the thread takes any signal of the set for its own. *)
PollAnySignal(p, j) ==
  /\ <<p, j>> \in pollers
  /\ stopSet # {}
  /\ \E k \in stopSet : stopSet' = stopSet \ {k}
  /\ pollers' = pollers \ {<<p, j>>}
  /\ worker' = IF Holds(p, j) THEN [worker EXCEPT ![p].stopped = TRUE]
               ELSE worker
  /\ UnchangedWeb
  /\ UNCHANGED <<row, queue, stored, harm, faults>>

(* A poll finds the signal: TestRunner#stop sets the flag of the runner it *)
(* was created for, which may have returned by now, and the thread ends.   *)
Poll(p, j) ==
  /\ <<p, j>> \in pollers
  /\ j \in stopSet
  /\ stopSet' = stopSet \ {j}
  /\ pollers' = pollers \ {<<p, j>>}
  /\ worker' = IF Holds(p, j) THEN [worker EXCEPT ![p].stopped = TRUE]
               ELSE worker
  /\ UnchangedWeb
  /\ UNCHANGED <<row, queue, stored, harm, faults>>

(* The ensure clause cleared @listener_running: the thread ends, with no   *)
(* signal at its last poll or without another poll.                        *)
PollerEnds(p, j) ==
  /\ <<p, j>> \in pollers
  /\ ~Holds(p, j)
  /\ pollers' = pollers \ {<<p, j>>}
  /\ UnchangedWeb
  /\ UNCHANGED <<row, queue, stopSet, worker, stored, harm, faults>>
-----------------------------------------------------------------------------
(* What goes wrong, at most MaxFaults times *)

Fault(kind) ==
  /\ kind \in Faults
  /\ faults < MaxFaults
  /\ faults' = faults + 1

(* The process is gone: no clause runs, the job is in no list. *)
Dies(p, kind) ==
  /\ worker' = [worker EXCEPT ![p] = NoJob]
  /\ pollers' = {q \in pollers : q[1] # p}
  /\ harm' = [harm EXCEPT ![worker[p].run] = @ \cup {kind}]

Kill(p) ==
  /\ Fault("kill")
  /\ worker[p].pc # "idle"
  /\ ~worker[p].draining
  /\ Dies(p, "kill")
  /\ UnchangedWeb
  /\ UNCHANGED <<row, queue, stopSet, stored>>

(* TERM, after the timeout: Sidekiq first puts the job back where BRPOP    *)
(* takes next, while the thread that performs it still runs ...            *)
Requeue(p) ==
  /\ Fault("shutdown")
  /\ worker[p].pc # "idle"
  /\ ~worker[p].draining
  /\ queue' = <<worker[p].jid>> \o queue
  /\ worker' = [worker EXCEPT ![p].draining = TRUE]
  /\ UnchangedWeb
  /\ UNCHANGED <<row, stopSet, pollers, stored, harm>>

(* Variant: the job is given back again when its thread ends. *)
TerminateAndRequeue(p) ==
  /\ worker[p].draining
  /\ worker[p].pc # "idle"
  /\ Dies(p, "shutdown")
  /\ queue' = <<worker[p].jid>> \o queue
  /\ UnchangedWeb
  /\ UNCHANGED <<row, stopSet, stored, faults>>

(* ... then ends it with an exception no rescue clause catches, and the    *)
(* process is started again.                                               *)
Terminate(p) ==
  /\ worker[p].draining
  /\ IF worker[p].pc = "idle"
     THEN /\ worker' = [worker EXCEPT ![p] = NoJob]
          /\ pollers' = {q \in pollers : q[1] # p}
          /\ UNCHANGED harm
     ELSE Dies(p, "shutdown")
  /\ UnchangedWeb
  /\ UNCHANGED <<row, queue, stopSet, stored, faults>>

(* check_for_stop_signal rescues an error of Redis: the job goes on and    *)
(* its signal stays in the set.                                            *)
CheckSignalFails(p) ==
  /\ Fault("redis")
  /\ worker[p].jid \in stopSet
  /\ Step(p, "fetched", "checked")
  /\ UnchangedWeb
  /\ UNCHANGED <<row, queue, stopSet, pollers, stored, harm>>

(* The transaction of a request is rolled back; what it did in Redis is    *)
(* done.                                                                   *)
Crash(w) ==
  LET t == web[w].run IN
  /\ Fault("crash")
  /\ web[w].pc = "acted"
  /\ web' = [web EXCEPT ![w] = NoRequest]
  /\ lock' = [lock EXCEPT ![t] = IF @ = w THEN None ELSE @]
  /\ harm' = [harm EXCEPT ![t] = @ \cup {"crash"}]
  /\ UNCHANGED <<row, stored, orphaned, jobVars, worker, pollers, asked, canceled>>

(* destroy of a profile, target or scenario asks nothing of its test runs: *)
(* from now on the run fails its own validation.                           *)
Orphan(t) ==
  /\ Fault("orphan")
  /\ row[t].state \in States
  /\ orphaned' = orphaned \cup {t}
  /\ harm' = [harm EXCEPT ![t] = @ \cup {"orphan"}]
  /\ UNCHANGED <<row, lock, stored, jobVars, web, worker, pollers, asked, canceled>>
-----------------------------------------------------------------------------
WebStep(w) == \/ Refuse(w) \/ Enqueue(w) \/ Cancel(w) \/ Stop(w)
              \/ Commit(w) \/ Destroy(w)

WorkerStep(p) == \/ Fetch(p) \/ CheckSignal(p) \/ Find(p) \/ FindNothing(p)
                 \/ Start(p) \/ StartRefused(p) \/ RunReturns(p)
                 \/ RunRaises(p) \/ Judge(p) \/ WriteStop(p)
                 \/ WriteComplete(p) \/ WriteErrors(p) \/ ErrorsRefused(p)

PollerStep(p, j) == Poll(p, j) \/ PollerEnds(p, j)

FaultStep == \/ \E p \in Workers : Kill(p) \/ Requeue(p) \/ CheckSignalFails(p)
             \/ \E w \in Web : Crash(w)
             \/ \E t \in Runs : Orphan(t)

Next == \/ \E t \in Runs : Create(t)
        \/ \E w \in Web, op \in Ops, t \in Runs : Load(w, op, t)
        \/ \E w \in Web : WebStep(w)
        \/ \E p \in Workers : WorkerStep(p) \/ Terminate(p)
        \/ \E p \in Workers, j \in Jids : PollerStep(p, j)
        \/ FaultStep

Spec == Init /\ [][Next]_vars

(* Users may stop asking at any time.  A request that was accepted is      *)
(* answered; a Sidekiq process keeps taking and performing jobs, and SIPp  *)
(* ends by itself after the calls of the profile (-m); a listener thread   *)
(* polls every second; a process told to stop is stopped.                  *)
Fairness == /\ \A w \in Web : WF_vars(WebStep(w))
            /\ \A p \in Workers : WF_vars(WorkerStep(p)) /\ WF_vars(Terminate(p))
            /\ \A p \in Workers, j \in Jids : WF_vars(PollerStep(p, j))

FairSpec == Spec /\ Fairness
-----------------------------------------------------------------------------
(* Properties *)

(* Every variable has its type. *)
TypeOK == /\ row \in [Runs -> [state : RowStates, jid : Jid]]
          /\ lock \in [Runs -> Web \cup {None}]
          /\ queue \in Seq(Jids)
          /\ jobRun \in [Jids -> Runs \cup {None}]
          /\ stopSet \subseteq Jids
          /\ web \in [Web -> Request]
          /\ worker \in [Workers -> Performance]
          /\ pollers \subseteq Workers \X Jids
          /\ stored \subseteq Runs
          /\ orphaned \subseteq Runs
          /\ harm \in [Runs -> SUBSET AllFaults]
          /\ asked \subseteq Jids
          /\ canceled \subseteq Runs
          /\ faults \in 0..MaxFaults

Harmed(t, kinds) == harm[t] \cap kinds # {}

(* A run the table shows as running is being executed by some worker, on   *)
(* every path through TestRunWorker#perform and whatever users ask, unless *)
(* its worker process was killed or shut down (test_run_worker.rb, 5-31).  *)
RunningHasExecutor ==
  \A t \in Runs :
    row[t].state = "running" /\ ~Harmed(t, {"kill", "shutdown"})
      => \E p \in Workers : Executes(p, t)

(* A run the table shows as queued has a job that waits or is in the hands *)
(* of a worker, or is just being canceled, unless a worker was killed with *)
(* its job, a request crashed or the run no longer is valid (test_run.rb,  *)
(* 161-176).                                                               *)
QueuedHasJob ==
  \A t \in Runs :
    row[t].state = "queued" /\ ~Harmed(t, {"kill", "crash", "orphan"})
      => \/ \E j \in Jids : jobRun[j] = t /\ Live(j)
         \/ \E w \in Web : lock[t] = w /\ web[w].op = "cancel"

(* A run shown as complete has its results in the database: the flag       *)
(* TestRunner#run and TestRunWorker#perform each read, which the listener  *)
(* thread sets in between, never lets a run complete without them.         *)
CompleteHasResults ==
  \A t \in Runs : row[t].state = "complete" => t \in stored

(* A job is performed once: two processes hold the same job only while one *)
(* of them is shutting down, and a job that waits is held by no other.     *)
OneHolder ==
  \A p \in Workers, j \in Jids :
    Holds(p, j) /\ ~worker[p].draining
      => /\ ~Queued(j)
         /\ \A q \in Workers \ {p} : Holds(q, j) => worker[q].draining

(* A runner is told to stop only if a user asked to stop its run: a signal *)
(* that stays in the set, that the worker's own stop! adds, or that a job  *)
(* given back meets again, never reaches a performance of another run      *)
(* (test_run.rb, 188-194; test_run_worker.rb, 33-52).                      *)
NoUnaskedStop ==
  \A p \in Workers :
    worker[p].stopped => \E j \in asked : jobRun[j] = worker[p].run

(* A run whose cancel was answered does not run before it is enqueued      *)
(* again.                                                                  *)
CanceledStaysIdle == \A t \in canceled : row[t].state # "running"

(* Every job that waits is over one day.                                   *)
JobsEnd == \A j \in Jids : Queued(j) ~> ~Live(j)

(* Every run ends up neither queued nor running, whatever users ask of it  *)
(* meanwhile, if no worker was killed or shut down with its job, no        *)
(* request crashed and it stays valid.                                     *)
Settles ==
  \A t \in Runs : <>[](row[t].state \notin {"queued", "running"} \/ harm[t] # {})

(* A row changes only by a declared event that is allowed on what the      *)
(* process that fires it knows of the row: the state it loaded, or itself  *)
(* wrote since.  Whoever leaves the declared machine has an outdated copy  *)
(* (test_runs_controller.rb, 128; test_run_worker.rb, 12-27).              *)
Clients == ({"web"} \X Web) \cup ({"worker"} \X Workers)

Seen(record, pcs) == IF record.pc \in pcs
                     THEN {[run |-> record.run, state |-> record.state]}
                     ELSE {}

Copy(c) == IF c[1] = "web" THEN Seen(web[c[2]], {"loaded", "acted"})
           ELSE Seen(worker[c[2]], {"found"} \cup AfterStart)

Copies == INSTANCE RunCopies WITH
            state <- [t \in Runs |-> row[t].state],
            copy  <- [c \in Clients |-> Copy(c)]
MovesFromCopies == Copies!Spec

(* The stages of a job, and what Sidekiq promises of them. *)
Stage(j) == IF jobRun[j] = None THEN "unissued"
            ELSE IF Queued(j) THEN "queued"
            ELSE IF \E p \in Workers : Holds(p, j) /\ ~worker[p].draining
                 THEN "held" ELSE "done"
Ledger == INSTANCE JobLedger WITH job <- [j \in Jids |-> Stage(j)]
LedgerKept == Ledger!Spec
=============================================================================
