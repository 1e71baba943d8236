----------------------------- MODULE Jobs_proofs ----------------------------
(***************************************************************************)
(* What becomes of jobs, for every number of runs, jobs, processes and     *)
(* faults: the stages a job goes through, and the job a queued run has.    *)
(***************************************************************************)
EXTENDS TestRunLifecycle_proofs

(***************************************************************************)
(* Jobs in the life of test runs are what JobLedger says of them: every    *)
(* step takes at most one job from one stage to the next, for every number *)
(* of runs, jobs, processes and faults.                                    *)
(***************************************************************************)

(* The value that refines the variable of JobLedger. *)
Jobs == [j \in Jids |-> Stage(j)]

(* The performance works on job j in a process that is not shutting down.  *)
Working(performance, j) ==
  performance.jid = j /\ performance.pc # "idle" /\ ~performance.draining

(* A stage depends on the argument of a job, the queue and who works on    *)
(* it.                                                                     *)
LEMMA StageMeans ==
  ASSUME NEW j \in Jids
  PROVE  Stage(j) = IF jobRun[j] = None THEN "unissued"
                    ELSE IF j \in Range(queue) THEN "queued"
                    ELSE IF \E p \in Workers : Working(worker[p], j)
                    THEN "held" ELSE "done"
BY DEF Stage, Queued, Holds, Working

LEMMA StageWillMean ==
  ASSUME NEW j \in Jids
  PROVE  Stage(j)' = IF jobRun'[j] = None THEN "unissued"
                     ELSE IF j \in Range(queue') THEN "queued"
                     ELSE IF \E p \in Workers : Working(worker'[p], j)
                     THEN "held" ELSE "done"
BY DEF Stage, Queued, Holds, Working

(* One job moves, or none. *)
LEMMA OneMoves ==
  ASSUME NEW j \in Jids, NEW stage, Stage(j)' = stage,
         \A k \in Jids \ {j} : Stage(k)' = Stage(k)
  PROVE  Jobs' = [Jobs EXCEPT ![j] = stage]
BY DEF Jobs

LEMMA NoneMoves ==
  ASSUME \A k \in Jids : Stage(k)' = Stage(k)
  PROVE  Jobs' = Jobs
BY DEF Jobs

(* A step that leaves the queue and the jobs in hand alone moves no job.   *)
LEMMA Stays ==
  ASSUME jobRun' = jobRun, Range(queue') = Range(queue),
         NEW p \in Workers,
         \A q \in Workers \ {p} : worker'[q] = worker[q],
         \A j \in Jids : Working(worker'[p], j) <=> Working(worker[p], j)
  PROVE  Jobs' = Jobs
<1>1. \A j \in Jids : (\E q \in Workers : Working(worker'[q], j))
                       <=> (\E q \in Workers : Working(worker[q], j))
  OBVIOUS
<1>2. \A j \in Jids : Stage(j)' = Stage(j)
  BY <1>1, StageMeans, StageWillMean
<1>3. QED
  BY <1>2, NoneMoves

LEMMA StaysIfSame ==
  ASSUME UNCHANGED <<jobRun, queue, worker>>
  PROVE  Jobs' = Jobs
<1>1. \A j \in Jids : Stage(j)' = Stage(j)
  BY StageMeans, StageWillMean
<1>2. QED
  BY <1>1, NoneMoves

(* A worker that drops its performance finishes its job, unless the        *)
(* process was told to stop and has given the job back.                    *)
LEMMA Drops ==
  ASSUME TypeOK, Known, OneHolder, jobRun' = jobRun, queue' = queue,
         NEW p \in Workers, worker[p].pc # "idle",
         \A q \in Workers \ {p} : worker'[q] = worker[q],
         worker'[p].pc = "idle"
  PROVE  [Ledger!Next]_Jobs
<1>1. \A j \in Jids : ~Working(worker'[p], j)
  BY DEF Working
<1>2. CASE worker[p].draining
  <2>1. \A j \in Jids : ~Working(worker[p], j)
    BY <1>2 DEF Working
  <2>2. Jobs' = Jobs
    BY <1>1, <2>1, Stays
  <2>3. QED
    BY <2>2
<1>3. CASE ~worker[p].draining
  <2>0. PICK j \in Jids : j = worker[p].jid
    BY DEF Known
  <2>1. jobRun[j] \in Runs
    BY <2>0 DEF Known
  <2>2. ~Queued(j) /\ \A q \in Workers \ {p} : ~Working(worker[q], j)
    <3>1. Holds(p, j)
      BY <2>0 DEF Holds
    <3>2. QED
      BY <1>3, <2>1, <3>1 DEF OneHolder, Holds, Working
  <2>3. Stage(j) = "held"
    <3>1. Working(worker[p], j)
      BY <1>3, <2>0 DEF Working
    <3>2. QED
      BY <2>1, <2>2, <3>1, StageMeans, NoneAssumption DEF Queued
  <2>4. Stage(j)' = "done"
    BY <1>1, <2>1, <2>2, StageWillMean, NoneAssumption DEF Queued
  <2>5. ASSUME NEW k \in Jids \ {j} PROVE Stage(k)' = Stage(k)
    <3>1. ~Working(worker[p], k)
      BY <2>0 DEF Working
    <3>2. QED
      BY <1>1, <3>1, StageMeans, StageWillMean
  <2>6. Jobs' = [Jobs EXCEPT ![j] = "done"] /\ Jobs[j] = "held"
    BY <2>1, <2>3, <2>4, <2>5, OneMoves DEF Jobs
  <2>7. QED
    BY <2>1, <2>6 DEF Ledger!Next, Ledger!Finish, Ledger!Move, Jobs
<1>4. QED
  BY <1>2, <1>3

(* A worker that goes on with its performance moves no job. *)
LEMMA GoesOn ==
  ASSUME jobRun' = jobRun, queue' = queue, NEW p \in Workers,
         \A q \in Workers \ {p} : worker'[q] = worker[q],
         worker'[p].jid = worker[p].jid,
         worker'[p].draining = worker[p].draining,
         worker[p].pc # "idle", worker'[p].pc # "idle"
  PROVE  Jobs' = Jobs
<1>1. \A j \in Jids : Working(worker'[p], j) <=> Working(worker[p], j)
  BY DEF Working
<1>2. QED
  BY <1>1, Stays

(* Every step moves one job as JobLedger says, or none. *)
LEMMA LedgerStep ==
  ASSUME TypeOK, Known, OneHolder, [Next]_vars
  PROVE  [Ledger!Next]_Jobs
<1> USE DEF dbVars, jobVars, histVars
<1>0. /\ queue \in Seq(Jids) /\ NoDuplicates(queue)
      /\ jobRun \in [Jids -> Runs \cup {None}]
      /\ worker \in [Workers -> Performance]
  BY DEF TypeOK, Known
<1>1. ASSUME NEW t \in Runs, Create(t)
      PROVE  [Ledger!Next]_Jobs
  BY <1>1, StaysIfSame DEF Create
<1>2. ASSUME NEW w \in Web, NEW op \in Ops, NEW t \in Runs, Load(w, op, t)
      PROVE  [Ledger!Next]_Jobs
  BY <1>2, StaysIfSame DEF Load
<1>3. ASSUME NEW w \in Web, Refuse(w)
      PROVE  [Ledger!Next]_Jobs
  BY <1>3, StaysIfSame DEF Refuse
<1>4. ASSUME NEW w \in Web, Enqueue(w)
      PROVE  [Ledger!Next]_Jobs
  <2>1. PICK j \in Jids : /\ jobRun[j] = None
                          /\ queue' = Append(queue, j)
                          /\ jobRun' = [jobRun EXCEPT ![j] = web[w].run]
    BY <1>4 DEF Enqueue
  <2>2. worker' = worker /\ web[w].run \in Runs
    BY <1>4 DEF Enqueue, Reading, Known
  <2>3. j \notin Range(queue)
    BY <2>1, NoneAssumption DEF Known
  <2>4. Range(queue') = Range(queue) \cup {j}
    BY <1>0, <2>1, <2>3, AppendAdds
  <2>5. jobRun'[j] # None /\ \A k \in Jids \ {j} : jobRun'[k] = jobRun[k]
    BY <1>0, <2>1, <2>2, NoneAssumption
  <2>6. Stage(j) = "unissued" /\ Stage(j)' = "queued"
    BY <2>1, <2>4, <2>5, StageMeans, StageWillMean
  <2>7. \A k \in Jids \ {j} : Stage(k)' = Stage(k)
    BY <2>2, <2>4, <2>5, StageMeans, StageWillMean
  <2>8. Jobs' = [Jobs EXCEPT ![j] = "queued"] /\ Jobs[j] = "unissued"
    BY <2>6, <2>7, OneMoves DEF Jobs
  <2>9. QED
    BY <2>8 DEF Ledger!Next, Ledger!Issue, Ledger!Move, Jobs
<1>5. ASSUME NEW w \in Web, Cancel(w)
      PROVE  [Ledger!Next]_Jobs
  <2>0. PICK j : j = web[w].jid
    OBVIOUS
  <2>1. /\ queue' = Without(queue, j)
        /\ jobRun' = jobRun /\ worker' = worker
    BY <2>0, <1>5 DEF Cancel
  <2>2. Range(queue') = Range(queue) \ {j}
    BY <1>0, <2>1, WithoutRemoves
  <2>3. \A k \in Jids : k # j => Stage(k)' = Stage(k)
    BY <2>1, <2>2, StageMeans, StageWillMean
  <2>4. CASE j \in Range(queue)
    <3>1. j \in Jids /\ jobRun[j] # None
      BY <1>0, <2>4, NoneAssumption, ElementOfSeq DEF Known, Range
    <3>2. \A p \in Workers : ~Working(worker[p], j)
      BY <2>4, <3>1 DEF OneHolder, Holds, Queued, Working
    <3>3. Stage(j) = "queued" /\ Stage(j)' = "done"
      BY <2>1, <2>2, <2>4, <3>1, <3>2, StageMeans, StageWillMean
    <3>4. Jobs' = [Jobs EXCEPT ![j] = "done"] /\ Jobs[j] = "queued"
      BY <2>3, <3>1, <3>3, OneMoves DEF Jobs
    <3>5. QED
      BY <3>1, <3>4 DEF Ledger!Next, Ledger!Delete, Ledger!Move, Jobs
  <2>5. CASE j \notin Range(queue)
    <3>1. \A k \in Jids : Stage(k)' = Stage(k)
      BY <2>1, <2>2, <2>5, StageMeans, StageWillMean
    <3>2. QED
      BY <3>1, NoneMoves
  <2>6. QED
    BY <2>4, <2>5
<1>6. ASSUME NEW w \in Web, Stop(w)
      PROVE  [Ledger!Next]_Jobs
  BY <1>6, StaysIfSame DEF Stop
<1>7. ASSUME NEW w \in Web, Commit(w)
      PROVE  [Ledger!Next]_Jobs
  BY <1>7, StaysIfSame DEF Commit
<1>8. ASSUME NEW w \in Web, Destroy(w)
      PROVE  [Ledger!Next]_Jobs
  BY <1>8, StaysIfSame DEF Destroy
<1>9. ASSUME NEW p \in Workers, Fetch(p)
      PROVE  [Ledger!Next]_Jobs
  <2>0. PICK j \in Jids : j = Head(queue)
    BY <1>0, <1>9, TailRemoves DEF Fetch
  <2>1. /\ j \in Jids /\ j \in Range(queue)
        /\ Range(queue') = Range(queue) \ {j}
    BY <1>0, <2>0, <1>9, TailRemoves DEF Fetch
  <2>2. /\ jobRun' = jobRun
        /\ worker[p].pc = "idle"
        /\ \A q \in Workers \ {p} : worker'[q] = worker[q]
        /\ worker'[p].jid = j /\ worker'[p].pc # "idle" /\ ~worker'[p].draining
    BY <1>0, <2>0, <1>9 DEF Fetch, UnchangedWeb, NoJob
  <2>3. jobRun[j] # None
    BY <2>1, NoneAssumption DEF Known
  <2>4. Stage(j) = "queued"
    BY <2>1, <2>3, StageMeans
  <2>5. Working(worker'[p], j) /\ \A k \in Jids \ {j} : ~Working(worker'[p], k)
    BY <2>2 DEF Working
  <2>6. Stage(j)' = "held"
    BY <2>1, <2>2, <2>3, <2>5, StageWillMean
  <2>7. \A k \in Jids : ~Working(worker[p], k)
    BY <2>2 DEF Working
  <2>8. \A k \in Jids \ {j} : Stage(k)' = Stage(k)
    BY <2>1, <2>2, <2>5, <2>7, StageMeans, StageWillMean
  <2>9. Jobs' = [Jobs EXCEPT ![j] = "held"] /\ Jobs[j] = "queued"
    BY <2>1, <2>4, <2>6, <2>8, OneMoves DEF Jobs
  <2>10. QED
    BY <2>1, <2>9 DEF Ledger!Next, Ledger!Take, Ledger!Move, Jobs
<1>10. ASSUME NEW p \in Workers, CheckSignal(p)
      PROVE  [Ledger!Next]_Jobs
  <2>1. /\ jobRun' = jobRun /\ queue' = queue
        /\ \A q \in Workers \ {p} : worker'[q] = worker[q]
        /\ worker[p].pc # "idle"
    BY <1>0, <1>10 DEF CheckSignal, UnchangedWeb
  <2>2. CASE worker[p].jid \in stopSet
    <3>1. worker'[p].pc = "idle"
      BY <1>0, <2>2, <1>10 DEF CheckSignal, Drop, NoJob
    <3>2. QED
      BY <2>1, <3>1, Drops
  <2>3. CASE worker[p].jid \notin stopSet
    <3>1. /\ worker'[p].jid = worker[p].jid /\ worker'[p].draining = worker[p].draining
          /\ worker'[p].pc # "idle"
      BY <1>0, <2>3, <1>10 DEF CheckSignal, Performance
    <3>2. QED
      BY <2>1, <3>1, GoesOn
  <2>4. QED
    BY <2>2, <2>3
<1>11. ASSUME NEW p \in Workers, Find(p)
      PROVE  [Ledger!Next]_Jobs
  <2>1. /\ jobRun' = jobRun /\ queue' = queue
        /\ \A q \in Workers \ {p} : worker'[q] = worker[q]
        /\ worker'[p].jid = worker[p].jid /\ worker'[p].draining = worker[p].draining
        /\ worker[p].pc # "idle" /\ worker'[p].pc # "idle"
    BY <1>0, <1>11 DEF Find, UnchangedWeb, Performance
  <2>2. QED
    BY <2>1, GoesOn
<1>12. ASSUME NEW p \in Workers, FindNothing(p)
      PROVE  [Ledger!Next]_Jobs
  <2>1. /\ jobRun' = jobRun /\ queue' = queue
        /\ \A q \in Workers \ {p} : worker'[q] = worker[q]
        /\ worker[p].pc # "idle" /\ worker'[p].pc = "idle"
    BY <1>0, <1>12 DEF FindNothing, Drop, UnchangedWeb, NoJob
  <2>2. QED
    BY <2>1, Drops
<1>13. ASSUME NEW p \in Workers, Start(p)
      PROVE  [Ledger!Next]_Jobs
  <2>1. /\ jobRun' = jobRun /\ queue' = queue
        /\ \A q \in Workers \ {p} : worker'[q] = worker[q]
        /\ worker'[p].jid = worker[p].jid /\ worker'[p].draining = worker[p].draining
        /\ worker[p].pc # "idle" /\ worker'[p].pc # "idle"
    BY <1>0, <1>13 DEF Start, UnchangedWeb, Performance
  <2>2. QED
    BY <2>1, GoesOn
<1>14. ASSUME NEW p \in Workers, StartRefused(p)
      PROVE  [Ledger!Next]_Jobs
  <2>1. /\ jobRun' = jobRun /\ queue' = queue
        /\ \A q \in Workers \ {p} : worker'[q] = worker[q]
        /\ worker'[p].jid = worker[p].jid /\ worker'[p].draining = worker[p].draining
        /\ worker[p].pc # "idle" /\ worker'[p].pc # "idle"
    BY <1>0, <1>14 DEF StartRefused, Step, UnchangedWeb, Performance
  <2>2. QED
    BY <2>1, GoesOn
<1>15. ASSUME NEW p \in Workers, RunReturns(p)
      PROVE  [Ledger!Next]_Jobs
  <2>1. /\ jobRun' = jobRun /\ queue' = queue
        /\ \A q \in Workers \ {p} : worker'[q] = worker[q]
        /\ worker'[p].jid = worker[p].jid /\ worker'[p].draining = worker[p].draining
        /\ worker[p].pc # "idle" /\ worker'[p].pc # "idle"
    BY <1>0, <1>15 DEF RunReturns, Step, UnchangedWeb, Performance
  <2>2. QED
    BY <2>1, GoesOn
<1>16. ASSUME NEW p \in Workers, RunRaises(p)
      PROVE  [Ledger!Next]_Jobs
  <2>1. /\ jobRun' = jobRun /\ queue' = queue
        /\ \A q \in Workers \ {p} : worker'[q] = worker[q]
        /\ worker'[p].jid = worker[p].jid /\ worker'[p].draining = worker[p].draining
        /\ worker[p].pc # "idle" /\ worker'[p].pc # "idle"
    BY <1>0, <1>16 DEF RunRaises, Step, UnchangedWeb, Performance
  <2>2. QED
    BY <2>1, GoesOn
<1>17. ASSUME NEW p \in Workers, Judge(p)
      PROVE  [Ledger!Next]_Jobs
  <2>1. /\ jobRun' = jobRun /\ queue' = queue
        /\ \A q \in Workers \ {p} : worker'[q] = worker[q]
        /\ worker'[p].jid = worker[p].jid /\ worker'[p].draining = worker[p].draining
        /\ worker[p].pc # "idle" /\ worker'[p].pc # "idle"
    BY <1>0, <1>17 DEF Judge, Step, UnchangedWeb, Performance
  <2>2. QED
    BY <2>1, GoesOn
<1>18. ASSUME NEW p \in Workers, WriteStop(p)
      PROVE  [Ledger!Next]_Jobs
  <2>1. /\ jobRun' = jobRun /\ queue' = queue
        /\ \A q \in Workers \ {p} : worker'[q] = worker[q]
        /\ worker[p].pc # "idle" /\ worker'[p].pc = "idle"
    BY <1>0, <1>18 DEF WriteStop, Write, Drop, UnchangedWeb, NoJob
  <2>2. QED
    BY <2>1, Drops
<1>19. ASSUME NEW p \in Workers, WriteComplete(p)
      PROVE  [Ledger!Next]_Jobs
  <2>1. /\ jobRun' = jobRun /\ queue' = queue
        /\ \A q \in Workers \ {p} : worker'[q] = worker[q]
        /\ worker[p].pc # "idle" /\ worker'[p].pc = "idle"
    BY <1>0, <1>19 DEF WriteComplete, Write, Drop, UnchangedWeb, NoJob
  <2>2. QED
    BY <2>1, Drops
<1>20. ASSUME NEW p \in Workers, WriteErrors(p)
      PROVE  [Ledger!Next]_Jobs
  <2>1. /\ jobRun' = jobRun /\ queue' = queue
        /\ \A q \in Workers \ {p} : worker'[q] = worker[q]
        /\ worker[p].pc # "idle" /\ worker'[p].pc = "idle"
    BY <1>0, <1>20 DEF WriteErrors, Write, Drop, UnchangedWeb, NoJob
  <2>2. QED
    BY <2>1, Drops
<1>22. ASSUME NEW p \in Workers, ErrorsRefused(p)
      PROVE  [Ledger!Next]_Jobs
  <2>1. /\ jobRun' = jobRun /\ queue' = queue
        /\ \A q \in Workers \ {p} : worker'[q] = worker[q]
        /\ worker[p].pc # "idle" /\ worker'[p].pc = "idle"
    BY <1>0, <1>22 DEF ErrorsRefused, Drop, UnchangedWeb, NoJob
  <2>2. QED
    BY <2>1, Drops
<1>23. ASSUME NEW p \in Workers, Terminate(p)
      PROVE  [Ledger!Next]_Jobs
  <2>1. /\ jobRun' = jobRun /\ queue' = queue
        /\ worker' = [worker EXCEPT ![p] = NoJob] /\ worker[p].draining
    BY <1>23 DEF Terminate, UnchangedWeb, Dies
  <2>2. \A j \in Jids : ~Working(worker'[p], j) /\ ~Working(worker[p], j)
    BY <1>0, <2>1 DEF Working, NoJob
  <2>3. \A q \in Workers \ {p} : worker'[q] = worker[q]
    BY <1>0, <2>1
  <2>4. QED
    BY <2>1, <2>2, <2>3, Stays
<1>24. ASSUME NEW p \in Workers, Kill(p)
      PROVE  [Ledger!Next]_Jobs
  <2>1. /\ jobRun' = jobRun /\ queue' = queue
        /\ \A q \in Workers \ {p} : worker'[q] = worker[q]
        /\ worker[p].pc # "idle" /\ worker'[p].pc = "idle"
    BY <1>0, <1>24 DEF Kill, Fault, Dies, UnchangedWeb, NoJob
  <2>2. QED
    BY <2>1, Drops
<1>25. ASSUME NEW p \in Workers, Requeue(p)
      PROVE  [Ledger!Next]_Jobs
  <2>0. PICK j \in Jids : j = worker[p].jid
    BY <1>25 DEF Requeue, Known
  <2>1. /\ jobRun' = jobRun /\ queue' = <<j>> \o queue
        /\ worker[p].pc # "idle" /\ ~worker[p].draining
        /\ \A q \in Workers \ {p} : worker'[q] = worker[q]
        /\ worker'[p].draining
    BY <1>0, <2>0, <1>25 DEF Requeue, UnchangedWeb, Performance
  <2>2. j \in Jids /\ jobRun[j] # None
    BY <2>0, <2>1, NoneAssumption DEF Known
  <2>3. j \notin Range(queue)
    BY <2>0, <2>1, <2>2 DEF OneHolder, Holds, Queued
  <2>4. Working(worker[p], j) /\ \A k \in Jids \ {j} : ~Working(worker[p], k)
    BY <2>0, <2>1 DEF Working
  <2>5. Range(queue') = Range(queue) \cup {j}
    BY <1>0, <2>1, <2>2, <2>3, ReturnAdds
  <2>6. \A k \in Jids : ~Working(worker'[p], k)
    BY <2>1 DEF Working
  <2>7. Stage(j) = "held" /\ Stage(j)' = "queued"
    BY <2>1, <2>2, <2>3, <2>4, <2>5, StageMeans, StageWillMean
  <2>8. \A k \in Jids \ {j} : Stage(k)' = Stage(k)
    BY <2>1, <2>4, <2>5, <2>6, StageMeans, StageWillMean
  <2>9. Jobs' = [Jobs EXCEPT ![j] = "queued"] /\ Jobs[j] = "held"
    BY <2>2, <2>7, <2>8, OneMoves DEF Jobs
  <2>10. QED
    BY <2>2, <2>9 DEF Ledger!Next, Ledger!Return, Ledger!Move, Jobs
<1>26. ASSUME NEW p \in Workers, CheckSignalFails(p)
      PROVE  [Ledger!Next]_Jobs
  <2>1. /\ jobRun' = jobRun /\ queue' = queue
        /\ \A q \in Workers \ {p} : worker'[q] = worker[q]
        /\ worker'[p].jid = worker[p].jid /\ worker'[p].draining = worker[p].draining
        /\ worker[p].pc # "idle" /\ worker'[p].pc # "idle"
    BY <1>0, <1>26 DEF CheckSignalFails, Step, UnchangedWeb, Performance
  <2>2. QED
    BY <2>1, GoesOn
<1>27. ASSUME NEW p \in Workers, NEW j \in Jids, Poll(p, j)
      PROVE  [Ledger!Next]_Jobs
  <2>1. /\ jobRun' = jobRun /\ queue' = queue
        /\ \A q \in Workers \ {p} : worker'[q] = worker[q]
        /\ worker'[p].jid = worker[p].jid /\ worker'[p].draining = worker[p].draining
        /\ worker'[p].pc = worker[p].pc
    BY <1>0, <1>27 DEF Poll, UnchangedWeb, Performance
  <2>2. \A k \in Jids : Working(worker'[p], k) <=> Working(worker[p], k)
    BY <2>1 DEF Working
  <2>3. QED
    BY <2>1, <2>2, Stays
<1>28. ASSUME NEW p \in Workers, NEW j \in Jids, PollerEnds(p, j)
      PROVE  [Ledger!Next]_Jobs
  BY <1>28, StaysIfSame DEF PollerEnds, UnchangedWeb
<1>29. ASSUME NEW w \in Web, Crash(w)
      PROVE  [Ledger!Next]_Jobs
  BY <1>29, StaysIfSame DEF Crash
<1>30. ASSUME NEW t \in Runs, Orphan(t)
      PROVE  [Ledger!Next]_Jobs
  BY <1>30, StaysIfSame DEF Orphan
<1>31. CASE UNCHANGED vars
  BY <1>31, StaysIfSame DEF vars
<1>32. QED
  BY <1>1, <1>2, <1>3, <1>4, <1>5, <1>6, <1>7, <1>8, <1>9,
     <1>10, <1>11, <1>12, <1>13, <1>14, <1>15, <1>16, <1>17, <1>18,
     <1>19, <1>20, <1>22, <1>23, <1>24, <1>25, <1>26, <1>27,
     <1>28, <1>29, <1>30, <1>31
  DEF Next, WebStep, WorkerStep, PollerStep, FaultStep

(* Jobs keep what Sidekiq promises of them: a job is issued once, held by  *)
(* one worker that owes it an end, given back only by a shutdown, and once *)
(* done never waits or is held again (test_run_worker.rb, 3; test_run.rb,  *)
(* 161-186).                                                               *)
THEOREM JobsKeepTheLedger == Spec => LedgerKept
<1>1. Init => Ledger!Init
  BY DEF Init, Ledger!Init, Stage
<1>2. IInv /\ [Next]_vars => [Ledger!Next]_Jobs
  BY LedgerStep DEF IInv
<1>3. QED
  BY <1>1, <1>2, Invariance, PTL DEF Spec, LedgerKept, Ledger!Spec, Jobs

(***************************************************************************)
(* A queued run has a job, for every number of runs, jobs, processes and   *)
(* faults.  The job of an enqueue is in the queue before the row says so,  *)
(* and may be taken, canceled, given back or lost on either side of the    *)
(* COMMIT.                                                                 *)
(***************************************************************************)

(* The row lock: a transaction that reached the UPDATE has it, unless the  *)
(* row is gone, and who has it is such a transaction.  An invalid run is   *)
(* marked, and a performance between start! and its last write started.    *)
Locked ==
  /\ \A w \in Web : web[w].pc = "acted"
                     => \/ row[web[w].run].state = "destroyed"
                        \/ lock[web[w].run] = w
  /\ \A t \in Runs, w \in Web :
       lock[t] = w => /\ web[w].pc = "acted" /\ web[w].run = t
                      /\ row[t].state # "destroyed"
  /\ \A t \in orphaned : "orphan" \in harm[t]
  /\ \A p \in Workers : worker[p].pc \in {"running", "ran", "stopping", "completing"}
                         => worker[p].started

Enqueues(w) == web[w].pc = "acted" /\ web[w].op = "enqueue"

(* Until the COMMIT of an enqueue nobody has read the jid of its job.      *)
Unread ==
  \A w \in Web : Enqueues(w) =>
    /\ \A t \in Runs : row[t].jid # web[w].job
    /\ \A v \in Web : web[v].jid # web[w].job
    /\ \A v \in Web \ {w} : Enqueues(v) => web[v].job # web[w].job
    /\ \A p \in Workers : worker[p].rowJid # web[w].job
    /\ web[w].job \notin stopSet

(* While a run is queued, its jid is that of the last enqueue: whoever     *)
(* read the jid has seen no later state of the run, and none has asked to  *)
(* stop the job.                                                           *)
Current ==
  \A t \in Runs : row[t].state = "queued" =>
    /\ row[t].jid \in Jids
    /\ row[t].jid \notin stopSet
    /\ \A w \in Web : web[w].jid = row[t].jid => web[w].state = "queued"
    /\ \A p \in Workers : worker[p].rowJid = row[t].jid => ~worker[p].started

(* A job that a shutdown cannot take away: it waits, or a process that     *)
(* goes on performs it.                                                    *)
Safe(j) == j \in Range(queue) \/ \E p \in Workers : Working(worker[p], j)

Excused(t) == Harmed(t, {"kill", "crash", "orphan"})

Canceling(t) == \E w \in Web : lock[t] = w /\ web[w].op = "cancel"

(* The job of a queued run, and of one that is about to be queued.         *)
Backed ==
  /\ \A t \in Runs : row[t].state = "queued" /\ ~Excused(t)
                      => Safe(row[t].jid) \/ Canceling(t)
  /\ \A w \in Web :
       Enqueues(w) /\ lock[web[w].run] = w /\ ~Excused(web[w].run)
         => Safe(web[w].job)

(* Every step keeps the lock with its transaction.                         *)
LEMMA LockedStep ==
  ASSUME TypeOK, Known, Locked, [Next]_vars
  PROVE  Locked'
<1> USE DEF dbVars, jobVars, histVars
<1>0. /\ row \in [Runs -> [state : RowStates, jid : Jid]]
      /\ lock \in [Runs -> Web \cup {None}]
      /\ web \in [Web -> Request]
      /\ worker \in [Workers -> Performance]
      /\ harm \in [Runs -> SUBSET AllFaults]
      /\ stopSet \subseteq Jids /\ orphaned \subseteq Runs
  BY DEF TypeOK
<1>1. ASSUME NEW t \in Runs, Create(t)
      PROVE  Locked'
  BY <1>0, <1>1 DEF Locked, Create
<1>2. ASSUME NEW w \in Web, NEW op \in Ops, NEW t \in Runs, Load(w, op, t)
      PROVE  Locked'
  BY <1>0, <1>2 DEF Locked, Load, NoRequest, Request
<1>3. ASSUME NEW w \in Web, Refuse(w)
      PROVE  Locked'
  BY <1>0, <1>3 DEF Locked, Refuse, NoRequest, Request
<1>4. ASSUME NEW w \in Web, Enqueue(w)
      PROVE  Locked'
  <2>1. PICK t \in Runs : web[w].run = t
    BY <1>4 DEF Enqueue, Reading, Known
  <2>2. /\ row' = row /\ worker' = worker /\ harm' = harm /\ orphaned' = orphaned
        /\ lock[t] = None
        /\ lock' = [lock EXCEPT ![t] = IF row[t].state = "destroyed" THEN None ELSE w]
    BY <1>4, <2>1 DEF Enqueue, Update, Unlocked
  <2>3. /\ web[w].pc = "loaded" /\ web'[w].pc = "acted" /\ web'[w].run = t
        /\ \A v \in Web \ {w} : web'[v] = web[v]
    BY <1>0, <2>1, <1>4 DEF Enqueue, Update, Reading, Request
  <2>4. /\ lock'[t] = IF row[t].state = "destroyed" THEN None ELSE w
        /\ \A u \in Runs \ {t} : lock'[u] = lock[u]
    BY <1>0, <2>2
  <2>5. \A v \in Web : web'[v].pc = "acted"
                        => \/ row'[web'[v].run].state = "destroyed"
                           \/ lock'[web'[v].run] = v
    <3>1. SUFFICES ASSUME NEW v \in Web \ {w}, web[v].pc = "acted",
                          row[web[v].run].state # "destroyed"
                   PROVE  lock'[web[v].run] = v
      BY <2>2, <2>3, <2>4
    <3>2. lock[web[v].run] = v /\ web[v].run \in Runs
      BY <3>1 DEF Locked, Known
    <3>3. web[v].run # t
      BY <2>2, <3>2, NoneAssumption
    <3>4. QED
      BY <2>4, <3>2, <3>3
  <2>6. ASSUME NEW u \in Runs, NEW v \in Web, lock'[u] = v
        PROVE  web'[v].pc = "acted" /\ web'[v].run = u /\ row'[u].state # "destroyed"
    <3>1. CASE u = t
      BY <2>2, <2>3, <2>4, <2>6, <3>1, NoneAssumption
    <3>2. CASE u # t
      BY <2>2, <2>3, <2>4, <2>6, <3>2 DEF Locked
    <3>3. QED
      BY <3>1, <3>2
  <2>7. QED
    BY <2>2, <2>5, <2>6 DEF Locked
<1>5. ASSUME NEW w \in Web, Cancel(w)
      PROVE  Locked'
  <2>1. PICK t \in Runs : web[w].run = t
    BY <1>5 DEF Cancel, Reading, Known
  <2>2. /\ row' = row /\ worker' = worker /\ harm' = harm /\ orphaned' = orphaned
        /\ lock[t] = None
        /\ lock' = [lock EXCEPT ![t] = IF row[t].state = "destroyed" THEN None ELSE w]
    BY <1>5, <2>1 DEF Cancel, Update, Unlocked
  <2>3. /\ web[w].pc = "loaded" /\ web'[w].pc = "acted" /\ web'[w].run = t
        /\ \A v \in Web \ {w} : web'[v] = web[v]
    BY <1>0, <2>1, <1>5 DEF Cancel, Update, Reading, Request
  <2>4. /\ lock'[t] = IF row[t].state = "destroyed" THEN None ELSE w
        /\ \A u \in Runs \ {t} : lock'[u] = lock[u]
    BY <1>0, <2>2
  <2>5. \A v \in Web : web'[v].pc = "acted"
                        => \/ row'[web'[v].run].state = "destroyed"
                           \/ lock'[web'[v].run] = v
    <3>1. SUFFICES ASSUME NEW v \in Web \ {w}, web[v].pc = "acted",
                          row[web[v].run].state # "destroyed"
                   PROVE  lock'[web[v].run] = v
      BY <2>2, <2>3, <2>4
    <3>2. lock[web[v].run] = v /\ web[v].run \in Runs
      BY <3>1 DEF Locked, Known
    <3>3. web[v].run # t
      BY <2>2, <3>2, NoneAssumption
    <3>4. QED
      BY <2>4, <3>2, <3>3
  <2>6. ASSUME NEW u \in Runs, NEW v \in Web, lock'[u] = v
        PROVE  web'[v].pc = "acted" /\ web'[v].run = u /\ row'[u].state # "destroyed"
    <3>1. CASE u = t
      BY <2>2, <2>3, <2>4, <2>6, <3>1, NoneAssumption
    <3>2. CASE u # t
      BY <2>2, <2>3, <2>4, <2>6, <3>2 DEF Locked
    <3>3. QED
      BY <3>1, <3>2
  <2>7. QED
    BY <2>2, <2>5, <2>6 DEF Locked
<1>6. ASSUME NEW w \in Web, Stop(w)
      PROVE  Locked'
  <2>1. PICK t \in Runs : web[w].run = t
    BY <1>6 DEF Stop, Reading, Known
  <2>2. /\ row' = row /\ worker' = worker /\ harm' = harm /\ orphaned' = orphaned
        /\ lock[t] = None
        /\ lock' = [lock EXCEPT ![t] = IF row[t].state = "destroyed" THEN None ELSE w]
    BY <1>6, <2>1 DEF Stop, Update, Unlocked
  <2>3. /\ web[w].pc = "loaded" /\ web'[w].pc = "acted" /\ web'[w].run = t
        /\ \A v \in Web \ {w} : web'[v] = web[v]
    BY <1>0, <2>1, <1>6 DEF Stop, Update, Reading, Request
  <2>4. /\ lock'[t] = IF row[t].state = "destroyed" THEN None ELSE w
        /\ \A u \in Runs \ {t} : lock'[u] = lock[u]
    BY <1>0, <2>2
  <2>5. \A v \in Web : web'[v].pc = "acted"
                        => \/ row'[web'[v].run].state = "destroyed"
                           \/ lock'[web'[v].run] = v
    <3>1. SUFFICES ASSUME NEW v \in Web \ {w}, web[v].pc = "acted",
                          row[web[v].run].state # "destroyed"
                   PROVE  lock'[web[v].run] = v
      BY <2>2, <2>3, <2>4
    <3>2. lock[web[v].run] = v /\ web[v].run \in Runs
      BY <3>1 DEF Locked, Known
    <3>3. web[v].run # t
      BY <2>2, <3>2, NoneAssumption
    <3>4. QED
      BY <2>4, <3>2, <3>3
  <2>6. ASSUME NEW u \in Runs, NEW v \in Web, lock'[u] = v
        PROVE  web'[v].pc = "acted" /\ web'[v].run = u /\ row'[u].state # "destroyed"
    <3>1. CASE u = t
      BY <2>2, <2>3, <2>4, <2>6, <3>1, NoneAssumption
    <3>2. CASE u # t
      BY <2>2, <2>3, <2>4, <2>6, <3>2 DEF Locked
    <3>3. QED
      BY <3>1, <3>2
  <2>7. QED
    BY <2>2, <2>5, <2>6 DEF Locked
<1>7. ASSUME NEW w \in Web, Commit(w)
      PROVE  Locked'
  <2>1. PICK t \in Runs : web[w].run = t
    BY <1>7 DEF Commit, Known
  <2>2. /\ worker' = worker /\ orphaned' = orphaned
        /\ \A u \in Runs : harm[u] \subseteq harm'[u]
        /\ \A u \in Runs : row'[u].state = "destroyed" <=> row[u].state = "destroyed"
    BY <1>0, <2>1, <1>7 DEF Commit, Known, Written, Transitions
  <2>3. /\ web'[w].pc = "idle"
        /\ \A v \in Web \ {w} : web'[v] = web[v]
        /\ lock' = [lock EXCEPT ![t] = IF lock[t] = w THEN None ELSE lock[t]]
    BY <1>0, <2>1, <1>7 DEF Commit, NoRequest
  <2>4. \A v \in Web : web'[v].pc = "acted"
                        => \/ row'[web'[v].run].state = "destroyed"
                           \/ lock'[web'[v].run] = v
    BY <1>0, <2>2, <2>3 DEF Locked, Known
  <2>5. ASSUME NEW u \in Runs, NEW v \in Web, lock'[u] = v
        PROVE  web'[v].pc = "acted" /\ web'[v].run = u /\ row'[u].state # "destroyed"
    <3>1. lock[u] = v /\ v # w
      BY <1>0, <2>1, <2>3, <2>5, NoneAssumption DEF Locked
    <3>2. QED
      BY <2>2, <2>3, <3>1 DEF Locked
  <2>6. QED
    BY <1>0, <2>2, <2>4, <2>5 DEF Locked
<1>8. ASSUME NEW w \in Web, Destroy(w)
      PROVE  Locked'
  <2>1. PICK t \in Runs : web[w].run = t
    BY <1>8 DEF Destroy, Reading, Known
  <2>2. /\ worker' = worker /\ orphaned' = orphaned /\ harm' = harm /\ lock' = lock
        /\ lock[t] = None
        /\ row' = [row EXCEPT ![t].state = "destroyed"]
    BY <2>1, <1>8 DEF Destroy, Unlocked
  <2>3. /\ web'[w].pc = "idle" /\ \A v \in Web \ {w} : web'[v] = web[v]
        /\ web[w].pc # "acted"
    BY <1>0, <1>8 DEF Destroy, Reading, NoRequest
  <2>4. row'[t].state = "destroyed" /\ \A u \in Runs \ {t} : row'[u] = row[u]
    BY <1>0, <2>2
  <2>5. \A v \in Web : web'[v].pc = "acted"
                        => \/ row'[web'[v].run].state = "destroyed"
                           \/ lock'[web'[v].run] = v
    BY <2>2, <2>3, <2>4 DEF Locked, Known
  <2>6. \A u \in Runs, v \in Web : lock'[u] = v
          => web'[v].pc = "acted" /\ web'[v].run = u /\ row'[u].state # "destroyed"
    BY <2>2, <2>3, <2>4, NoneAssumption DEF Locked
  <2>7. QED
    BY <2>2, <2>5, <2>6 DEF Locked
<1>9. ASSUME NEW p \in Workers, Fetch(p)
      PROVE  Locked'
  BY <1>0, <1>9 DEF Locked, Fetch, UnchangedWeb, NoJob, Performance, Known
<1>10. ASSUME NEW p \in Workers, CheckSignal(p)
      PROVE  Locked'
  BY <1>0, <1>10 DEF Locked, CheckSignal, UnchangedWeb, Drop, NoJob, Performance
<1>11. ASSUME NEW p \in Workers, Find(p)
      PROVE  Locked'
  BY <1>0, <1>11 DEF Locked, Find, UnchangedWeb, NoJob, Performance
<1>12. ASSUME NEW p \in Workers, FindNothing(p)
      PROVE  Locked'
  BY <1>0, <1>12 DEF Locked, FindNothing, UnchangedWeb, Drop, NoJob, Performance
<1>13. ASSUME NEW p \in Workers, Start(p)
      PROVE  Locked'
  BY <1>0, <1>13 DEF Locked, Start, UnchangedWeb, NoJob, Performance, Written, Transitions
<1>14. ASSUME NEW p \in Workers, StartRefused(p)
      PROVE  Locked'
  BY <1>0, <1>14 DEF Locked, StartRefused, UnchangedWeb, Step, NoJob, Performance
<1>15. ASSUME NEW p \in Workers, RunReturns(p)
      PROVE  Locked'
  BY <1>0, <1>15 DEF Locked, RunReturns, UnchangedWeb, Step, NoJob, Performance
<1>16. ASSUME NEW p \in Workers, RunRaises(p)
      PROVE  Locked'
  BY <1>0, <1>16 DEF Locked, RunRaises, UnchangedWeb, Step, NoJob, Performance
<1>17. ASSUME NEW p \in Workers, Judge(p)
      PROVE  Locked'
  BY <1>0, <1>17 DEF Locked, Judge, UnchangedWeb, Step, NoJob, Performance
<1>18. ASSUME NEW p \in Workers, WriteStop(p)
      PROVE  Locked'
  BY <1>0, <1>18 DEF Locked, WriteStop, UnchangedWeb, Write, Drop, NoJob, Performance, Written, Transitions
<1>19. ASSUME NEW p \in Workers, WriteComplete(p)
      PROVE  Locked'
  BY <1>0, <1>19 DEF Locked, WriteComplete, UnchangedWeb, Write, Drop, NoJob, Performance, Written, Transitions
<1>20. ASSUME NEW p \in Workers, WriteErrors(p)
      PROVE  Locked'
  BY <1>0, <1>20 DEF Locked, WriteErrors, UnchangedWeb, Write, Drop, NoJob, Performance, Written, Transitions
<1>22. ASSUME NEW p \in Workers, ErrorsRefused(p)
      PROVE  Locked'
  BY <1>0, <1>22 DEF Locked, ErrorsRefused, UnchangedWeb, Drop, NoJob, Performance
<1>23. ASSUME NEW p \in Workers, Terminate(p)
      PROVE  Locked'
  <2>1. worker' = [worker EXCEPT ![p] = NoJob]
    BY <1>23 DEF Terminate, Dies
  <2>2. row' = row /\ lock' = lock /\ web' = web /\ orphaned' = orphaned
    BY <1>23 DEF Terminate, UnchangedWeb
  <2>3. \A t \in Runs : harm[t] \subseteq harm'[t]
    BY <1>0, <1>23 DEF Terminate, Dies
  <2>4. worker'[p].pc = "idle" /\ \A q \in Workers \ {p} : worker'[q] = worker[q]
    BY <1>0, <2>1 DEF NoJob
  <2>5. QED
    BY <1>0, <2>2, <2>3, <2>4 DEF Locked
<1>24. ASSUME NEW p \in Workers, Kill(p)
      PROVE  Locked'
  BY <1>0, <1>24 DEF Locked, Kill, UnchangedWeb, Fault, Dies, NoJob, Performance
<1>25. ASSUME NEW p \in Workers, Requeue(p)
      PROVE  Locked'
  BY <1>0, <1>25 DEF Locked, Requeue, UnchangedWeb, Fault, NoJob, Performance
<1>26. ASSUME NEW p \in Workers, CheckSignalFails(p)
      PROVE  Locked'
  BY <1>0, <1>26 DEF Locked, CheckSignalFails, UnchangedWeb, Fault, Step, NoJob, Performance
<1>27. ASSUME NEW p \in Workers, NEW j \in Jids, Poll(p, j)
      PROVE  Locked'
  BY <1>0, <1>27 DEF Locked, Poll, UnchangedWeb, Holds, NoJob, Performance
<1>28. ASSUME NEW p \in Workers, NEW j \in Jids, PollerEnds(p, j)
      PROVE  Locked'
  BY <1>0, <1>28 DEF Locked, PollerEnds, UnchangedWeb
<1>29. ASSUME NEW w \in Web, Crash(w)
      PROVE  Locked'
  <2>1. PICK t \in Runs : web[w].run = t
    BY <1>29 DEF Crash, Known
  <2>2. /\ worker' = worker /\ orphaned' = orphaned
        /\ \A u \in Runs : harm[u] \subseteq harm'[u]
        /\ \A u \in Runs : row'[u].state = "destroyed" <=> row[u].state = "destroyed"
    BY <1>0, <2>1, <1>29 DEF Crash, Fault
  <2>3. /\ web'[w].pc = "idle"
        /\ \A v \in Web \ {w} : web'[v] = web[v]
        /\ lock' = [lock EXCEPT ![t] = IF lock[t] = w THEN None ELSE lock[t]]
    BY <1>0, <2>1, <1>29 DEF Crash, NoRequest
  <2>4. \A v \in Web : web'[v].pc = "acted"
                        => \/ row'[web'[v].run].state = "destroyed"
                           \/ lock'[web'[v].run] = v
    BY <1>0, <2>2, <2>3 DEF Locked, Known
  <2>5. ASSUME NEW u \in Runs, NEW v \in Web, lock'[u] = v
        PROVE  web'[v].pc = "acted" /\ web'[v].run = u /\ row'[u].state # "destroyed"
    <3>1. lock[u] = v /\ v # w
      BY <1>0, <2>1, <2>3, <2>5, NoneAssumption DEF Locked
    <3>2. QED
      BY <2>2, <2>3, <3>1 DEF Locked
  <2>6. QED
    BY <1>0, <2>2, <2>4, <2>5 DEF Locked
<1>30. ASSUME NEW t \in Runs, Orphan(t)
      PROVE  Locked'
  BY <1>0, <1>30 DEF Locked, Orphan, Fault
<1>31. CASE UNCHANGED vars
  BY <1>31 DEF vars, Locked
<1>32. QED
  BY <1>1, <1>2, <1>3, <1>4, <1>5, <1>6, <1>7, <1>8, <1>9,
     <1>10, <1>11, <1>12, <1>13, <1>14, <1>15, <1>16, <1>17, <1>18,
     <1>19, <1>20, <1>22, <1>23, <1>24, <1>25, <1>26, <1>27,
     <1>28, <1>29, <1>30, <1>31
  DEF Next, WebStep, WorkerStep, PollerStep, FaultStep

(* Every step keeps the jid of an uncommitted enqueue unread.              *)
LEMMA UnreadStep ==
  ASSUME TypeOK, Known, JidsOwned, SignalsAsked, Unread, [Next]_vars
  PROVE  Unread'
<1> USE DEF dbVars, jobVars, histVars
<1>0. /\ row \in [Runs -> [state : RowStates, jid : Jid]]
      /\ lock \in [Runs -> Web \cup {None}]
      /\ web \in [Web -> Request]
      /\ worker \in [Workers -> Performance]
      /\ harm \in [Runs -> SUBSET AllFaults]
      /\ stopSet \subseteq Jids /\ orphaned \subseteq Runs
  BY DEF TypeOK
<1>0a. \A w \in Web : Enqueues(w) => web[w].job # None
  BY NoneAssumption DEF Enqueues, Known
<1>1. ASSUME NEW t \in Runs, Create(t)
      PROVE  Unread'
  BY <1>0, <1>0a, <1>1 DEF Unread, Create, Enqueues
<1>2. ASSUME NEW w \in Web, NEW op \in Ops, NEW t \in Runs, Load(w, op, t)
      PROVE  Unread'
  BY <1>0, <1>0a, <1>2 DEF Unread, Load, NoRequest, Request, Enqueues
<1>3. ASSUME NEW w \in Web, Refuse(w)
      PROVE  Unread'
  BY <1>0, <1>0a, <1>3 DEF Unread, Refuse, NoRequest, Request, Enqueues
<1>4. ASSUME NEW w \in Web, Enqueue(w)
      PROVE  Unread'
  <2>1. PICK j \in Jids : /\ jobRun[j] = None
                          /\ web' = [web EXCEPT ![w].pc = "acted", ![w].job = j]
    BY <1>4 DEF Enqueue, Update
  <2>2. /\ row' = row /\ worker' = worker /\ stopSet' = stopSet
        /\ web[w].pc = "loaded" /\ web[w].op = "enqueue" /\ web[w].run \in Runs
    BY <1>4 DEF Enqueue, Reading, Known
  <2>3. /\ Enqueues(w)' /\ web'[w].job = j /\ web'[w].jid = web[w].jid
        /\ \A v \in Web \ {w} : web'[v] = web[v]
    BY <1>0, <2>1, <2>2 DEF Request, Enqueues
  <2>4. /\ \A t \in Runs : row[t].jid # j
        /\ \A v \in Web : web[v].jid # j
        /\ \A v \in Web : Enqueues(v) => web[v].job # j
        /\ \A p \in Workers : worker[p].rowJid # j
        /\ j \notin stopSet
    <3>1. \A i \in asked : jobRun[i] # None
      BY DEF JidsOwned
    <3>2. j \notin stopSet
      BY <2>1, <3>1 DEF SignalsAsked
    <3>3. \A v \in Web : Enqueues(v) => jobRun[web[v].job] \in Runs
      BY DEF JidsOwned, Enqueues, Known
    <3>4. \A t \in Runs : row[t].jid # j
      BY <2>1, NoneAssumption DEF JidsOwned
    <3>5. \A v \in Web : web[v].jid # j
      BY <2>1, NoneAssumption DEF JidsOwned
    <3>6. \A p \in Workers : worker[p].rowJid # j
      BY <2>1, NoneAssumption DEF JidsOwned
    <3>7. QED
      BY <2>1, <3>2, <3>3, <3>4, <3>5, <3>6, NoneAssumption
  <2>5. \A v \in Web \ {w} : Enqueues(v)' = Enqueues(v)
    BY <2>3 DEF Enqueues
  <2>6. ASSUME NEW v \in Web, Enqueues(v)'
        PROVE  /\ \A t \in Runs : row'[t].jid # web'[v].job
               /\ \A u \in Web : web'[u].jid # web'[v].job
               /\ \A u \in Web \ {v} : Enqueues(u)' => web'[u].job # web'[v].job
               /\ \A p \in Workers : worker'[p].rowJid # web'[v].job
               /\ web'[v].job \notin stopSet'
    <3>1. CASE v = w
      BY <2>2, <2>3, <2>4, <2>5, <3>1
    <3>2. CASE v # w
      <4>1. Enqueues(v) /\ web'[v] = web[v]
        BY <2>3, <2>5, <2>6, <3>2
      <4>2. QED
        BY <2>2, <2>3, <2>4, <2>5, <4>1 DEF Unread
    <3>3. QED
      BY <3>1, <3>2
  <2>7. QED
    BY <2>6 DEF Unread
<1>5. ASSUME NEW w \in Web, Cancel(w)
      PROVE  Unread'
  BY <1>0, <1>0a, <1>5 DEF Unread, Cancel, Update, Reading, NoRequest, Request, Enqueues
<1>6. ASSUME NEW w \in Web, Stop(w)
      PROVE  Unread'
  <2>1. /\ row' = row /\ worker' = worker
        /\ stopSet' \subseteq stopSet \cup {web[w].jid}
    BY <1>6 DEF Stop
  <2>2. /\ \A v \in Web : web'[v].jid = web[v].jid /\ web'[v].op = web[v].op
        /\ web[w].op = "stop"
        /\ \A v \in Web \ {w} : web'[v] = web[v]
    BY <1>0, <1>6 DEF Stop, Update, Reading, Request
  <2>3. \A v \in Web : Enqueues(v)' => v # w /\ Enqueues(v) /\ web'[v] = web[v]
    BY <2>2 DEF Enqueues
  <2>4. QED
    BY <2>1, <2>2, <2>3 DEF Unread
<1>7. ASSUME NEW w \in Web, Commit(w)
      PROVE  Unread'
  <2>1. /\ web'[w].pc = "idle" /\ web'[w].jid = None
        /\ \A v \in Web \ {w} : web'[v] = web[v]
    BY <1>0, <1>7 DEF Commit, NoRequest
  <2>2. worker' = worker /\ stopSet' = stopSet
    BY <1>7 DEF Commit
  <2>3. \A t \in Runs : row'[t].jid = row[t].jid \/ (Enqueues(w) /\ row'[t].jid = web[w].job)
    BY <1>0, <1>7 DEF Commit, Known, Enqueues
  <2>4. SUFFICES ASSUME NEW v \in Web, Enqueues(v)'
                 PROVE  /\ \A t \in Runs : row'[t].jid # web'[v].job
                        /\ \A u \in Web : web'[u].jid # web'[v].job
                        /\ \A u \in Web \ {v} : Enqueues(u)' => web'[u].job # web'[v].job
                        /\ \A p \in Workers : worker'[p].rowJid # web'[v].job
                        /\ web'[v].job \notin stopSet'
    BY DEF Unread
  <2>5. v # w /\ web'[v] = web[v] /\ Enqueues(v)
    BY <2>1, <2>4 DEF Enqueues
  <2>6. web[v].job \in Jids
    BY <2>5 DEF Enqueues, Known
  <2>7. \A u \in Web : Enqueues(u)' => u # w /\ Enqueues(u)
    BY <2>1 DEF Enqueues
  <2>8. QED
    BY <2>1, <2>2, <2>3, <2>5, <2>6, <2>7, NoneAssumption DEF Unread
<1>8. ASSUME NEW w \in Web, Destroy(w)
      PROVE  Unread'
  BY <1>0, <1>0a, <1>8 DEF Unread, Destroy, Reading, NoRequest, Request, Enqueues
<1>9. ASSUME NEW p \in Workers, Fetch(p)
      PROVE  Unread'
  BY <1>0, <1>0a, <1>9 DEF Unread, Fetch, UnchangedWeb, NoJob, Performance, Enqueues
<1>10. ASSUME NEW p \in Workers, CheckSignal(p)
      PROVE  Unread'
  BY <1>0, <1>0a, <1>10 DEF Unread, CheckSignal, UnchangedWeb, Drop, NoJob, Performance, Enqueues
<1>11. ASSUME NEW p \in Workers, Find(p)
      PROVE  Unread'
  BY <1>0, <1>0a, <1>11 DEF Unread, Find, UnchangedWeb, NoJob, Performance, Enqueues
<1>12. ASSUME NEW p \in Workers, FindNothing(p)
      PROVE  Unread'
  BY <1>0, <1>0a, <1>12 DEF Unread, FindNothing, UnchangedWeb, Drop, NoJob, Performance, Enqueues
<1>13. ASSUME NEW p \in Workers, Start(p)
      PROVE  Unread'
  BY <1>0, <1>0a, <1>13 DEF Unread, Start, UnchangedWeb, NoJob, Performance, Written, Transitions, Enqueues
<1>14. ASSUME NEW p \in Workers, StartRefused(p)
      PROVE  Unread'
  BY <1>0, <1>0a, <1>14 DEF Unread, StartRefused, UnchangedWeb, Step, NoJob, Performance, Enqueues
<1>15. ASSUME NEW p \in Workers, RunReturns(p)
      PROVE  Unread'
  BY <1>0, <1>0a, <1>15 DEF Unread, RunReturns, UnchangedWeb, Step, NoJob, Performance, Enqueues
<1>16. ASSUME NEW p \in Workers, RunRaises(p)
      PROVE  Unread'
  BY <1>0, <1>0a, <1>16 DEF Unread, RunRaises, UnchangedWeb, Step, NoJob, Performance, Enqueues
<1>17. ASSUME NEW p \in Workers, Judge(p)
      PROVE  Unread'
  BY <1>0, <1>0a, <1>17 DEF Unread, Judge, UnchangedWeb, Step, NoJob, Performance, Enqueues
<1>18. ASSUME NEW p \in Workers, WriteStop(p)
      PROVE  Unread'
  <2>1. /\ web' = web /\ \A t \in Runs : row'[t].jid = row[t].jid
        /\ stopSet' \subseteq stopSet \cup {worker[p].rowJid}
    BY <1>0, <1>18 DEF WriteStop, Write, UnchangedWeb
  <2>2. worker'[p].rowJid = None /\ \A q \in Workers \ {p} : worker'[q] = worker[q]
    BY <1>0, <1>18 DEF WriteStop, Write, Drop, NoJob
  <2>3. \A v \in Web : Enqueues(v) => web[v].job \in Jids
    BY DEF Enqueues, Known
  <2>4. QED
    BY <2>1, <2>2, <2>3, NoneAssumption DEF Unread, Enqueues
<1>19. ASSUME NEW p \in Workers, WriteComplete(p)
      PROVE  Unread'
  BY <1>0, <1>0a, <1>19 DEF Unread, WriteComplete, UnchangedWeb, Write, Drop, NoJob, Performance, Written, Transitions, Enqueues
<1>20. ASSUME NEW p \in Workers, WriteErrors(p)
      PROVE  Unread'
  BY <1>0, <1>0a, <1>20 DEF Unread, WriteErrors, UnchangedWeb, Write, Drop, NoJob, Performance, Written, Transitions, Enqueues
<1>22. ASSUME NEW p \in Workers, ErrorsRefused(p)
      PROVE  Unread'
  BY <1>0, <1>0a, <1>22 DEF Unread, ErrorsRefused, UnchangedWeb, Drop, NoJob, Performance, Enqueues
<1>23. ASSUME NEW p \in Workers, Terminate(p)
      PROVE  Unread'
  BY <1>0, <1>0a, <1>23 DEF Unread, Terminate, UnchangedWeb, Dies, NoJob, Performance, Enqueues
<1>24. ASSUME NEW p \in Workers, Kill(p)
      PROVE  Unread'
  BY <1>0, <1>0a, <1>24 DEF Unread, Kill, UnchangedWeb, Fault, Dies, NoJob, Performance, Enqueues
<1>25. ASSUME NEW p \in Workers, Requeue(p)
      PROVE  Unread'
  BY <1>0, <1>0a, <1>25 DEF Unread, Requeue, UnchangedWeb, Fault, NoJob, Performance, Enqueues
<1>26. ASSUME NEW p \in Workers, CheckSignalFails(p)
      PROVE  Unread'
  BY <1>0, <1>0a, <1>26 DEF Unread, CheckSignalFails, UnchangedWeb, Fault, Step, NoJob, Performance, Enqueues
<1>27. ASSUME NEW p \in Workers, NEW j \in Jids, Poll(p, j)
      PROVE  Unread'
  BY <1>0, <1>0a, <1>27 DEF Unread, Poll, UnchangedWeb, Holds, NoJob, Performance, Enqueues
<1>28. ASSUME NEW p \in Workers, NEW j \in Jids, PollerEnds(p, j)
      PROVE  Unread'
  BY <1>0, <1>0a, <1>28 DEF Unread, PollerEnds, UnchangedWeb, Enqueues
<1>29. ASSUME NEW w \in Web, Crash(w)
      PROVE  Unread'
  BY <1>0, <1>0a, <1>29 DEF Unread, Crash, Fault, NoRequest, Request, Enqueues
<1>30. ASSUME NEW t \in Runs, Orphan(t)
      PROVE  Unread'
  BY <1>0, <1>0a, <1>30 DEF Unread, Orphan, Fault, Enqueues
<1>31. CASE UNCHANGED vars
  BY <1>31 DEF vars, Unread, Enqueues
<1>32. QED
  BY <1>1, <1>2, <1>3, <1>4, <1>5, <1>6, <1>7, <1>8, <1>9,
     <1>10, <1>11, <1>12, <1>13, <1>14, <1>15, <1>16, <1>17, <1>18,
     <1>19, <1>20, <1>22, <1>23, <1>24, <1>25, <1>26, <1>27,
     <1>28, <1>29, <1>30, <1>31
  DEF Next, WebStep, WorkerStep, PollerStep, FaultStep

(* Every step keeps the jid of a queued run current.                       *)
LEMMA CurrentStep ==
  ASSUME TypeOK, Known, JidsOwned, Locked, Unread, Current, [Next]_vars
  PROVE  Current'
<1> USE DEF dbVars, jobVars, histVars
<1>0. /\ row \in [Runs -> [state : RowStates, jid : Jid]]
      /\ lock \in [Runs -> Web \cup {None}]
      /\ web \in [Web -> Request]
      /\ worker \in [Workers -> Performance]
      /\ harm \in [Runs -> SUBSET AllFaults]
      /\ stopSet \subseteq Jids /\ orphaned \subseteq Runs
  BY DEF TypeOK
<1>1. ASSUME NEW t \in Runs, Create(t)
      PROVE  Current'
  BY <1>0, NoneAssumption, <1>1 DEF Current, Create
<1>2. ASSUME NEW w \in Web, NEW op \in Ops, NEW t \in Runs, Load(w, op, t)
      PROVE  Current'
  <2>1. /\ row' = row /\ worker' = worker /\ stopSet' = stopSet
        /\ web'[w].jid = row[t].jid /\ web'[w].state = row[t].state
        /\ \A v \in Web \ {w} : web'[v] = web[v]
    BY <1>0, NoneAssumption, <1>2 DEF Load, NoRequest
  <2>2. \A u \in Runs : row[u].jid \in Jids /\ row[u].jid = row[t].jid => u = t
    BY NoneAssumption DEF JidsOwned
  <2>3. QED
    BY <2>1, <2>2 DEF Current
<1>3. ASSUME NEW w \in Web, Refuse(w)
      PROVE  Current'
  BY <1>0, NoneAssumption, <1>3 DEF Current, Refuse, NoRequest, Request
<1>4. ASSUME NEW w \in Web, Enqueue(w)
      PROVE  Current'
  BY <1>0, NoneAssumption, <1>4 DEF Current, Enqueue, Update, Reading, NoRequest, Request
<1>5. ASSUME NEW w \in Web, Cancel(w)
      PROVE  Current'
  BY <1>0, NoneAssumption, <1>5 DEF Current, Cancel, Update, Reading, NoRequest, Request
<1>6. ASSUME NEW w \in Web, Stop(w)
      PROVE  Current'
  <2>1. /\ row' = row /\ worker' = worker
        /\ stopSet' \subseteq stopSet \cup {web[w].jid}
        /\ web[w].state # "queued"
    BY <1>6 DEF Stop, Allowed, CanFire, Transitions
  <2>2. \A v \in Web : web'[v].jid = web[v].jid /\ web'[v].state = web[v].state
    BY <1>0, NoneAssumption, <1>6 DEF Stop, Update, Request
  <2>3. QED
    BY <2>1, <2>2 DEF Current
<1>7. ASSUME NEW w \in Web, Commit(w)
      PROVE  Current'
  <2>1. /\ web'[w].pc = "idle" /\ web'[w].jid = None
        /\ \A v \in Web \ {w} : web'[v] = web[v]
    BY <1>0, NoneAssumption, <1>7 DEF Commit, NoRequest
  <2>2. worker' = worker /\ stopSet' = stopSet
    BY <1>7 DEF Commit
  <2>0. SUFFICES ASSUME NEW t \in Runs, row'[t].state = "queued"
        PROVE  /\ row'[t].jid \in Jids
               /\ row'[t].jid \notin stopSet'
               /\ \A v \in Web : web'[v].jid = row'[t].jid => web'[v].state = "queued"
               /\ \A q \in Workers : worker'[q].rowJid = row'[t].jid => ~worker'[q].started
    BY DEF Current
  <2>3. CASE t = web[w].run /\ row'[t] # row[t]
    <3>1. Enqueues(w) /\ row'[t].jid = web[w].job
      BY SMTT(40), <1>0, <2>0, <2>3, <1>7 DEF Commit, Known, Enqueues, Written, Transitions
    <3>2. web[w].job \in Jids
      BY <3>1 DEF Enqueues, Known
    <3>3. QED
      BY <2>1, <2>2, <3>1, <3>2, NoneAssumption DEF Unread
  <2>4. CASE row'[t] = row[t]
    BY <2>0, <2>1, <2>2, <2>4, NoneAssumption DEF Current
  <2>5. QED
    <3>1. t # web[w].run => row'[t] = row[t]
      BY <1>0, NoneAssumption, <1>7 DEF Commit
    <3>2. QED
      BY <2>3, <2>4, <3>1
<1>8. ASSUME NEW w \in Web, Destroy(w)
      PROVE  Current'
  BY <1>0, NoneAssumption, <1>8 DEF Current, Destroy, Reading, NoRequest, Request
<1>9. ASSUME NEW p \in Workers, Fetch(p)
      PROVE  Current'
  BY <1>0, NoneAssumption, <1>9 DEF Current, Fetch, UnchangedWeb, NoJob, Performance, Known
<1>10. ASSUME NEW p \in Workers, CheckSignal(p)
      PROVE  Current'
  BY <1>0, NoneAssumption, <1>10 DEF Current, CheckSignal, UnchangedWeb, Drop, NoJob, Performance
<1>11. ASSUME NEW p \in Workers, Find(p)
      PROVE  Current'
  BY <1>0, NoneAssumption, <1>11 DEF Current, Find, UnchangedWeb, NoJob, Performance, Known
<1>12. ASSUME NEW p \in Workers, FindNothing(p)
      PROVE  Current'
  BY <1>0, NoneAssumption, <1>12 DEF Current, FindNothing, UnchangedWeb, Drop, NoJob, Performance
<1>13. ASSUME NEW p \in Workers, Start(p)
      PROVE  Current'
  <2>1. PICK t \in Runs : worker[p].run = t
    BY <1>13 DEF Start, Known
  <2>2. /\ web' = web /\ stopSet' = stopSet
        /\ row'[t].state # "queued"
        /\ \A u \in Runs \ {t} : row'[u] = row[u]
        /\ worker'[p].rowJid = worker[p].rowJid
        /\ \A q \in Workers \ {p} : worker'[q] = worker[q]
    BY <1>0, <2>1, <1>13 DEF Start, UnchangedWeb, Performance, Written, Transitions
  <2>3. \A u \in Runs \ {t} : row[u].jid \in Jids => worker[p].rowJid # row[u].jid
    BY <2>1, NoneAssumption DEF JidsOwned
  <2>4. QED
    BY <2>2, <2>3 DEF Current
<1>14. ASSUME NEW p \in Workers, StartRefused(p)
      PROVE  Current'
  BY <1>0, NoneAssumption, <1>14 DEF Current, StartRefused, UnchangedWeb, Step, NoJob, Performance
<1>15. ASSUME NEW p \in Workers, RunReturns(p)
      PROVE  Current'
  BY <1>0, NoneAssumption, <1>15 DEF Current, RunReturns, UnchangedWeb, Step, NoJob, Performance
<1>16. ASSUME NEW p \in Workers, RunRaises(p)
      PROVE  Current'
  BY <1>0, NoneAssumption, <1>16 DEF Current, RunRaises, UnchangedWeb, Step, NoJob, Performance
<1>17. ASSUME NEW p \in Workers, Judge(p)
      PROVE  Current'
  BY <1>0, NoneAssumption, <1>17 DEF Current, Judge, UnchangedWeb, Step, NoJob, Performance
<1>18. ASSUME NEW p \in Workers, WriteStop(p)
      PROVE  Current'
  <2>1. PICK t \in Runs : worker[p].run = t
    BY <1>18 DEF WriteStop, Write, Known
  <2>2. /\ web' = web
        /\ stopSet' \subseteq stopSet \cup {worker[p].rowJid}
        /\ row'[t].state # "queued"
        /\ \A u \in Runs \ {t} : row'[u] = row[u]
        /\ worker[p].started
    BY <1>0, <2>1, <1>18 DEF WriteStop, Write, UnchangedWeb, Locked, Written, Transitions
  <2>3. ~worker'[p].started /\ \A q \in Workers \ {p} : worker'[q] = worker[q]
    BY <1>0, NoneAssumption, <1>18 DEF WriteStop, Write, Drop, NoJob
  <2>4. QED
    BY <2>2, <2>3 DEF Current
<1>19. ASSUME NEW p \in Workers, WriteComplete(p)
      PROVE  Current'
  BY <1>0, NoneAssumption, <1>19 DEF Current, WriteComplete, UnchangedWeb, Write, Drop, NoJob, Performance, Written, Transitions, Known
<1>20. ASSUME NEW p \in Workers, WriteErrors(p)
      PROVE  Current'
  BY <1>0, NoneAssumption, <1>20 DEF Current, WriteErrors, UnchangedWeb, Write, Drop, NoJob, Performance, Written, Transitions, Known
<1>22. ASSUME NEW p \in Workers, ErrorsRefused(p)
      PROVE  Current'
  BY <1>0, NoneAssumption, <1>22 DEF Current, ErrorsRefused, UnchangedWeb, Drop, NoJob, Performance
<1>23. ASSUME NEW p \in Workers, Terminate(p)
      PROVE  Current'
  BY SMTT(40), <1>0, NoneAssumption, <1>23 DEF Current, Terminate, UnchangedWeb, Dies, NoJob, Performance
<1>24. ASSUME NEW p \in Workers, Kill(p)
      PROVE  Current'
  BY <1>0, NoneAssumption, <1>24 DEF Current, Kill, UnchangedWeb, Fault, Dies, NoJob, Performance
<1>25. ASSUME NEW p \in Workers, Requeue(p)
      PROVE  Current'
  BY <1>0, NoneAssumption, <1>25 DEF Current, Requeue, UnchangedWeb, Fault, NoJob, Performance
<1>26. ASSUME NEW p \in Workers, CheckSignalFails(p)
      PROVE  Current'
  BY <1>0, NoneAssumption, <1>26 DEF Current, CheckSignalFails, UnchangedWeb, Fault, Step, NoJob, Performance
<1>27. ASSUME NEW p \in Workers, NEW j \in Jids, Poll(p, j)
      PROVE  Current'
  BY <1>0, NoneAssumption, <1>27 DEF Current, Poll, UnchangedWeb, Holds, NoJob, Performance
<1>28. ASSUME NEW p \in Workers, NEW j \in Jids, PollerEnds(p, j)
      PROVE  Current'
  BY <1>0, NoneAssumption, <1>28 DEF Current, PollerEnds, UnchangedWeb
<1>29. ASSUME NEW w \in Web, Crash(w)
      PROVE  Current'
  BY <1>0, NoneAssumption, <1>29 DEF Current, Crash, Fault, NoRequest, Request
<1>30. ASSUME NEW t \in Runs, Orphan(t)
      PROVE  Current'
  BY <1>0, NoneAssumption, <1>30 DEF Current, Orphan, Fault
<1>31. CASE UNCHANGED vars
  BY <1>31 DEF vars, Current
<1>32. QED
  BY <1>1, <1>2, <1>3, <1>4, <1>5, <1>6, <1>7, <1>8, <1>9,
     <1>10, <1>11, <1>12, <1>13, <1>14, <1>15, <1>16, <1>17, <1>18,
     <1>19, <1>20, <1>22, <1>23, <1>24, <1>25, <1>26, <1>27,
     <1>28, <1>29, <1>30, <1>31
  DEF Next, WebStep, WorkerStep, PollerStep, FaultStep

(* A step of a worker keeps the jobs of queued runs if no job but l is     *)
(* taken from the queue or dropped, and l was to be stopped, or its run    *)
(* is excused, or is not queued and no transaction has its row.            *)
LEMMA WorkerKeeps ==
  ASSUME TypeOK, Known, JidsOwned, Locked, Unread, Current, Backed,
         UNCHANGED <<lock, web, jobRun>>,
         \A t \in Runs : harm[t] \subseteq harm'[t],
         \A t \in Runs : row'[t].state = "queued" => row'[t] = row[t],
         NEW l \in Jids,
         \A j \in Jids \ {l} : Safe(j) => Safe(j)',
         NEW t \in Runs, jobRun[l] = t,
         \/ Safe(l) => Safe(l)'
         \/ l \in stopSet
         \/ Excused(t)'
         \/ /\ row'[t].state # "queued"
            /\ lock[t] = None \/ row[t].state = "destroyed"
  PROVE  Backed'
<1>1. \A u \in Runs : Excused(u) => Excused(u)'
  BY DEF Excused, Harmed
<1>2. \A u \in Runs : Canceling(u)' = Canceling(u)
  BY DEF Canceling
<1>3. \A v \in Web : Enqueues(v)' = Enqueues(v)
  BY DEF Enqueues
<1>4. ASSUME NEW u \in Runs, row'[u].state = "queued", ~Excused(u)'
      PROVE  Safe(row[u].jid)' \/ Canceling(u)'
  <2>1. PICK j \in Jids : j = row[u].jid
    BY <1>4 DEF Current
  <2>2. Safe(j) \/ Canceling(u)
    BY <1>1, <1>4, <2>1 DEF Backed
  <2>3. j = l => t = u
    BY <1>4, <2>1, NoneAssumption DEF JidsOwned
  <2>4. row'[u] = row[u] /\ j \notin stopSet
    BY <1>4, <2>1 DEF Current
  <2>5. Safe(j)' \/ Canceling(u)'
    BY <1>2, <1>4, <2>2, <2>3, <2>4
  <2>6. QED
    BY <2>1, <2>4, <2>5 DEF Safe
<1>5. ASSUME NEW v \in Web, Enqueues(v), lock[web[v].run] = v, ~Excused(web[v].run)'
      PROVE  Safe(web[v].job)'
  <2>1. PICK j \in Jids : j = web[v].job
    BY <1>5 DEF Enqueues, Known
  <2>2. PICK u \in Runs : u = web[v].run
    BY <1>5 DEF Enqueues, Known
  <2>3. ~Excused(u)' /\ ~Excused(u)
    BY <1>1, <1>5, <2>2 DEF Excused, Harmed
  <2>4. Safe(j) /\ j \notin stopSet
    BY <1>5, <2>1, <2>2, <2>3 DEF Backed, Unread
  <2>5. j = l => t = u
    BY <1>5, <2>1, <2>2 DEF JidsOwned, Enqueues
  <2>6. lock[u] # None /\ row[u].state # "destroyed"
    BY <1>5, <2>2, NoneAssumption DEF Locked
  <2>7. Safe(j)'
    BY <2>3, <2>4, <2>5, <2>6
  <2>8. QED
    BY <2>1, <2>7 DEF Safe
<1>6. QED
  BY <1>3, <1>4, <1>5 DEF Backed, Safe, Excused, Harmed, Canceling, Enqueues

(* Whoever works on a job keeps it safe; one that ends it, or waits to be  *)
(* ended by a shutdown, takes nothing from the other jobs.                 *)
LEMMA GoesOnSafe ==
  ASSUME queue' = queue, NEW p \in Workers,
         \A q \in Workers \ {p} : worker'[q] = worker[q],
         \A j \in Jids : Working(worker[p], j) => Working(worker'[p], j)
  PROVE  \A j \in Jids : Safe(j) => Safe(j)'
BY DEF Safe

LEMMA DropsOne ==
  ASSUME queue' = queue, NEW p \in Workers, NEW l, worker[p].jid = l,
         \A q \in Workers \ {p} : worker'[q] = worker[q]
  PROVE  \A j \in Jids \ {l} : Safe(j) => Safe(j)'
BY DEF Safe, Working

(* A step of a request that leaves the queue alone.                        *)
LEMMA WebKeeps ==
  ASSUME TypeOK, Known, Locked, Backed,
         UNCHANGED <<worker, queue>>,
         NEW w \in Web, web[w].pc # "acted", web'[w].pc # "acted",
         \A v \in Web \ {w} : web'[v] = web[v],
         lock' = lock, harm' = harm,
         \A t \in Runs : row'[t].state = "queued" => row'[t] = row[t]
  PROVE  Backed'
<1>1. \A j : Safe(j)' = Safe(j)
  BY DEF Safe
<1>2. \A u \in Runs : Excused(u)' = Excused(u)
  BY DEF Excused, Harmed
<1>3. \A u \in Runs : Canceling(u) => Canceling(u)'
  BY DEF Canceling, Locked
<1>4. ASSUME NEW u \in Runs, row'[u].state = "queued", ~Excused(u)'
      PROVE  Safe(row[u].jid)' \/ Canceling(u)'
  <2>1. row'[u] = row[u] /\ (Safe(row[u].jid) \/ Canceling(u))
    BY <1>2, <1>4 DEF Backed
  <2>2. QED
    BY <1>3, <2>1 DEF Safe
<1>5. ASSUME NEW v \in Web, Enqueues(v)', lock'[web'[v].run] = v, ~Excused(web[v].run)'
      PROVE  Safe(web[v].job)'
  <2>1. v # w /\ web'[v] = web[v] /\ Enqueues(v)
    BY <1>5 DEF Enqueues
  <2>2. ~Excused(web[v].run)
    BY <1>5, <2>1 DEF Excused, Harmed
  <2>3. Safe(web[v].job)
    BY <1>5, <2>1, <2>2 DEF Backed
  <2>4. QED
    BY <2>1, <2>3 DEF Safe
<1>6. QED
  BY <1>4, <1>5 DEF Backed

(* A step of a worker that drops no job keeps the jobs of queued runs.     *)
LEMMA AllSafe ==
  ASSUME TypeOK, Known, JidsOwned, Locked, Unread, Current, Backed,
         UNCHANGED <<lock, web, jobRun>>,
         \A t \in Runs : harm[t] \subseteq harm'[t],
         \A t \in Runs : row'[t].state = "queued" => row'[t] = row[t],
         \A j \in Jids : Safe(j) => Safe(j)'
  PROVE  Backed'
<1>1. CASE \E l \in Jids : jobRun[l] \in Runs
  <2>1. PICK l \in Jids, t \in Runs : jobRun[l] = t
    BY <1>1
  <2>2. Safe(l) => Safe(l)'
    OBVIOUS
  <2>3. QED
    BY <2>1, <2>2, WorkerKeeps
<1>2. CASE \A l \in Jids : jobRun[l] \notin Runs
  <2>1. \A u \in Runs : row[u].state # "queued"
    BY <1>2, NoneAssumption DEF Current, JidsOwned
  <2>2. \A v \in Web : ~Enqueues(v)
    BY <1>2 DEF Enqueues, Known, JidsOwned
  <2>3. \A v \in Web : ~Enqueues(v)'
    BY <2>2 DEF Enqueues
  <2>4. QED
    BY <2>1, <2>3 DEF Backed
<1>3. QED
  BY <1>1, <1>2

(* Every step keeps a job for every queued run.                            *)
LEMMA BackedStep ==
  ASSUME TypeOK, Known, OneHolder, JidsOwned, Locked, Unread, Current, Backed, [Next]_vars
  PROVE  Backed'
<1> USE DEF dbVars, jobVars, histVars
<1>0. /\ row \in [Runs -> [state : RowStates, jid : Jid]]
      /\ lock \in [Runs -> Web \cup {None}]
      /\ web \in [Web -> Request]
      /\ worker \in [Workers -> Performance]
      /\ harm \in [Runs -> SUBSET AllFaults]
      /\ stopSet \subseteq Jids /\ orphaned \subseteq Runs
      /\ queue \in Seq(Jids)
  BY DEF TypeOK
<1>1. ASSUME NEW t \in Runs, Create(t)
      PROVE  Backed'
  <2>1. UNCHANGED <<lock, web, jobRun, harm, queue, worker>>
    BY <1>1 DEF Create
  <2>2. \A k \in Jids : Safe(k) => Safe(k)'
    BY <2>1 DEF Safe
  <2>3. \A u \in Runs : row'[u].state = "queued" => row'[u] = row[u]
    BY <1>0, <1>1 DEF Create
  <2>4. QED
    BY <2>1, <2>2, <2>3, AllSafe
<1>2. ASSUME NEW w \in Web, NEW op \in Ops, NEW t \in Runs, Load(w, op, t)
      PROVE  Backed'
  <2>1. UNCHANGED <<worker, queue, lock, harm>>
    BY <1>2 DEF Load
  <2>2. /\ web[w].pc # "acted" /\ web'[w].pc # "acted"
        /\ \A v \in Web \ {w} : web'[v] = web[v]
    BY <1>0, <1>2 DEF Load, NoRequest, Reading
  <2>3. \A u \in Runs : row'[u].state = "queued" => row'[u] = row[u]
    BY <1>0, <1>2 DEF Load, Reading, Known
  <2>4. QED
    BY <2>1, <2>2, <2>3, WebKeeps
<1>3. ASSUME NEW w \in Web, Refuse(w)
      PROVE  Backed'
  <2>1. UNCHANGED <<worker, queue, lock, harm>>
    BY <1>3 DEF Refuse
  <2>2. /\ web[w].pc # "acted" /\ web'[w].pc # "acted"
        /\ \A v \in Web \ {w} : web'[v] = web[v]
    BY <1>0, <1>3 DEF Refuse, NoRequest, Reading
  <2>3. \A u \in Runs : row'[u].state = "queued" => row'[u] = row[u]
    BY <1>0, <1>3 DEF Refuse, Reading, Known
  <2>4. QED
    BY <2>1, <2>2, <2>3, WebKeeps
<1>4. ASSUME NEW w \in Web, Enqueue(w)
      PROVE  Backed'
  <2>1. PICK t \in Runs : web[w].run = t
    BY <1>4 DEF Enqueue, Reading, Known
  <2>2. /\ row' = row /\ worker' = worker /\ harm' = harm
        /\ lock[t] = None
        /\ lock' = [lock EXCEPT ![t] = IF row[t].state = "destroyed" THEN None ELSE w]
    BY <1>4, <2>1 DEF Enqueue, Update, Unlocked
  <2>3. /\ web[w].pc = "loaded" /\ web'[w].op = web[w].op /\ web[w].op = "enqueue"
        /\ web'[w].run = t
        /\ \A v \in Web \ {w} : web'[v] = web[v]
    BY <1>0, <2>1, <1>4 DEF Enqueue, Update, Reading, Request
  <2>4. /\ lock'[t] = IF row[t].state = "destroyed" THEN None ELSE w
        /\ \A u \in Runs \ {t} : lock'[u] = lock[u]
    BY <1>0, <2>2
  <2>5. \A u \in Runs : Excused(u)' = Excused(u)
    BY <2>2 DEF Excused, Harmed
  <2>6. \A u \in Runs : Canceling(u) => Canceling(u)'
    <3>1. SUFFICES ASSUME NEW u \in Runs, NEW v \in Web, lock[u] = v, web[v].op = "cancel"
                   PROVE  lock'[u] = v /\ web'[v].op = "cancel"
      BY DEF Canceling
    <3>2. web[v].pc = "acted" /\ u # t
      BY <2>2, <3>1, NoneAssumption DEF Locked
    <3>3. v # w
      BY <2>3, <3>2
    <3>4. QED
      BY <2>3, <2>4, <3>1, <3>2, <3>3
  <2>7. ASSUME NEW v \in Web \ {w}, Enqueues(v)', lock'[web'[v].run] = v, ~Excused(web[v].run)'
        PROVE  /\ web'[v] = web[v] /\ Enqueues(v) /\ lock[web[v].run] = v
               /\ ~Excused(web[v].run) /\ Safe(web[v].job)
    <3>1. web'[v] = web[v] /\ Enqueues(v)
      BY <2>3, <2>7 DEF Enqueues
    <3>2. web[v].run \in Runs /\ web[v].run # t
      BY <2>4, <2>7, <3>1, NoneAssumption DEF Enqueues, Known
    <3>3. lock[web[v].run] = v /\ ~Excused(web[v].run)
      BY <2>2, <2>4, <2>7, <3>1, <3>2 DEF Excused, Harmed
    <3>4. QED
      BY <3>1, <3>3 DEF Backed
  <2>8. /\ \A k \in Jids : Safe(k) => Safe(k)'
        /\ web'[w].job \in Range(queue')
    <3>1. PICK j \in Jids : /\ jobRun[j] = None /\ queue' = Append(queue, j)
                            /\ Update(w, j)
      BY <1>4 DEF Enqueue
    <3>2. j \notin Range(queue)
      BY <3>1, NoneAssumption DEF Known
    <3>3. Range(queue') = Range(queue) \cup {j}
      BY <1>0, <3>1, <3>2, AppendAdds DEF Known
    <3>4. web'[w].job = j
      BY <1>0, <3>1 DEF Update, Request
    <3>5. QED
      BY <2>2, <3>3, <3>4 DEF Safe
  <2>9. ASSUME NEW u \in Runs, row'[u].state = "queued", ~Excused(u)'
        PROVE  Safe(row[u].jid)' \/ Canceling(u)'
    <3>1. Safe(row[u].jid) \/ Canceling(u)
      BY <2>2, <2>5, <2>9 DEF Backed
    <3>2. PICK j \in Jids : j = row[u].jid
      BY <2>2, <2>9 DEF Current
    <3>3. QED
      BY <2>2, <2>6, <2>8, <3>1, <3>2 DEF Safe
  <2>10. ASSUME NEW v \in Web, Enqueues(v)', lock'[web'[v].run] = v, ~Excused(web[v].run)'
         PROVE  Safe(web[v].job)'
    <3>1. CASE v = w
      BY <2>8, <3>1 DEF Safe
    <3>2. CASE v # w
      <4>1. web'[v] = web[v] /\ Enqueues(v) /\ Safe(web[v].job)
        BY <2>7, <2>10, <3>2
      <4>2. PICK j \in Jids : j = web[v].job
        BY <4>1 DEF Enqueues, Known
      <4>3. QED
        BY <2>8, <4>1, <4>2 DEF Safe
    <3>3. QED
      BY <3>1, <3>2
  <2>11. QED
    BY <2>9, <2>10 DEF Backed
<1>5. ASSUME NEW w \in Web, Cancel(w)
      PROVE  Backed'
  <2>1. PICK t \in Runs : web[w].run = t
    BY <1>5 DEF Cancel, Reading, Known
  <2>2. /\ row' = row /\ worker' = worker /\ harm' = harm
        /\ lock[t] = None
        /\ lock' = [lock EXCEPT ![t] = IF row[t].state = "destroyed" THEN None ELSE w]
    BY <1>5, <2>1 DEF Cancel, Update, Unlocked
  <2>3. /\ web[w].pc = "loaded" /\ web'[w].op = web[w].op /\ web[w].op = "cancel"
        /\ web'[w].run = t
        /\ \A v \in Web \ {w} : web'[v] = web[v]
    BY <1>0, <2>1, <1>5 DEF Cancel, Update, Reading, Request
  <2>4. /\ lock'[t] = IF row[t].state = "destroyed" THEN None ELSE w
        /\ \A u \in Runs \ {t} : lock'[u] = lock[u]
    BY <1>0, <2>2
  <2>5. \A u \in Runs : Excused(u)' = Excused(u)
    BY <2>2 DEF Excused, Harmed
  <2>6. \A u \in Runs : Canceling(u) => Canceling(u)'
    <3>1. SUFFICES ASSUME NEW u \in Runs, NEW v \in Web, lock[u] = v, web[v].op = "cancel"
                   PROVE  lock'[u] = v /\ web'[v].op = "cancel"
      BY DEF Canceling
    <3>2. web[v].pc = "acted" /\ u # t
      BY <2>2, <3>1, NoneAssumption DEF Locked
    <3>3. v # w
      BY <2>3, <3>2
    <3>4. QED
      BY <2>3, <2>4, <3>1, <3>2, <3>3
  <2>7. ASSUME NEW v \in Web \ {w}, Enqueues(v)', lock'[web'[v].run] = v, ~Excused(web[v].run)'
        PROVE  /\ web'[v] = web[v] /\ Enqueues(v) /\ lock[web[v].run] = v
               /\ ~Excused(web[v].run) /\ Safe(web[v].job)
    <3>1. web'[v] = web[v] /\ Enqueues(v)
      BY <2>3, <2>7 DEF Enqueues
    <3>2. web[v].run \in Runs /\ web[v].run # t
      BY <2>4, <2>7, <3>1, NoneAssumption DEF Enqueues, Known
    <3>3. lock[web[v].run] = v /\ ~Excused(web[v].run)
      BY <2>2, <2>4, <2>7, <3>1, <3>2 DEF Excused, Harmed
    <3>4. QED
      BY <3>1, <3>3 DEF Backed
  <2>8. \A k \in Jids : k # web[w].jid /\ Safe(k) => Safe(k)'
    <3>1. queue' = Without(queue, web[w].jid)
      BY <1>5 DEF Cancel
    <3>2. Range(queue') = Range(queue) \ {web[w].jid}
      BY <1>0, <3>1, WithoutRemoves DEF Known
    <3>3. QED
      BY <2>2, <3>2 DEF Safe
  <2>9. ASSUME NEW u \in Runs, row'[u].state = "queued", ~Excused(u)'
        PROVE  Safe(row[u].jid)' \/ Canceling(u)'
    <3>1. Safe(row[u].jid) \/ Canceling(u)
      BY <2>2, <2>5, <2>9 DEF Backed
    <3>2. PICK j \in Jids : j = row[u].jid
      BY <2>2, <2>9 DEF Current
    <3>3. CASE j = web[w].jid
      <4>1. u = t
        <5>1. j # None
          BY <3>2, NoneAssumption
        <5>2. jobRun[j] = u
          BY <3>2, <5>1 DEF JidsOwned
        <5>3. jobRun[j] = t
          BY <2>1, <3>3, <5>1 DEF JidsOwned
        <5>4. QED
          BY <5>2, <5>3
      <4>2. QED
        BY <2>2, <2>3, <2>4, <2>9, <4>1 DEF Canceling
    <3>4. CASE j # web[w].jid
      BY <2>2, <2>6, <2>8, <3>1, <3>2, <3>4 DEF Safe
    <3>5. QED
      BY <3>3, <3>4
  <2>10. ASSUME NEW v \in Web, Enqueues(v)', lock'[web'[v].run] = v, ~Excused(web[v].run)'
         PROVE  Safe(web[v].job)'
    <3>1. v # w
      BY <2>3, <2>10 DEF Enqueues
    <3>2. web'[v] = web[v] /\ Enqueues(v) /\ Safe(web[v].job)
      BY <2>7, <2>10, <3>1
    <3>3. PICK j \in Jids : j = web[v].job
      BY <3>2 DEF Enqueues, Known
    <3>4. j # web[w].jid
      BY <3>2, <3>3 DEF Unread
    <3>5. QED
      BY <2>8, <3>2, <3>3, <3>4 DEF Safe
  <2>11. QED
    BY <2>9, <2>10 DEF Backed
<1>6. ASSUME NEW w \in Web, Stop(w)
      PROVE  Backed'
  <2>1. PICK t \in Runs : web[w].run = t
    BY <1>6 DEF Stop, Reading, Known
  <2>2. /\ row' = row /\ worker' = worker /\ harm' = harm
        /\ lock[t] = None
        /\ lock' = [lock EXCEPT ![t] = IF row[t].state = "destroyed" THEN None ELSE w]
    BY <1>6, <2>1 DEF Stop, Update, Unlocked
  <2>3. /\ web[w].pc = "loaded" /\ web'[w].op = web[w].op /\ web[w].op = "stop"
        /\ web'[w].run = t
        /\ \A v \in Web \ {w} : web'[v] = web[v]
    BY <1>0, <2>1, <1>6 DEF Stop, Update, Reading, Request
  <2>4. /\ lock'[t] = IF row[t].state = "destroyed" THEN None ELSE w
        /\ \A u \in Runs \ {t} : lock'[u] = lock[u]
    BY <1>0, <2>2
  <2>5. \A u \in Runs : Excused(u)' = Excused(u)
    BY <2>2 DEF Excused, Harmed
  <2>6. \A u \in Runs : Canceling(u) => Canceling(u)'
    <3>1. SUFFICES ASSUME NEW u \in Runs, NEW v \in Web, lock[u] = v, web[v].op = "cancel"
                   PROVE  lock'[u] = v /\ web'[v].op = "cancel"
      BY DEF Canceling
    <3>2. web[v].pc = "acted" /\ u # t
      BY <2>2, <3>1, NoneAssumption DEF Locked
    <3>3. v # w
      BY <2>3, <3>2
    <3>4. QED
      BY <2>3, <2>4, <3>1, <3>2, <3>3
  <2>7. ASSUME NEW v \in Web \ {w}, Enqueues(v)', lock'[web'[v].run] = v, ~Excused(web[v].run)'
        PROVE  /\ web'[v] = web[v] /\ Enqueues(v) /\ lock[web[v].run] = v
               /\ ~Excused(web[v].run) /\ Safe(web[v].job)
    <3>1. web'[v] = web[v] /\ Enqueues(v)
      BY <2>3, <2>7 DEF Enqueues
    <3>2. web[v].run \in Runs /\ web[v].run # t
      BY <2>4, <2>7, <3>1, NoneAssumption DEF Enqueues, Known
    <3>3. lock[web[v].run] = v /\ ~Excused(web[v].run)
      BY <2>2, <2>4, <2>7, <3>1, <3>2 DEF Excused, Harmed
    <3>4. QED
      BY <3>1, <3>3 DEF Backed
  <2>8. \A k \in Jids : Safe(k) => Safe(k)'
    <3>1. queue' = queue
      BY <1>6 DEF Stop
    <3>2. QED
      BY <2>2, <3>1 DEF Safe
  <2>9. ASSUME NEW u \in Runs, row'[u].state = "queued", ~Excused(u)'
        PROVE  Safe(row[u].jid)' \/ Canceling(u)'
    <3>1. Safe(row[u].jid) \/ Canceling(u)
      BY <2>2, <2>5, <2>9 DEF Backed
    <3>2. PICK j \in Jids : j = row[u].jid
      BY <2>2, <2>9 DEF Current
    <3>3. QED
      BY <2>2, <2>6, <2>8, <3>1, <3>2 DEF Safe
  <2>10. ASSUME NEW v \in Web, Enqueues(v)', lock'[web'[v].run] = v, ~Excused(web[v].run)'
         PROVE  Safe(web[v].job)'
    <3>1. v # w
      BY <2>3, <2>10 DEF Enqueues
    <3>2. web'[v] = web[v] /\ Enqueues(v) /\ Safe(web[v].job)
      BY <2>7, <2>10, <3>1
    <3>3. PICK j \in Jids : j = web[v].job
      BY <3>2 DEF Enqueues, Known
    <3>4. QED
      BY <2>8, <3>2, <3>3 DEF Safe
  <2>11. QED
    BY <2>9, <2>10 DEF Backed
<1>7. ASSUME NEW w \in Web, Commit(w)
      PROVE  Backed'
  <2>1. PICK t \in Runs : web[w].run = t
    BY <1>7 DEF Commit, Known
  <2>2. /\ worker' = worker /\ queue' = queue
        /\ \A u \in Runs : harm[u] \subseteq harm'[u]
        /\ \A u \in Runs \ {t} : row'[u] = row[u]
        /\ lock' = [lock EXCEPT ![t] = IF lock[t] = w THEN None ELSE lock[t]]
    BY <1>0, <2>1, <1>7 DEF Commit
  <2>3. /\ web[w].pc = "acted" /\ web'[w].pc = "idle"
        /\ \A v \in Web \ {w} : web'[v] = web[v]
    BY <1>0, <1>7 DEF Commit, NoRequest
  <2>4. \A k : Safe(k)' = Safe(k)
    BY <2>2 DEF Safe
  <2>5. \A u \in Runs : Excused(u) => Excused(u)'
    BY <2>2 DEF Excused, Harmed
  <2>6. ASSUME NEW u \in Runs, u # t, row'[u].state = "queued", ~Excused(u)'
        PROVE  Safe(row[u].jid)' \/ Canceling(u)'
    <3>1. row'[u] = row[u] /\ (Safe(row[u].jid) \/ Canceling(u))
      BY <2>2, <2>5, <2>6 DEF Backed
    <3>2. Canceling(u) => Canceling(u)'
      <4>1. SUFFICES ASSUME NEW v \in Web, lock[u] = v, web[v].op = "cancel"
                     PROVE  lock'[u] = v /\ web'[v].op = "cancel"
        BY DEF Canceling
      <4>2. v # w
        BY <2>1, <2>6, <4>1 DEF Locked
      <4>3. QED
        BY <1>0, <2>2, <2>3, <2>6, <4>1, <4>2
    <3>3. PICK j : j = row[u].jid
      OBVIOUS
    <3>4. QED
      BY <2>4, <3>1, <3>2, <3>3
  <2>7. ASSUME row'[t].state = "queued", ~Excused(t)'
        PROVE  Safe(row[t].jid)' \/ Canceling(t)'
    <3>1. Enqueues(w) /\ row'[t].jid = web[w].job /\ row[t].state # "destroyed"
      BY <1>0, <2>1, <2>7, <1>7 DEF Commit, Known, Enqueues, Written, Transitions
    <3>2. lock[t] = w
      BY <2>1, <2>3, <3>1 DEF Locked
    <3>3. Safe(web[w].job)
      BY <2>1, <2>5, <2>7, <3>1, <3>2 DEF Backed
    <3>4. QED
      BY <2>2, <3>1, <3>3 DEF Safe
  <2>8. ASSUME NEW v \in Web, Enqueues(v)', lock'[web'[v].run] = v, ~Excused(web[v].run)'
        PROVE  Safe(web[v].job)'
    <3>1. v # w /\ web'[v] = web[v] /\ Enqueues(v)
      BY <2>3, <2>8 DEF Enqueues
    <3>2. PICK u \in Runs : u = web[v].run
      BY <3>1 DEF Enqueues, Known
    <3>3. lock[u] = v
      BY <1>0, <2>1, <2>2, <2>8, <3>1, <3>2, NoneAssumption
    <3>4. ~Excused(u)
      BY <2>2, <2>8, <3>1, <3>2 DEF Excused, Harmed
    <3>5. Safe(web[v].job)
      BY <3>1, <3>2, <3>3, <3>4 DEF Backed
    <3>6. QED
      BY <2>2, <3>1, <3>5 DEF Safe
  <2>9. QED
    BY <2>6, <2>7, <2>8 DEF Backed
<1>8. ASSUME NEW w \in Web, Destroy(w)
      PROVE  Backed'
  <2>1. UNCHANGED <<worker, queue, lock, harm>>
    BY <1>8 DEF Destroy
  <2>2. /\ web[w].pc # "acted" /\ web'[w].pc # "acted"
        /\ \A v \in Web \ {w} : web'[v] = web[v]
    BY <1>0, <1>8 DEF Destroy, NoRequest, Reading
  <2>3. \A u \in Runs : row'[u].state = "queued" => row'[u] = row[u]
    BY <1>0, <1>8 DEF Destroy, Reading, Known
  <2>4. QED
    BY <2>1, <2>2, <2>3, WebKeeps
<1>9. ASSUME NEW p \in Workers, Fetch(p)
      PROVE  Backed'
  <2>1. /\ UNCHANGED <<lock, web, jobRun>>
        /\ row' = row /\ harm' = harm /\ queue' = Tail(queue) /\ queue # << >>
        /\ worker[p].pc = "idle"
        /\ \A q \in Workers \ {p} : worker'[q] = worker[q]
    BY <1>0, <1>9 DEF Fetch, UnchangedWeb
  <2>2. Range(queue') = Range(queue) \ {Head(queue)}
    BY <1>0, <2>1, TailRemoves DEF Known
  <2>3. Working(worker'[p], Head(queue))
    BY <1>0, <1>9 DEF Fetch, NoJob, Working
  <2>4. \A k \in Jids : Safe(k) => Safe(k)'
    BY <2>1, <2>2, <2>3 DEF Safe, Working
  <2>5. QED
    BY <2>1, <2>4, AllSafe
<1>10. ASSUME NEW p \in Workers, CheckSignal(p)
      PROVE  Backed'
  <2>1. /\ UNCHANGED <<lock, web, jobRun, queue>>
        /\ row' = row /\ harm' = harm /\ worker[p].pc # "idle"
        /\ \A q \in Workers \ {p} : worker'[q] = worker[q]
    BY <1>0, <1>10 DEF CheckSignal, UnchangedWeb
  <2>2. PICK l \in Jids, t \in Runs : worker[p].jid = l /\ jobRun[l] = t
    BY <2>1 DEF Known
  <2>3. CASE l \in stopSet
    <3>1. \A k \in Jids \ {l} : Safe(k) => Safe(k)'
      BY <2>1, <2>2, DropsOne
    <3>2. QED
      BY <2>1, <2>2, <2>3, <3>1, WorkerKeeps
  <2>4. CASE l \notin stopSet
    <3>1. \A k \in Jids : Working(worker[p], k) => Working(worker'[p], k)
      BY <1>0, <2>2, <2>4, <1>10 DEF CheckSignal, Performance, Working
    <3>2. \A k \in Jids : Safe(k) => Safe(k)'
      BY <2>1, <3>1, GoesOnSafe
    <3>3. QED
      BY <2>1, <3>2, AllSafe
  <2>5. QED
    BY <2>3, <2>4
<1>11. ASSUME NEW p \in Workers, Find(p)
      PROVE  Backed'
  <2>1. /\ UNCHANGED <<lock, web, jobRun, queue>>
        /\ harm' = harm
    BY <1>11 DEF Find, UnchangedWeb
  <2>2. /\ \A q \in Workers \ {p} : worker'[q] = worker[q]
        /\ \A k \in Jids : Working(worker[p], k) => Working(worker'[p], k)
    BY <1>0, <1>11 DEF Find, Performance, Working
  <2>3. \A k \in Jids : Safe(k) => Safe(k)'
    BY <2>1, <2>2, GoesOnSafe
  <2>4. \A t \in Runs : row'[t].state = "queued" => row'[t] = row[t]
    BY <1>0, <1>11 DEF Find, Known
  <2>5. QED
    BY <2>1, <2>3, <2>4, AllSafe
<1>12. ASSUME NEW p \in Workers, FindNothing(p)
      PROVE  Backed'
  <2>1. /\ UNCHANGED <<lock, web, jobRun, queue>>
        /\ worker[p].pc # "idle"
        /\ \A q \in Workers \ {p} : worker'[q] = worker[q]
    BY <1>0, <1>12 DEF FindNothing, UnchangedWeb, Drop
  <2>2. PICK l \in Jids, t \in Runs :
           worker[p].jid = l /\ jobRun[l] = t /\ worker[p].run = t
    BY <2>1 DEF Known
  <2>3. \A k \in Jids \ {l} : Safe(k) => Safe(k)'
    BY <2>1, <2>2, DropsOne
  <2>4. \A u \in Runs : row'[u].state = "queued" => row'[u] = row[u]
    BY <1>0, <2>2, <1>12 DEF FindNothing, Drop
  <2>5. \A u \in Runs : harm[u] \subseteq harm'[u]
    BY <1>0, <1>12 DEF FindNothing, Drop
  <2>6. \/ Excused(t)'
        \/ /\ row'[t].state # "queued"
           /\ lock[t] = None \/ row[t].state = "destroyed"
    BY <1>0, <2>2, <1>12 DEF FindNothing, Drop
  <2>7. QED
    BY <2>1, <2>2, <2>3, <2>4, <2>5, <2>6, WorkerKeeps
<1>13. ASSUME NEW p \in Workers, Start(p)
      PROVE  Backed'
  <2>1. /\ UNCHANGED <<lock, web, jobRun, queue>>
        /\ harm' = harm
    BY <1>13 DEF Start, UnchangedWeb
  <2>2. /\ \A q \in Workers \ {p} : worker'[q] = worker[q]
        /\ \A k \in Jids : Working(worker[p], k) => Working(worker'[p], k)
    BY <1>0, <1>13 DEF Start, Performance, Working
  <2>3. \A k \in Jids : Safe(k) => Safe(k)'
    BY <2>1, <2>2, GoesOnSafe
  <2>4. \A t \in Runs : row'[t].state = "queued" => row'[t] = row[t]
    BY <1>0, <1>13 DEF Start, Known, Written, Transitions
  <2>5. QED
    BY <2>1, <2>3, <2>4, AllSafe
<1>14. ASSUME NEW p \in Workers, StartRefused(p)
      PROVE  Backed'
  <2>1. /\ UNCHANGED <<lock, web, jobRun, queue>>
        /\ harm' = harm
    BY <1>14 DEF StartRefused, UnchangedWeb, Step
  <2>2. /\ \A q \in Workers \ {p} : worker'[q] = worker[q]
        /\ \A k \in Jids : Working(worker[p], k) => Working(worker'[p], k)
    BY <1>0, <1>14 DEF StartRefused, Performance, Working, Step
  <2>3. \A k \in Jids : Safe(k) => Safe(k)'
    BY <2>1, <2>2, GoesOnSafe
  <2>4. \A t \in Runs : row'[t].state = "queued" => row'[t] = row[t]
    BY <1>0, <1>14 DEF StartRefused, Known
  <2>5. QED
    BY <2>1, <2>3, <2>4, AllSafe
<1>15. ASSUME NEW p \in Workers, RunReturns(p)
      PROVE  Backed'
  <2>1. /\ UNCHANGED <<lock, web, jobRun, queue>>
        /\ harm' = harm
    BY <1>15 DEF RunReturns, UnchangedWeb, Step
  <2>2. /\ \A q \in Workers \ {p} : worker'[q] = worker[q]
        /\ \A k \in Jids : Working(worker[p], k) => Working(worker'[p], k)
    BY <1>0, <1>15 DEF RunReturns, Performance, Working, Step
  <2>3. \A k \in Jids : Safe(k) => Safe(k)'
    BY <2>1, <2>2, GoesOnSafe
  <2>4. \A t \in Runs : row'[t].state = "queued" => row'[t] = row[t]
    BY <1>0, <1>15 DEF RunReturns, Known
  <2>5. QED
    BY <2>1, <2>3, <2>4, AllSafe
<1>16. ASSUME NEW p \in Workers, RunRaises(p)
      PROVE  Backed'
  <2>1. /\ UNCHANGED <<lock, web, jobRun, queue>>
        /\ harm' = harm
    BY <1>16 DEF RunRaises, UnchangedWeb, Step
  <2>2. /\ \A q \in Workers \ {p} : worker'[q] = worker[q]
        /\ \A k \in Jids : Working(worker[p], k) => Working(worker'[p], k)
    BY <1>0, <1>16 DEF RunRaises, Performance, Working, Step
  <2>3. \A k \in Jids : Safe(k) => Safe(k)'
    BY <2>1, <2>2, GoesOnSafe
  <2>4. \A t \in Runs : row'[t].state = "queued" => row'[t] = row[t]
    BY <1>0, <1>16 DEF RunRaises, Known
  <2>5. QED
    BY <2>1, <2>3, <2>4, AllSafe
<1>17. ASSUME NEW p \in Workers, Judge(p)
      PROVE  Backed'
  <2>1. /\ UNCHANGED <<lock, web, jobRun, queue>>
        /\ harm' = harm
    BY <1>17 DEF Judge, UnchangedWeb, Step
  <2>2. /\ \A q \in Workers \ {p} : worker'[q] = worker[q]
        /\ \A k \in Jids : Working(worker[p], k) => Working(worker'[p], k)
    BY <1>0, <1>17 DEF Judge, Performance, Working, Step
  <2>3. \A k \in Jids : Safe(k) => Safe(k)'
    BY <2>1, <2>2, GoesOnSafe
  <2>4. \A t \in Runs : row'[t].state = "queued" => row'[t] = row[t]
    BY <1>0, <1>17 DEF Judge, Known
  <2>5. QED
    BY <2>1, <2>3, <2>4, AllSafe
<1>18. ASSUME NEW p \in Workers, WriteStop(p)
      PROVE  Backed'
  <2>1. /\ UNCHANGED <<lock, web, jobRun, queue>>
        /\ worker[p].pc # "idle"
        /\ \A q \in Workers \ {p} : worker'[q] = worker[q]
    BY <1>0, <1>18 DEF WriteStop, UnchangedWeb, Write, Drop
  <2>2. PICK l \in Jids, t \in Runs :
           worker[p].jid = l /\ jobRun[l] = t /\ worker[p].run = t
    BY <2>1 DEF Known
  <2>3. \A k \in Jids \ {l} : Safe(k) => Safe(k)'
    BY <2>1, <2>2, DropsOne
  <2>4. \A u \in Runs : row'[u].state = "queued" => row'[u] = row[u]
    BY <1>0, <2>2, <1>18 DEF WriteStop, Write, Drop, Written, Transitions
  <2>5. \A u \in Runs : harm[u] \subseteq harm'[u]
    BY <1>0, <1>18 DEF WriteStop, Write, Drop
  <2>6. \/ Excused(t)'
        \/ /\ row'[t].state # "queued"
           /\ lock[t] = None \/ row[t].state = "destroyed"
    BY <1>0, <2>2, <1>18 DEF WriteStop, Write, Drop, Written, Transitions, Unlocked
  <2>7. QED
    BY <2>1, <2>2, <2>3, <2>4, <2>5, <2>6, WorkerKeeps
<1>19. ASSUME NEW p \in Workers, WriteComplete(p)
      PROVE  Backed'
  <2>1. /\ UNCHANGED <<lock, web, jobRun, queue>>
        /\ worker[p].pc # "idle"
        /\ \A q \in Workers \ {p} : worker'[q] = worker[q]
    BY <1>0, <1>19 DEF WriteComplete, UnchangedWeb, Write, Drop
  <2>2. PICK l \in Jids, t \in Runs :
           worker[p].jid = l /\ jobRun[l] = t /\ worker[p].run = t
    BY <2>1 DEF Known
  <2>3. \A k \in Jids \ {l} : Safe(k) => Safe(k)'
    BY <2>1, <2>2, DropsOne
  <2>4. \A u \in Runs : row'[u].state = "queued" => row'[u] = row[u]
    BY <1>0, <2>2, <1>19 DEF WriteComplete, Write, Drop, Written, Transitions
  <2>5. \A u \in Runs : harm[u] \subseteq harm'[u]
    BY <1>0, <1>19 DEF WriteComplete, Write, Drop
  <2>6. \/ Excused(t)'
        \/ /\ row'[t].state # "queued"
           /\ lock[t] = None \/ row[t].state = "destroyed"
    BY <1>0, <2>2, <1>19 DEF WriteComplete, Write, Drop, Written, Transitions, Unlocked
  <2>7. QED
    BY <2>1, <2>2, <2>3, <2>4, <2>5, <2>6, WorkerKeeps
<1>20. ASSUME NEW p \in Workers, WriteErrors(p)
      PROVE  Backed'
  <2>1. /\ UNCHANGED <<lock, web, jobRun, queue>>
        /\ worker[p].pc # "idle"
        /\ \A q \in Workers \ {p} : worker'[q] = worker[q]
    BY <1>0, <1>20 DEF WriteErrors, UnchangedWeb, Write, Drop
  <2>2. PICK l \in Jids, t \in Runs :
           worker[p].jid = l /\ jobRun[l] = t /\ worker[p].run = t
    BY <2>1 DEF Known
  <2>3. \A k \in Jids \ {l} : Safe(k) => Safe(k)'
    BY <2>1, <2>2, DropsOne
  <2>4. \A u \in Runs : row'[u].state = "queued" => row'[u] = row[u]
    BY <1>0, <2>2, <1>20 DEF WriteErrors, Write, Drop, Written, Transitions
  <2>5. \A u \in Runs : harm[u] \subseteq harm'[u]
    BY <1>0, <1>20 DEF WriteErrors, Write, Drop
  <2>6. \/ Excused(t)'
        \/ /\ row'[t].state # "queued"
           /\ lock[t] = None \/ row[t].state = "destroyed"
    BY <1>0, <2>2, <1>20 DEF WriteErrors, Write, Drop, Written, Transitions, Unlocked
  <2>7. QED
    BY <2>1, <2>2, <2>3, <2>4, <2>5, <2>6, WorkerKeeps
<1>22. ASSUME NEW p \in Workers, ErrorsRefused(p)
      PROVE  Backed'
  <2>1. /\ UNCHANGED <<lock, web, jobRun, queue>>
        /\ worker[p].pc # "idle"
        /\ \A q \in Workers \ {p} : worker'[q] = worker[q]
    BY <1>0, <1>22 DEF ErrorsRefused, UnchangedWeb, Drop
  <2>2. PICK l \in Jids, t \in Runs :
           worker[p].jid = l /\ jobRun[l] = t /\ worker[p].run = t
    BY <2>1 DEF Known
  <2>3. \A k \in Jids \ {l} : Safe(k) => Safe(k)'
    BY <2>1, <2>2, DropsOne
  <2>4. \A u \in Runs : row'[u].state = "queued" => row'[u] = row[u]
    BY <1>0, <2>2, <1>22 DEF ErrorsRefused, Drop
  <2>5. \A u \in Runs : harm[u] \subseteq harm'[u]
    BY <1>0, <1>22 DEF ErrorsRefused, Drop
  <2>6. \/ Excused(t)'
        \/ /\ row'[t].state # "queued"
           /\ lock[t] = None \/ row[t].state = "destroyed"
    BY <1>0, <2>2, <1>22 DEF ErrorsRefused, Drop, Locked, Excused, Harmed
  <2>7. QED
    BY <2>1, <2>2, <2>3, <2>4, <2>5, <2>6, WorkerKeeps
<1>23. ASSUME NEW p \in Workers, Terminate(p)
      PROVE  Backed'
  <2>1. /\ UNCHANGED <<lock, web, jobRun, queue>>
        /\ row' = row /\ worker[p].draining
        /\ worker' = [worker EXCEPT ![p] = NoJob]
    BY <1>23 DEF Terminate, UnchangedWeb, Dies
  <2>2. /\ \A q \in Workers \ {p} : worker'[q] = worker[q]
        /\ \A k \in Jids : ~Working(worker[p], k)
    BY <1>0, <2>1 DEF Working
  <2>3. \A k \in Jids : Safe(k) => Safe(k)'
    BY <2>1, <2>2, GoesOnSafe
  <2>4. \A u \in Runs : harm[u] \subseteq harm'[u]
    BY <1>0, <1>23 DEF Terminate, Dies
  <2>5. QED
    BY <2>1, <2>3, <2>4, AllSafe
<1>24. ASSUME NEW p \in Workers, Kill(p)
      PROVE  Backed'
  <2>1. /\ UNCHANGED <<lock, web, jobRun, queue>>
        /\ worker[p].pc # "idle"
        /\ \A q \in Workers \ {p} : worker'[q] = worker[q]
    BY <1>0, <1>24 DEF Kill, UnchangedWeb, Fault, Dies
  <2>2. PICK l \in Jids, t \in Runs :
           worker[p].jid = l /\ jobRun[l] = t /\ worker[p].run = t
    BY <2>1 DEF Known
  <2>3. \A k \in Jids \ {l} : Safe(k) => Safe(k)'
    BY <2>1, <2>2, DropsOne
  <2>4. \A u \in Runs : row'[u].state = "queued" => row'[u] = row[u]
    BY <1>0, <2>2, <1>24 DEF Kill, Fault, Dies
  <2>5. \A u \in Runs : harm[u] \subseteq harm'[u]
    BY <1>0, <1>24 DEF Kill, Fault, Dies
  <2>6. \/ Excused(t)'
        \/ /\ row'[t].state # "queued"
           /\ lock[t] = None \/ row[t].state = "destroyed"
    BY <1>0, <2>2, <1>24 DEF Kill, Fault, Dies, Excused, Harmed
  <2>7. QED
    BY <2>1, <2>2, <2>3, <2>4, <2>5, <2>6, WorkerKeeps
<1>25. ASSUME NEW p \in Workers, Requeue(p)
      PROVE  Backed'
  <2>1. /\ UNCHANGED <<lock, web, jobRun>>
        /\ row' = row /\ harm' = harm /\ queue' = <<worker[p].jid>> \o queue
        /\ worker[p].pc # "idle" /\ ~worker[p].draining
        /\ \A q \in Workers \ {p} : worker'[q] = worker[q]
    BY <1>0, <1>25 DEF Requeue, UnchangedWeb
  <2>2. worker[p].jid \in Jids /\ worker[p].jid \notin Range(queue)
    BY <2>1 DEF Known, OneHolder, Holds, Queued
  <2>3. Range(queue') = Range(queue) \cup {worker[p].jid}
    BY <1>0, <2>1, <2>2, ReturnAdds DEF Known
  <2>4. \A k \in Jids : Safe(k) => Safe(k)'
    BY <2>1, <2>3 DEF Safe, Working
  <2>5. QED
    BY <2>1, <2>4, AllSafe
<1>26. ASSUME NEW p \in Workers, CheckSignalFails(p)
      PROVE  Backed'
  <2>1. /\ UNCHANGED <<lock, web, jobRun, queue>>
        /\ harm' = harm
    BY <1>26 DEF CheckSignalFails, UnchangedWeb, Fault, Step
  <2>2. /\ \A q \in Workers \ {p} : worker'[q] = worker[q]
        /\ \A k \in Jids : Working(worker[p], k) => Working(worker'[p], k)
    BY <1>0, <1>26 DEF CheckSignalFails, Performance, Working, Fault, Step
  <2>3. \A k \in Jids : Safe(k) => Safe(k)'
    BY <2>1, <2>2, GoesOnSafe
  <2>4. \A t \in Runs : row'[t].state = "queued" => row'[t] = row[t]
    BY <1>0, <1>26 DEF CheckSignalFails, Known
  <2>5. QED
    BY <2>1, <2>3, <2>4, AllSafe
<1>27. ASSUME NEW p \in Workers, NEW j \in Jids, Poll(p, j)
      PROVE  Backed'
  <2>1. /\ UNCHANGED <<lock, web, jobRun, queue>>
        /\ row' = row /\ harm' = harm
    BY <1>27 DEF Poll, UnchangedWeb
  <2>2. /\ \A q \in Workers \ {p} : worker'[q] = worker[q]
        /\ \A k \in Jids : Working(worker[p], k) => Working(worker'[p], k)
    BY <1>0, <1>27 DEF Poll, Performance, Working
  <2>3. \A k \in Jids : Safe(k) => Safe(k)'
    BY <2>1, <2>2, GoesOnSafe
  <2>4. QED
    BY <2>1, <2>3, AllSafe
<1>28. ASSUME NEW p \in Workers, NEW j \in Jids, PollerEnds(p, j)
      PROVE  Backed'
  <2>1. UNCHANGED <<lock, web, jobRun, row, harm, queue, worker>>
    BY <1>28 DEF PollerEnds, UnchangedWeb
  <2>2. \A k \in Jids : Safe(k) => Safe(k)'
    BY <2>1 DEF Safe
  <2>3. QED
    BY <2>1, <2>2, AllSafe
<1>29. ASSUME NEW w \in Web, Crash(w)
      PROVE  Backed'
  <2>1. PICK t \in Runs : web[w].run = t
    BY <1>29 DEF Crash, Known
  <2>2. /\ worker' = worker /\ queue' = queue
        /\ \A u \in Runs : harm[u] \subseteq harm'[u]
        /\ \A u \in Runs \ {t} : row'[u] = row[u]
        /\ lock' = [lock EXCEPT ![t] = IF lock[t] = w THEN None ELSE lock[t]]
    BY <1>0, <2>1, <1>29 DEF Crash
  <2>3. /\ web[w].pc = "acted" /\ web'[w].pc = "idle"
        /\ \A v \in Web \ {w} : web'[v] = web[v]
    BY <1>0, <1>29 DEF Crash, NoRequest
  <2>4. \A k : Safe(k)' = Safe(k)
    BY <2>2 DEF Safe
  <2>5. \A u \in Runs : Excused(u) => Excused(u)'
    BY <2>2 DEF Excused, Harmed
  <2>6. ASSUME NEW u \in Runs, u # t, row'[u].state = "queued", ~Excused(u)'
        PROVE  Safe(row[u].jid)' \/ Canceling(u)'
    <3>1. row'[u] = row[u] /\ (Safe(row[u].jid) \/ Canceling(u))
      BY <2>2, <2>5, <2>6 DEF Backed
    <3>2. Canceling(u) => Canceling(u)'
      <4>1. SUFFICES ASSUME NEW v \in Web, lock[u] = v, web[v].op = "cancel"
                     PROVE  lock'[u] = v /\ web'[v].op = "cancel"
        BY DEF Canceling
      <4>2. v # w
        BY <2>1, <2>6, <4>1 DEF Locked
      <4>3. QED
        BY <1>0, <2>2, <2>3, <2>6, <4>1, <4>2
    <3>3. PICK j : j = row[u].jid
      OBVIOUS
    <3>4. QED
      BY <2>4, <3>1, <3>2, <3>3
  <2>7. Excused(t)'
    BY <1>0, <2>1, <1>29 DEF Crash, Excused, Harmed
  <2>8. ASSUME NEW v \in Web, Enqueues(v)', lock'[web'[v].run] = v, ~Excused(web[v].run)'
        PROVE  Safe(web[v].job)'
    <3>1. v # w /\ web'[v] = web[v] /\ Enqueues(v)
      BY <2>3, <2>8 DEF Enqueues
    <3>2. PICK u \in Runs : u = web[v].run
      BY <3>1 DEF Enqueues, Known
    <3>3. lock[u] = v
      BY <1>0, <2>1, <2>2, <2>8, <3>1, <3>2, NoneAssumption
    <3>4. ~Excused(u)
      BY <2>2, <2>8, <3>1, <3>2 DEF Excused, Harmed
    <3>5. Safe(web[v].job)
      BY <3>1, <3>2, <3>3, <3>4 DEF Backed
    <3>6. QED
      BY <2>2, <3>1, <3>5 DEF Safe
  <2>9. QED
    BY <2>6, <2>7, <2>8 DEF Backed
<1>30. ASSUME NEW t \in Runs, Orphan(t)
      PROVE  Backed'
  <2>1. UNCHANGED <<lock, web, jobRun, row, queue, worker>>
    BY <1>30 DEF Orphan
  <2>2. \A k \in Jids : Safe(k) => Safe(k)'
    BY <2>1 DEF Safe
  <2>3. \A u \in Runs : harm[u] \subseteq harm'[u]
    BY <1>0, <1>30 DEF Orphan
  <2>4. QED
    BY <2>1, <2>2, <2>3, AllSafe
<1>31. CASE UNCHANGED vars
  BY <1>31 DEF vars, Backed, Safe, Canceling, Enqueues, Excused, Harmed
<1>32. QED
  BY <1>1, <1>2, <1>3, <1>4, <1>5, <1>6, <1>7, <1>8, <1>9,
     <1>10, <1>11, <1>12, <1>13, <1>14, <1>15, <1>16, <1>17, <1>18,
     <1>19, <1>20, <1>22, <1>23, <1>24, <1>25, <1>26, <1>27,
     <1>28, <1>29, <1>30, <1>31
  DEF Next, WebStep, WorkerStep, PollerStep, FaultStep

(***************************************************************************)
(* The theorem                                                             *)
(***************************************************************************)

(* What the steps above preserve together. *)
QInv == SInv /\ Locked /\ Unread /\ Current /\ Backed

(* The initial states are in the invariant, and no step leaves it.         *)
LEMMA QueuedInvariant == Spec => []QInv
<1>1. Init => Locked /\ Unread /\ Current /\ Backed
  BY NoneAssumption DEF Init, Locked, Unread, Current, Backed, Enqueues, NoRequest, NoJob
<1>2. Init /\ SInv => QInv
  BY <1>1 DEF QInv
<1>3. QInv /\ SInv' /\ [Next]_vars => QInv'
  BY LockedStep, UnreadStep, CurrentStep, BackedStep DEF QInv, SInv, IInv
<1>4. QED
  BY <1>2, <1>3, SignalsInvariant, PTL DEF Spec

(* A run the table shows as queued has a job that waits or is in the hands *)
(* of a worker, or is just being canceled, unless a worker was killed with *)
(* its job, a request crashed, the run no longer is valid, or a failure    *)
(* was not written (test_run.rb, 161-176).                                 *)
THEOREM QueuedRunsHaveJobs == Spec => []QueuedHasJob
<1>1. QInv => QueuedHasJob
  <2>1. SUFFICES ASSUME QInv, NEW t \in Runs, row[t].state = "queued", ~Excused(t)
                 PROVE  \/ \E j \in Jids : jobRun[j] = t /\ Live(j)
                        \/ Canceling(t)
    BY DEF QueuedHasJob, Excused, Canceling
  <2>2. row[t].jid \in Jids /\ jobRun[row[t].jid] = t
    BY <2>1, NoneAssumption DEF QInv, SInv, Current, JidsOwned
  <2>3. Safe(row[t].jid) \/ Canceling(t)
    BY <2>1 DEF QInv, Backed
  <2>4. \A j \in Jids : Safe(j) => Live(j)
    BY DEF Safe, Live, Queued, Holds, Working
  <2>5. QED
    BY <2>2, <2>3, <2>4
<1>2. QED
  BY <1>1, QueuedInvariant, PTL
=============================================================================
