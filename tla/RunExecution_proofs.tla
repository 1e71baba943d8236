------------------------ MODULE RunExecution_proofs ------------------------
(***************************************************************************)
(* Proofs about RunExecution for every set of runs and with or without     *)
(* shutdowns.                                                              *)
(***************************************************************************)
EXTENDS RunExecution, TLAPS

(* Where the worker's thread is, as far as each SIPp process is concerned. *)
BeforeReceiver == {"registering", "registration", "receiving"}
BeforeLoad     == InTestRunner \cup InRunner \cup {"preparing", "spawning"}
AfterHalt      == {"unlinking", "judging", "done"}
AfterParse     == {"saving", "halting", "reaping", "unlinking", "judging"}

Gone == {"none", "reaped"}

(* A process runs only while the thread is between its start and its wait2. *)
Waited ==
  ~interrupted =>
    /\ main # "registration" => sipp["registration"] \in Gone
    /\ main \in BeforeReceiver => sipp["receiver"] = "none"
    /\ main \in AfterHalt => sipp["receiver"] \in Gone
    /\ main # "waiting" => sipp["load"] \in Gone

(* The socket is open from the Runner's creation to the ensure clause.     *)
Bound ==
  ~interrupted =>
    /\ main \in InTestRunner => socket = "none"
    /\ main \in AfterRunner \cup InEnsure \cup {"judging", "done"} => socket # "open"
    /\ main \in {"judging", "done"} /\ ~Has("receiver") => csvFiles = {}
    /\ main = "reaping" => Has("receiver")
    /\ sipp["receiver"] # "none" => Has("receiver")

(* What the flags say when they are read: TestRunner's is set before       *)
(* Runner's, so a run not stopped at "parsing" has data.  Nothing is       *)
(* stored before the parsers run.                                          *)
Read ==
  /\ runnerStopped => stopped
  /\ listener \in {"stopping", "killing"} => stopped
  /\ outcome = "none" <=> main # "done"
  /\ main = "parsing" /\ ~stopped => data
  /\ main = "storing" => data
  /\ main \notin AfterParse \cup {"done"} => ~stored
  /\ main \in AfterParse /\ exception = "none" /\ ~stopped => stored

IInv == TypeOK /\ Waited /\ Bound /\ Read

(* Every step keeps the types. *)
LEMMA TypeStep ==
  ASSUME TypeOK, [Next]_vars
  PROVE  TypeOK'
<1> USE DEF TypeOK, objects, threads, control, Mains, Roles, Ended, InTestRunner, InRunner, InBegin, AfterRunner, InEnsure
<1>1. CASE Register
  <2>1. main' \in Mains /\ exception' \in {"none", "error", "shutdown"}
    BY <1>1 DEF Register, PreparingRaises, Goto, Raise
  <2>2. csvFiles' \subseteq Roles
    BY <1>1 DEF Register, PreparingRaises, WriteCsv
  <2>3. sipp' \in [Roles -> {"none", "unstarted", "running", "reaped"} \cup Ended]
    BY <1>1 DEF Register, PreparingRaises, Spawned
  <2>4. QED
    BY <1>1, <2>1, <2>2, <2>3 DEF Register, UnchangedMain
<1>2. CASE RegistrationEnds
  BY <1>2 DEF RegistrationEnds, UnchangedMain, Goto, Raise, Reaped
<1>3. CASE StartReceiver
  <2>1. main' \in Mains /\ exception' \in {"none", "error", "shutdown"}
    BY <1>3 DEF StartReceiver, PreparingRaises, Goto, Raise
  <2>2. csvFiles' \subseteq Roles
    BY <1>3 DEF StartReceiver, PreparingRaises, WriteCsv
  <2>3. sipp' \in [Roles -> {"none", "unstarted", "running", "reaped"} \cup Ended]
    BY <1>3 DEF StartReceiver, PreparingRaises, Spawned
  <2>4. QED
    BY <1>3, <2>1, <2>2, <2>3 DEF StartReceiver, UnchangedMain
<1>4. CASE Build
  BY <1>4 DEF Build, UnchangedMain, Goto, WriteCsv
<1>5. CASE BuildRaises
  <2>1. csvFiles' \subseteq Roles
    BY <1>5 DEF BuildRaises, WriteCsv
  <2>2. QED
    BY <1>5, <2>1 DEF BuildRaises, UnchangedMain, Raise
<1>6. CASE StartCollector
  BY <1>6 DEF StartCollector, UnchangedMain, Goto
<1>7. CASE StartListener
  BY <1>7 DEF StartListener, UnchangedMain, Goto
<1>8. CASE Prepare
  BY <1>8 DEF Prepare, UnchangedMain, Goto, Raise
<1>9. CASE Spawn
  BY <1>9 DEF Spawn, UnchangedMain, Goto, Raise, Spawned
<1>10. CASE LoadEnds
  BY <1>10 DEF LoadEnds, UnchangedMain, Goto, Raise, Reaped
<1>11. CASE CheckSshErrors
  BY <1>11 DEF CheckSshErrors, UnchangedMain, Goto, Raise
<1>12. CASE Close
  <2>1. main' \in Mains /\ exception' = exception
    BY <1>12 DEF Close, Goto
  <2>2. socket' \in {"none", "open", "closed"}
    BY <1>12 DEF Close
  <2>3. collecting' \in BOOLEAN
    BY <1>12, Zenon DEF Close
  <2>4. QED
    BY <1>12, <2>1, <2>2, <2>3 DEF Close, UnchangedMain
<1>13. CASE Organize
  <2>1. main' \in Mains /\ exception' \in {"none", "error", "shutdown"}
    BY <1>13 DEF Organize, Goto, Raise
  <2>2. data' \in BOOLEAN
    BY <1>13, Zenon DEF Organize
  <2>3. QED
    BY <1>13, <2>1, <2>2 DEF Organize, UnchangedMain
<1>14. CASE Parse
  <2>1. main' \in Mains /\ exception' \in {"none", "error", "shutdown"}
    BY <1>14 DEF Parse, Goto, Raise
  <2>2. stored' \in BOOLEAN
    BY <1>14, Zenon DEF Parse
  <2>3. QED
    BY <1>14, <2>1, <2>2 DEF Parse, UnchangedMain
<1>15. CASE Save
  BY <1>15 DEF Save, UnchangedMain, Goto, Raise
<1>16. CASE Halt
  BY <1>16 DEF Halt, UnchangedMain, Goto
<1>17. CASE Reap
  BY <1>17 DEF Reap, UnchangedMain, Goto, Raise, Reaped
<1>18. CASE CloseCsvFiles
  BY <1>18 DEF CloseCsvFiles, UnchangedMain, Goto
<1>19. CASE Judge
  <2>1. main' \in Mains /\ exception' = exception
    BY <1>19 DEF Judge, Goto
  <2>2. outcome' \in {"none", "complete", "pending", "complete_with_errors", "lost"}
    BY <1>19 DEF Judge
  <2>3. listening' \in BOOLEAN
    BY <1>19, Zenon DEF Judge
  <2>4. QED
    BY <1>19, <2>1, <2>2, <2>3 DEF Judge
<1>20. CASE Interrupt
  BY <1>20 DEF Interrupt
<1>21. CASE AskStop
  BY <1>21 DEF AskStop, UnchangedListener
<1>22. CASE Hear
  BY <1>22 DEF Hear, UnchangedListener
<1>23. CASE StopRunner
  <2>1. /\ listener' \in {"polling", "stopping", "killing", "ended", "dead"}
        /\ runnerStopped' \in BOOLEAN
    BY <1>23 DEF StopRunner
  <2>2. QED
    BY <1>23, <2>1 DEF StopRunner, UnchangedListener
<1>24. CASE KillSipp
  <2>1. /\ listener' \in {"polling", "stopping", "killing", "ended", "dead"}
        /\ listening' \in BOOLEAN
    BY <1>24 DEF KillSipp
  <2>2. sipp' \in [Roles -> {"none", "unstarted", "running", "reaped"} \cup Ended]
    BY <1>24 DEF KillSipp
  <2>3. QED
    BY <1>24, <2>1, <2>2 DEF KillSipp, UnchangedListener
<1>25. CASE ListenerEnds
  BY <1>25 DEF ListenerEnds, UnchangedListener
<1>26. CASE CollectorBegins
  BY <1>26 DEF CollectorBegins, UnchangedThread
<1>27. CASE CollectorEnds
  BY <1>27 DEF CollectorEnds, UnchangedThread
<1>28. CASE SshFails
  BY <1>28 DEF SshFails, UnchangedThread
<1>29. ASSUME NEW role \in Roles, SippEnds(role)
      PROVE  TypeOK'
  BY <1>29 DEF SippEnds, UnchangedThread
<1>30. CASE CheckStopped
  BY <1>30 DEF CheckStopped, UnchangedMain, Goto
<1>31. CASE UNCHANGED vars
  BY <1>31 DEF vars
<1>32. QED
  BY <1>1, <1>2, <1>3, <1>4, <1>5, <1>6, <1>7, <1>8, <1>9, <1>10,
     <1>11, <1>12, <1>13, <1>14, <1>15, <1>16, <1>17, <1>18, <1>19,
     <1>20, <1>21, <1>22, <1>23, <1>24, <1>25, <1>26, <1>27, <1>28,
     <1>29, <1>30, <1>31
  DEF Next, MainStep, ListenerStep, CollectorStep

(* Every step keeps every process waited for. *)
LEMMA WaitedStep ==
  ASSUME TypeOK, Waited, [Next]_vars
  PROVE  Waited'
<1> USE DEF TypeOK, Waited, objects, threads, control, Roles, Ended, Gone, BeforeReceiver, AfterHalt, InTestRunner, InRunner, InBegin, AfterRunner, InEnsure
<1>1. CASE Register
  BY <1>1 DEF Register, PreparingRaises, UnchangedMain, Goto, Raise, WriteCsv, Spawned
<1>2. CASE RegistrationEnds
  BY <1>2 DEF RegistrationEnds, UnchangedMain, Goto, Raise, Reaped
<1>3. CASE StartReceiver
  BY <1>3 DEF StartReceiver, PreparingRaises, UnchangedMain, Goto, Raise, WriteCsv, Spawned
<1>4. CASE Build
  BY <1>4 DEF Build, UnchangedMain, Goto, WriteCsv
<1>5. CASE BuildRaises
  BY <1>5 DEF BuildRaises, UnchangedMain, Raise, WriteCsv
<1>6. CASE StartCollector
  BY <1>6 DEF StartCollector, UnchangedMain, Goto
<1>7. CASE StartListener
  BY <1>7 DEF StartListener, UnchangedMain, Goto
<1>8. CASE Prepare
  BY <1>8 DEF Prepare, UnchangedMain, Goto, Raise
<1>9. CASE Spawn
  BY <1>9 DEF Spawn, UnchangedMain, Goto, Raise, Spawned
<1>10. CASE LoadEnds
  BY <1>10 DEF LoadEnds, UnchangedMain, Goto, Raise, Reaped
<1>11. CASE CheckSshErrors
  BY <1>11 DEF CheckSshErrors, UnchangedMain, Goto, Raise
<1>12. CASE Close
  BY <1>12 DEF Close, UnchangedMain, Goto
<1>13. CASE Organize
  BY <1>13 DEF Organize, UnchangedMain, Goto, Raise
<1>14. CASE Parse
  BY <1>14 DEF Parse, UnchangedMain, Goto, Raise
<1>15. CASE Save
  BY <1>15 DEF Save, UnchangedMain, Goto, Raise
<1>16. CASE Halt
  BY <1>16 DEF Halt, UnchangedMain, Goto
<1>17. CASE Reap
  BY <1>17 DEF Reap, UnchangedMain, Goto, Raise, Reaped
<1>18. CASE CloseCsvFiles
  BY <1>18 DEF CloseCsvFiles, UnchangedMain, Goto
<1>19. CASE Judge
  BY <1>19 DEF Judge, Goto
<1>20. CASE Interrupt
  BY <1>20 DEF Interrupt
<1>21. CASE AskStop
  BY <1>21 DEF AskStop, UnchangedListener
<1>22. CASE Hear
  BY <1>22 DEF Hear, UnchangedListener
<1>23. CASE StopRunner
  BY <1>23 DEF StopRunner, UnchangedListener
<1>24. CASE KillSipp
  BY <1>24 DEF KillSipp, UnchangedListener
<1>25. CASE ListenerEnds
  BY <1>25 DEF ListenerEnds, UnchangedListener
<1>26. CASE CollectorBegins
  BY <1>26 DEF CollectorBegins, UnchangedThread
<1>27. CASE CollectorEnds
  BY <1>27 DEF CollectorEnds, UnchangedThread
<1>28. CASE SshFails
  BY <1>28 DEF SshFails, UnchangedThread
<1>29. ASSUME NEW role \in Roles, SippEnds(role)
      PROVE  Waited'
  BY <1>29 DEF SippEnds, UnchangedThread
<1>30. CASE CheckStopped
  BY <1>30 DEF CheckStopped, UnchangedMain, Goto
<1>31. CASE UNCHANGED vars
  BY <1>31 DEF vars
<1>32. QED
  BY <1>1, <1>2, <1>3, <1>4, <1>5, <1>6, <1>7, <1>8, <1>9, <1>10,
     <1>11, <1>12, <1>13, <1>14, <1>15, <1>16, <1>17, <1>18, <1>19,
     <1>20, <1>21, <1>22, <1>23, <1>24, <1>25, <1>26, <1>27, <1>28,
     <1>29, <1>30, <1>31
  DEF Next, MainStep, ListenerStep, CollectorStep

(* Every step keeps what is open known. *)
LEMMA BoundStep ==
  ASSUME TypeOK, Bound, [Next]_vars
  PROVE  Bound'
<1> USE DEF TypeOK, Bound, Has, objects, threads, control, Roles, Ended, InTestRunner, InRunner, InBegin, AfterRunner, InEnsure
<1>1. CASE Register
  BY <1>1 DEF Register, PreparingRaises, UnchangedMain, Goto, Raise, WriteCsv, Spawned
<1>2. CASE RegistrationEnds
  BY <1>2 DEF RegistrationEnds, UnchangedMain, Goto, Raise, Reaped
<1>3. CASE StartReceiver
  BY <1>3 DEF StartReceiver, PreparingRaises, UnchangedMain, Goto, Raise, WriteCsv, Spawned
<1>4. CASE Build
  BY <1>4 DEF Build, UnchangedMain, Goto, WriteCsv
<1>5. CASE BuildRaises
  BY <1>5 DEF BuildRaises, UnchangedMain, Raise, WriteCsv
<1>6. CASE StartCollector
  BY <1>6 DEF StartCollector, UnchangedMain, Goto
<1>7. CASE StartListener
  BY <1>7 DEF StartListener, UnchangedMain, Goto
<1>8. CASE Prepare
  BY <1>8 DEF Prepare, UnchangedMain, Goto, Raise
<1>9. CASE Spawn
  BY <1>9 DEF Spawn, UnchangedMain, Goto, Raise, Spawned
<1>10. CASE LoadEnds
  BY <1>10 DEF LoadEnds, UnchangedMain, Goto, Raise, Reaped
<1>11. CASE CheckSshErrors
  BY <1>11 DEF CheckSshErrors, UnchangedMain, Goto, Raise
<1>12. CASE Close
  BY <1>12 DEF Close, UnchangedMain, Goto
<1>13. CASE Organize
  BY <1>13 DEF Organize, UnchangedMain, Goto, Raise
<1>14. CASE Parse
  BY <1>14 DEF Parse, UnchangedMain, Goto, Raise
<1>15. CASE Save
  BY <1>15 DEF Save, UnchangedMain, Goto, Raise
<1>16. CASE Halt
  BY <1>16 DEF Halt, UnchangedMain, Goto
<1>17. CASE Reap
  BY <1>17 DEF Reap, UnchangedMain, Goto, Raise, Reaped
<1>18. CASE CloseCsvFiles
  BY <1>18 DEF CloseCsvFiles, UnchangedMain, Goto
<1>19. CASE Judge
  BY <1>19 DEF Judge, Goto
<1>20. CASE Interrupt
  BY <1>20 DEF Interrupt
<1>21. CASE AskStop
  BY <1>21 DEF AskStop, UnchangedListener
<1>22. CASE Hear
  BY <1>22 DEF Hear, UnchangedListener
<1>23. CASE StopRunner
  BY <1>23 DEF StopRunner, UnchangedListener
<1>24. CASE KillSipp
  BY <1>24 DEF KillSipp, UnchangedListener
<1>25. CASE ListenerEnds
  BY <1>25 DEF ListenerEnds, UnchangedListener
<1>26. CASE CollectorBegins
  BY <1>26 DEF CollectorBegins, UnchangedThread
<1>27. CASE CollectorEnds
  BY <1>27 DEF CollectorEnds, UnchangedThread
<1>28. CASE SshFails
  BY <1>28 DEF SshFails, UnchangedThread
<1>29. ASSUME NEW role \in Roles, SippEnds(role)
      PROVE  Bound'
  BY <1>29 DEF SippEnds, UnchangedThread
<1>30. CASE CheckStopped
  BY <1>30 DEF CheckStopped, UnchangedMain, Goto
<1>31. CASE UNCHANGED vars
  BY <1>31 DEF vars
<1>32. QED
  BY <1>1, <1>2, <1>3, <1>4, <1>5, <1>6, <1>7, <1>8, <1>9, <1>10,
     <1>11, <1>12, <1>13, <1>14, <1>15, <1>16, <1>17, <1>18, <1>19,
     <1>20, <1>21, <1>22, <1>23, <1>24, <1>25, <1>26, <1>27, <1>28,
     <1>29, <1>30, <1>31
  DEF Next, MainStep, ListenerStep, CollectorStep

(* Every step keeps the flags consistent. *)
LEMMA ReadStep ==
  ASSUME TypeOK, Read, [Next]_vars
  PROVE  Read'
<1> USE DEF TypeOK, Read, objects, threads, control, AfterParse, InTestRunner, InRunner, InBegin, AfterRunner, InEnsure
<1>1. CASE Register
  BY <1>1 DEF Register, PreparingRaises, UnchangedMain, Goto, Raise, WriteCsv, Spawned
<1>2. CASE RegistrationEnds
  BY <1>2 DEF RegistrationEnds, UnchangedMain, Goto, Raise, Reaped
<1>3. CASE StartReceiver
  BY <1>3 DEF StartReceiver, PreparingRaises, UnchangedMain, Goto, Raise, WriteCsv, Spawned
<1>4. CASE Build
  BY <1>4 DEF Build, UnchangedMain, Goto, WriteCsv
<1>5. CASE BuildRaises
  BY <1>5 DEF BuildRaises, UnchangedMain, Raise, WriteCsv
<1>6. CASE StartCollector
  BY <1>6 DEF StartCollector, UnchangedMain, Goto
<1>7. CASE StartListener
  BY <1>7 DEF StartListener, UnchangedMain, Goto
<1>8. CASE Prepare
  BY <1>8 DEF Prepare, UnchangedMain, Goto, Raise
<1>9. CASE Spawn
  BY <1>9 DEF Spawn, UnchangedMain, Goto, Raise, Spawned
<1>10. CASE LoadEnds
  BY <1>10 DEF LoadEnds, UnchangedMain, Goto, Raise, Reaped
<1>11. CASE CheckSshErrors
  BY <1>11 DEF CheckSshErrors, UnchangedMain, Goto, Raise
<1>12. CASE Close
  BY <1>12 DEF Close, UnchangedMain, Goto
<1>13. CASE Organize
  BY <1>13 DEF Organize, UnchangedMain, Goto, Raise
<1>14. CASE Parse
  BY <1>14 DEF Parse, UnchangedMain, Goto, Raise
<1>15. CASE Save
  BY <1>15 DEF Save, UnchangedMain, Goto, Raise
<1>16. CASE Halt
  BY <1>16 DEF Halt, UnchangedMain, Goto
<1>17. CASE Reap
  BY <1>17 DEF Reap, UnchangedMain, Goto, Raise, Reaped
<1>18. CASE CloseCsvFiles
  BY <1>18 DEF CloseCsvFiles, UnchangedMain, Goto
<1>19. CASE Judge
  BY <1>19 DEF Judge, Goto
<1>20. CASE Interrupt
  BY <1>20 DEF Interrupt
<1>21. CASE AskStop
  BY <1>21 DEF AskStop, UnchangedListener
<1>22. CASE Hear
  BY <1>22 DEF Hear, UnchangedListener
<1>23. CASE StopRunner
  BY <1>23 DEF StopRunner, UnchangedListener
<1>24. CASE KillSipp
  BY <1>24 DEF KillSipp, UnchangedListener
<1>25. CASE ListenerEnds
  BY <1>25 DEF ListenerEnds, UnchangedListener
<1>26. CASE CollectorBegins
  BY <1>26 DEF CollectorBegins, UnchangedThread
<1>27. CASE CollectorEnds
  BY <1>27 DEF CollectorEnds, UnchangedThread
<1>28. CASE SshFails
  BY <1>28 DEF SshFails, UnchangedThread
<1>29. ASSUME NEW role \in Roles, SippEnds(role)
      PROVE  Read'
  BY <1>29 DEF SippEnds, UnchangedThread
<1>30. CASE CheckStopped
  BY <1>30 DEF CheckStopped, UnchangedMain, Goto
<1>31. CASE UNCHANGED vars
  BY <1>31 DEF vars
<1>32. QED
  BY <1>1, <1>2, <1>3, <1>4, <1>5, <1>6, <1>7, <1>8, <1>9, <1>10,
     <1>11, <1>12, <1>13, <1>14, <1>15, <1>16, <1>17, <1>18, <1>19,
     <1>20, <1>21, <1>22, <1>23, <1>24, <1>25, <1>26, <1>27, <1>28,
     <1>29, <1>30, <1>31
  DEF Next, MainStep, ListenerStep, CollectorStep

(* A performance begins in the invariant. *)
LEMMA Initially == Init => IInv
  BY SetupsAssumption
  DEF Init, IInv, TypeOK, Waited, Bound, Read, Gone, Mains, Roles, Ended,
      BeforeReceiver, AfterHalt, AfterParse, InTestRunner, InRunner, InBegin,
      AfterRunner, InEnsure

(* The inductive invariant of a performance. *)
THEOREM Invariance == Spec => []IInv
<1>1. IInv /\ [Next]_vars => IInv'
  BY TypeStep, WaitedStep, BoundStep, ReadStep DEF IInv
<1>2. QED
  BY <1>1, Initially, PTL DEF Spec

(* Every variable keeps its type. *)
THEOREM TypeCorrect == Spec => []TypeOK
<1>1. IInv => TypeOK
  BY DEF IInv
<1>2. QED
  BY <1>1, Invariance, PTL

(* No SIPp process outlives its performance, whichever step of TestRunner  *)
(* or Runner raised.                                                       *)
THEOREM NoSippIsLeft == Spec => []NoSippLeft
<1>1. IInv => NoSippLeft
  BY DEF IInv, TypeOK, Waited, NoSippLeft, Gone, AfterHalt, Roles
<1>2. QED
  BY <1>1, Invariance, PTL

(* The CSV files and the socket are closed at the end. *)
THEOREM NothingIsLeftOpen == Spec => []NothingLeftOpen
<1>1. IInv => NothingLeftOpen
  BY DEF IInv, TypeOK, Bound, NothingLeftOpen
<1>2. QED
  BY <1>1, Invariance, PTL

(* A step of a performance is a step of what it promises, or none of its    *)
(* business.                                                               *)
LEMMA PerformStep ==
  ASSUME TypeOK, Read, [Next]_vars
  PROVE  [Perform!Next]_(Perform!vars)
<1> USE DEF TypeOK, Read, objects, threads, control, Perform!Next, Perform!vars
<1>1. CASE Register
  BY <1>1 DEF Register, PreparingRaises, UnchangedMain, Goto, Raise, WriteCsv, Spawned
<1>2. CASE RegistrationEnds
  BY <1>2 DEF RegistrationEnds, UnchangedMain, Goto, Raise, Reaped
<1>3. CASE StartReceiver
  BY <1>3 DEF StartReceiver, PreparingRaises, UnchangedMain, Goto, Raise, WriteCsv, Spawned
<1>4. CASE Build
  BY <1>4 DEF Build, UnchangedMain, Goto, WriteCsv
<1>5. CASE BuildRaises
  BY <1>5 DEF BuildRaises, UnchangedMain, Raise, WriteCsv
<1>6. CASE StartCollector
  BY <1>6 DEF StartCollector, UnchangedMain, Goto
<1>7. CASE StartListener
  BY <1>7 DEF StartListener, UnchangedMain, Goto
<1>8. CASE Prepare
  BY <1>8 DEF Prepare, UnchangedMain, Goto, Raise
<1>9. CASE Spawn
  BY <1>9 DEF Spawn, UnchangedMain, Goto, Raise, Spawned
<1>10. CASE LoadEnds
  BY <1>10 DEF LoadEnds, UnchangedMain, Goto, Raise, Reaped
<1>11. CASE CheckSshErrors
  BY <1>11 DEF CheckSshErrors, UnchangedMain, Goto, Raise
<1>12. CASE Close
  BY <1>12 DEF Close, UnchangedMain, Goto
<1>13. CASE Organize
  BY <1>13 DEF Organize, UnchangedMain, Goto, Raise
<1>14. CASE Parse
  <2>1. UNCHANGED <<outcome, stopped>>
    BY <1>14 DEF Parse, UnchangedMain
  <2>2. main = "storing" /\ main' # "storing"
    BY <1>14 DEF Parse, Goto, Raise
  <2>3. stored' \in BOOLEAN
    BY <1>14, Zenon DEF Parse
  <2>4. QED
    BY <2>1, <2>2, <2>3, Zenon DEF Perform!Store
<1>15. CASE Save
  BY <1>15 DEF Save, UnchangedMain, Goto, Raise
<1>16. CASE Halt
  BY <1>16 DEF Halt, UnchangedMain, Goto
<1>17. CASE Reap
  BY <1>17 DEF Reap, UnchangedMain, Goto, Raise, Reaped
<1>18. CASE CloseCsvFiles
  BY <1>18 DEF CloseCsvFiles, UnchangedMain, Goto
<1>19. CASE Judge
  BY <1>19 DEF Judge, Goto, Perform!Finish, Perform!Outcomes, AfterParse
<1>20. CASE Interrupt
  BY <1>20 DEF Interrupt, Perform!Store
<1>21. CASE AskStop
  BY <1>21 DEF AskStop, UnchangedListener
<1>22. CASE Hear
  BY <1>22 DEF Hear, UnchangedListener, Perform!Stop
<1>23. CASE StopRunner
  BY <1>23 DEF StopRunner, UnchangedListener
<1>24. CASE KillSipp
  BY <1>24 DEF KillSipp, UnchangedListener
<1>25. CASE ListenerEnds
  BY <1>25 DEF ListenerEnds, UnchangedListener
<1>26. CASE CollectorBegins
  BY <1>26 DEF CollectorBegins, UnchangedThread
<1>27. CASE CollectorEnds
  BY <1>27 DEF CollectorEnds, UnchangedThread
<1>28. CASE SshFails
  BY <1>28 DEF SshFails, UnchangedThread
<1>29. ASSUME NEW role \in Roles, SippEnds(role)
      PROVE  UNCHANGED Perform!vars
  BY <1>29 DEF SippEnds, UnchangedThread
<1>30. CASE CheckStopped
  BY <1>30 DEF CheckStopped, UnchangedMain, Goto, Perform!Choose, AfterParse
<1>31. CASE UNCHANGED vars
  BY <1>31 DEF vars
<1>32. QED
  BY <1>1, <1>2, <1>3, <1>4, <1>5, <1>6, <1>7, <1>8, <1>9, <1>10,
     <1>11, <1>12, <1>13, <1>14, <1>15, <1>16, <1>17, <1>18, <1>19,
     <1>20, <1>21, <1>22, <1>23, <1>24, <1>25, <1>26, <1>27, <1>28,
     <1>29, <1>30, <1>31
  DEF Next, MainStep, ListenerStep, CollectorStep

(* A performance implements Performance, which the life of test runs       *)
(* relies on (test_run_worker.rb, 19-28).                                  *)
THEOREM RunPerforms == Spec => Performs
<1>1. Init => Perform!Init
  BY DEF Init, Perform!Init
<1>2. IInv /\ [Next]_vars => [Perform!Next]_(Perform!vars)
  BY PerformStep DEF IInv
<1>3. QED
  BY <1>1, <1>2, Invariance, PTL DEF Spec, Performs, Perform!Spec
=============================================================================
