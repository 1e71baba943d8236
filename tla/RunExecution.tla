---------------------------- MODULE RunExecution ----------------------------
(***************************************************************************)
(* One performance of a job, inside a worker process, between start! and   *)
(* the last event: the thread that executes TestRunner#run and Runner#run, *)
(* the thread that polls for a stop signal, the thread that collects       *)
(* vmstat over SSH, and the SIPp processes.  The thread that receives RTCP *)
(* shares nothing with them but its socket, see RtcpListener.              *)
(*                                                                         *)
(* TestRunner and Runner are plain objects shared by the threads: instance *)
(* variables are read as they are when a thread comes to them, @runner,    *)
(* @sippy_runner and @sipp_pid are nil before their assignment, and an     *)
(* `ensure' clause that raises replaces the exception on its way.          *)
(***************************************************************************)
EXTENDS Naturals, FiniteSets

CONSTANTS
  Setups,    \* what the test run may ask for, a subset of Setup
  Shutdown   \* whether the worker process may be told to stop

(* The SIPp processes of a run, by their role *)
Roles == {"registration", "receiver", "load"}

(* Which scenarios a run has, whether they come with CSV data, and whether *)
(* SSH credentials were given.  A valid run has a sender or a receiver     *)
(* scenario; a registration belongs to the receiver scenario.              *)
Setup == {s \in [scenarios : SUBSET Roles, csv : BOOLEAN, stats : BOOLEAN] :
            /\ s.scenarios \cap {"load", "receiver"} # {}
            /\ "registration" \in s.scenarios => "receiver" \in s.scenarios}

ASSUME SetupsAssumption   == Setups \subseteq Setup
ASSUME ShutdownAssumption == Shutdown \in BOOLEAN

VARIABLES
  setup,         \* what this run asks for
  main,          \* where the worker's thread is
  exception,     \* what is being raised
  sipp,          \* each SIPp process
  csvFiles,      \* TestRunner's @csv_files that are open
  runner,        \* nil, TestRunner's @runner, and its @sippy_runner
  socket,        \* the UDP socket of RTCPTools::Listener
  collector,     \* the thread of StatsCollector#run
  collecting,    \* StatsCollector's @running
  sshError,      \* Runner's @ssh_error is set
  listener,      \* the thread of stop_signal_listener
  listening,     \* TestRunWorker's @listener_running
  signal,        \* a user asked to stop this job: in the set, or not yet
  stopped,       \* TestRunner's @stopped
  runnerStopped, \* Runner's @stopped
  data,          \* Runner#run read the statistics
  stored,        \* the parsers wrote results
  interrupted,   \* Sidekiq::Shutdown was raised in the worker's thread
  outcome        \* the event perform fired last

objects == <<csvFiles, runner, runnerStopped, data, stored>>
threads == <<socket, collector, collecting, sshError>>
control == <<listener, listening, signal, stopped>>
vars == <<setup, main, exception, sipp, outcome, interrupted, objects, threads,
          control>>

(* The worker's thread, in the order of the code *)
InTestRunner == {"registering", "registration", "receiving", "building"}
InRunner     == {"launching", "listening"}
InBegin      == {"preparing", "spawning", "waiting", "checking"}
AfterRunner  == {"organizing", "parsing", "storing", "saving"}
InEnsure     == {"halting", "reaping", "unlinking"}
Mains == InTestRunner \cup InRunner \cup InBegin \cup {"closing"}
           \cup AfterRunner \cup InEnsure \cup {"judging", "done"}

(* A process ended by itself, well or not, or was killed, until wait2. *)
Ended == {"ended", "failed", "killed"}

Has(role) == role \in setup.scenarios

Init == /\ setup \in Setups
        /\ main = "registering"
        /\ exception = "none"
        /\ sipp = [role \in Roles |-> "none"]
        /\ csvFiles = {}
        /\ runner = "nil"
        /\ socket = "none"
        /\ collector = "none"
        /\ collecting = FALSE
        /\ sshError = FALSE
        /\ listener = "polling"
        /\ listening = TRUE
        /\ signal = "unasked"
        /\ stopped = FALSE
        /\ runnerStopped = FALSE
        /\ data = FALSE
        /\ stored = FALSE
        /\ interrupted = FALSE
        /\ outcome = "none"
-----------------------------------------------------------------------------
(* TestRunner#run *)

Goto(from, to) == main = from /\ main' = to /\ UNCHANGED exception

(* An error is raised at `from' and unwinds to the clause at `to'. *)
Raise(from, to) == main = from /\ main' = to /\ exception' = "error"

UnchangedMain == UNCHANGED <<setup, interrupted, outcome, control>>

WriteCsv(role) == csvFiles' = IF setup.csv THEN csvFiles \cup {role} ELSE csvFiles

Spawned(role) == [sipp EXCEPT ![role] = "running"]
Reaped(role)  == [sipp EXCEPT ![role] = "reaped"]

(* Raised while the scenario was prepared or SIPp started, once the CSV    *)
(* data were written or before.                                            *)
PreparingRaises(role, from) ==
  /\ Has(role)
  /\ Raise(from, "halting")
  /\ WriteCsv(role) \/ UNCHANGED csvFiles

(* execute_registration_scenario: SIPp runs and is waited for. *)
Register ==
  /\ \/ /\ Has("registration")
        /\ Goto("registering", "registration")
        /\ WriteCsv("registration")
        /\ sipp' = Spawned("registration")
     \/ PreparingRaises("registration", "registering") /\ UNCHANGED sipp
     \/ /\ ~Has("registration")
        /\ Goto("registering", "receiving")
        /\ UNCHANGED <<csvFiles, sipp>>
  /\ UnchangedMain
  /\ UNCHANGED <<threads, runner, runnerStopped, data, stored>>

RegistrationEnds ==
  /\ sipp["registration"] \in Ended
  /\ sipp' = Reaped("registration")
  /\ IF sipp["registration"] = "ended"
     THEN Goto("registration", "receiving")
     ELSE Raise("registration", "halting")
  /\ UnchangedMain
  /\ UNCHANGED <<threads, objects>>

(* start_receiver_scenario: SIPp runs on, nobody waits.  If it does not    *)
(* start, @receiver_runner is set and has no pid.                          *)
StartReceiver ==
  /\ \/ /\ Has("receiver")
        /\ WriteCsv("receiver")
        /\ \/ Goto("receiving", "building") /\ sipp' = Spawned("receiver")
           \/ /\ Raise("receiving", "halting")
              /\ sipp' = [sipp EXCEPT !["receiver"] = "unstarted"]
     \/ PreparingRaises("receiver", "receiving") /\ UNCHANGED sipp
     \/ /\ ~Has("receiver")
        /\ Goto("receiving", "building")
        /\ UNCHANGED <<csvFiles, sipp>>
  /\ UnchangedMain
  /\ UNCHANGED <<threads, runner, runnerStopped, data, stored>>

(* execute_runner: the Runner binds the RTCP socket, then @runner is set.  *)
Build ==
  /\ Has("load")
  /\ Goto("building", "launching")
  /\ WriteCsv("load")
  /\ runner' = "runner"
  /\ socket' = "open"
  /\ UnchangedMain
  /\ UNCHANGED <<sipp, runnerStopped, data, stored, collector, collecting, sshError>>

(* A run with only a receiver has no scenario to read CSV data of; the     *)
(* options may not parse, the port may be in use.                          *)
BuildRaises ==
  /\ Raise("building", "halting")
  /\ \/ UNCHANGED csvFiles
     \/ Has("load") /\ WriteCsv("load")
  /\ UnchangedMain
  /\ UNCHANGED <<sipp, threads, runner, runnerStopped, data, stored>>
-----------------------------------------------------------------------------
(* Runner#run *)

StartCollector ==
  /\ Goto("launching", "listening")
  /\ collector' = IF setup.stats THEN "created" ELSE "none"
  /\ UnchangedMain
  /\ UNCHANGED <<sipp, objects, socket, collecting, sshError>>

StartListener ==
  /\ Goto("listening", "preparing")
  /\ UnchangedMain
  /\ UNCHANGED <<sipp, objects, threads>>

(* SippyCup::Runner.new; the scenario may not translate. *)
Prepare ==
  /\ \/ Goto("preparing", "spawning") /\ runner' = "sippy_runner"
     \/ Raise("preparing", "closing") /\ UNCHANGED runner
  /\ UnchangedMain
  /\ UNCHANGED <<sipp, threads, csvFiles, runnerStopped, data, stored>>

(* SIPp starts and @sipp_pid is set, or it does not start. *)
Spawn ==
  /\ \/ Goto("spawning", "waiting") /\ sipp' = Spawned("load")
     \/ Raise("spawning", "closing") /\ UNCHANGED sipp
  /\ UnchangedMain
  /\ UNCHANGED <<threads, objects>>

(* wait2 reaps SIPp.  No exit status, of a killed process, is an error like *)
(* any unknown exit status.                                                *)
LoadEnds ==
  /\ sipp["load"] \in Ended
  /\ sipp' = Reaped("load")
  /\ IF sipp["load"] = "ended"
     THEN Goto("waiting", "checking")
     ELSE Raise("waiting", "closing")
  /\ UnchangedMain
  /\ UNCHANGED <<threads, objects>>

CheckSshErrors ==
  /\ IF sshError THEN Raise("checking", "closing") ELSE Goto("checking", "closing")
  /\ UnchangedMain
  /\ UNCHANGED <<sipp, threads, objects>>

(* Variant: the collector is not told to stop. *)
CloseSocketOnly ==
  /\ Goto("closing", IF exception = "none" THEN "organizing" ELSE "halting")
  /\ socket' = "closed"
  /\ UnchangedMain
  /\ UNCHANGED <<sipp, objects, collector, collecting, sshError>>

(* Variant: the socket is left open. *)
CloseCollectorOnly ==
  /\ Goto("closing", IF exception = "none" THEN "organizing" ELSE "halting")
  /\ collecting' = FALSE
  /\ UnchangedMain
  /\ UNCHANGED <<sipp, objects, socket, collector, sshError>>

(* The ensure clause stops the RTCP listener and the collector. *)
Close ==
  /\ Goto("closing", IF exception = "none" THEN "organizing" ELSE "halting")
  /\ socket' = "closed"
  /\ collecting' = FALSE
  /\ UnchangedMain
  /\ UNCHANGED <<sipp, objects, collector, sshError>>

(* Unless stopped, the statistics are read.  organize_data may raise, see  *)
(* RtcpListener.                                                           *)
Organize ==
  /\ \/ Goto("organizing", "parsing") /\ data' = ~runnerStopped
     \/ ~runnerStopped /\ Raise("organizing", "halting") /\ UNCHANGED data
  /\ UnchangedMain
  /\ UNCHANGED <<sipp, threads, csvFiles, runner, runnerStopped, stored>>
-----------------------------------------------------------------------------
(* TestRunner#run again *)

(* `unless @stopped': from here on a stop is too late for the results. *)
CheckStopped ==
  /\ Goto("parsing", IF stopped THEN "saving" ELSE "storing")
  /\ UnchangedMain
  /\ UNCHANGED <<sipp, threads, objects>>

(* What was read is parsed into the database; the parsers skip what is     *)
(* nil.                                                                    *)
Parse ==
  /\ \/ Goto("storing", "saving") /\ stored' = (stored \/ data)
     \/ Raise("storing", "halting") /\ stored' \in {stored, stored \/ data}
  /\ UnchangedMain
  /\ UNCHANGED <<sipp, threads, csvFiles, runner, runnerStopped, data>>

(* save! *)
Save ==
  /\ Goto("saving", "halting") \/ Raise("saving", "halting")
  /\ UnchangedMain
  /\ UNCHANGED <<sipp, threads, objects>>

(* Variant: the receiver is halted after a run that went well. *)
HaltWhenWell ==
  /\ IF sipp["receiver"] = "none" \/ exception # "none"
     THEN Goto("halting", "unlinking") /\ UNCHANGED sipp
     ELSE /\ Goto("halting", "reaping")
          /\ sipp' = [sipp EXCEPT !["receiver"] =
                        IF @ = "running" THEN "killed" ELSE @]
  /\ UnchangedMain
  /\ UNCHANGED <<threads, objects>>

(* halt_receiver_scenario: the receiver is killed, unless it is over ...   *)
Halt ==
  /\ IF sipp["receiver"] = "none"
     THEN Goto("halting", "unlinking") /\ UNCHANGED sipp
     ELSE /\ Goto("halting", "reaping")
          /\ sipp' = [sipp EXCEPT !["receiver"] =
                        IF @ = "running" THEN "killed" ELSE @]
  /\ UnchangedMain
  /\ UNCHANGED <<threads, objects>>

(* ... and waited for.  A killed receiver is an error, as is one without a *)
(* process, that replaces the exception on its way and leaves the CSV      *)
(* files open.                                                             *)
Reap ==
  /\ sipp["receiver"] \in Ended \cup {"unstarted"}
  /\ sipp' = Reaped("receiver")
  /\ IF sipp["receiver"] = "ended"
     THEN Goto("reaping", "unlinking")
     ELSE Raise("reaping", "judging")
  /\ UnchangedMain
  /\ UNCHANGED <<threads, objects>>

CloseCsvFiles ==
  /\ Goto("unlinking", "judging")
  /\ csvFiles' = {}
  /\ UnchangedMain
  /\ UNCHANGED <<sipp, threads, runner, runnerStopped, data, stored>>

(* Variant: perform asks the Runner whether it was stopped. *)
JudgeByRunner ==
  /\ Goto("judging", "done")
  /\ outcome' = IF exception = "error" THEN "complete_with_errors"
                ELSE IF exception = "shutdown" THEN "lost"
                ELSE IF runnerStopped THEN "pending" ELSE "complete"
  /\ listening' = FALSE
  /\ UNCHANGED <<setup, interrupted, sipp, threads, objects, listener, signal, stopped>>

(* Variant: the exception is taken for the event. *)
JudgeByError ==
  /\ Goto("judging", "done")
  /\ outcome' = IF exception # "none" THEN exception
                ELSE IF stopped THEN "pending" ELSE "complete"
  /\ listening' = FALSE
  /\ UNCHANGED <<setup, interrupted, sipp, threads, objects, listener, signal, stopped>>

(* TestRunWorker#perform fires its last event; Sidekiq::Shutdown passes by *)
(* the rescue clause.  The ensure clause lets the listener thread end.     *)
Judge ==
  /\ Goto("judging", "done")
  /\ outcome' = IF exception = "error" THEN "complete_with_errors"
                ELSE IF exception = "shutdown" THEN "lost"
                ELSE IF stopped THEN "pending" ELSE "complete"
  /\ listening' = FALSE
  /\ UNCHANGED <<setup, interrupted, sipp, threads, objects, listener, signal, stopped>>

(* Sidekiq raises Shutdown in the worker's thread, wherever it is. *)
Interrupt ==
  /\ Shutdown /\ ~interrupted
  /\ main \notin {"judging", "done"}
  /\ interrupted' = TRUE
  /\ exception' = "shutdown"
  /\ main' = IF main \in InBegin THEN "closing"
             ELSE IF main \in InEnsure THEN "judging" ELSE "halting"
  /\ UNCHANGED <<setup, sipp, outcome, objects, threads, control>>
-----------------------------------------------------------------------------
(* The listener thread *)

UnchangedListener == UNCHANGED <<setup, main, exception, interrupted, outcome, threads>>

(* A user asks to stop the run, once. *)
AskStop ==
  /\ signal = "unasked"
  /\ main # "done"
  /\ signal' = "sent"
  /\ UnchangedListener
  /\ UNCHANGED <<sipp, objects, listener, listening, stopped>>

(* The signal is taken: TestRunner#stop sets its flag first ... *)
Hear ==
  /\ listener = "polling"
  /\ signal = "sent"
  /\ signal' = "taken"
  /\ stopped' = TRUE
  /\ listener' = "stopping"
  /\ UnchangedListener
  /\ UNCHANGED <<sipp, objects, listening>>

(* Variant: Runner#stop does not reach SIPp. *)
FlagOnly ==
  /\ listener = "stopping"
  /\ IF runner = "nil"
     THEN listener' = "dead" /\ UNCHANGED runnerStopped
     ELSE listener' = "ended" /\ runnerStopped' = TRUE
  /\ UnchangedListener
  /\ UNCHANGED <<sipp, csvFiles, runner, data, stored, listening, signal, stopped>>

(* ... then calls Runner#stop, on nil if execute_runner has not come that  *)
(* far: the thread dies of it ...                                          *)
StopRunner ==
  /\ listener = "stopping"
  /\ IF runner = "nil"
     THEN listener' = "dead" /\ UNCHANGED runnerStopped
     ELSE listener' = "killing" /\ runnerStopped' = TRUE
  /\ UnchangedListener
  /\ UNCHANGED <<sipp, csvFiles, runner, data, stored, listening, signal, stopped>>

(* ... which kills SIPp, on nil again if Runner#run has not come that far, *)
(* not at all if there is no pid, in vain if the pid is reaped.            *)
KillSipp ==
  /\ listener = "killing"
  /\ IF runner # "sippy_runner" \/ sipp["load"] = "reaped"
     THEN listener' = "dead" /\ UNCHANGED <<sipp, listening>>
     ELSE /\ listener' = "ended"
          /\ listening' = FALSE
          /\ sipp' = [sipp EXCEPT !["load"] = IF @ = "running" THEN "killed" ELSE @]
  /\ UnchangedListener
  /\ UNCHANGED <<objects, signal, stopped>>

ListenerEnds ==
  /\ listener = "polling"
  /\ ~listening
  /\ listener' = "ended"
  /\ UnchangedListener
  /\ UNCHANGED <<sipp, objects, listening, signal, stopped>>
-----------------------------------------------------------------------------
(* The collector thread, and SIPp *)

UnchangedThread == UNCHANGED <<setup, main, exception, interrupted, outcome, objects, control>>

(* StatsCollector#run: the flag is set when the thread gets to run. *)
CollectorBegins ==
  /\ collector = "created"
  /\ collector' = "collecting"
  /\ collecting' = TRUE
  /\ UnchangedThread
  /\ UNCHANGED <<sipp, socket, sshError>>

(* Data arrived and the flag is not set any more: the channel is closed. *)
CollectorEnds ==
  /\ collector = "collecting"
  /\ ~collecting
  /\ collector' = "ended"
  /\ UnchangedThread
  /\ UNCHANGED <<sipp, socket, collecting, sshError>>

(* The host does not answer, the password is wrong, the connection breaks. *)
SshFails ==
  /\ collector = "collecting"
  /\ collector' = "ended"
  /\ sshError' = TRUE
  /\ UnchangedThread
  /\ UNCHANGED <<sipp, socket, collecting>>

(* SIPp exits with 0 or 1, or with a status that stands for an error. *)
SippEnds(role) ==
  /\ sipp[role] = "running"
  /\ \E end \in {"ended", "failed"} : sipp' = [sipp EXCEPT ![role] = end]
  /\ UnchangedThread
  /\ UNCHANGED threads
-----------------------------------------------------------------------------
MainStep == \/ Register \/ RegistrationEnds \/ StartReceiver
            \/ Build \/ BuildRaises
            \/ StartCollector \/ StartListener \/ Prepare \/ Spawn \/ LoadEnds
            \/ CheckSshErrors \/ Close \/ Organize
            \/ CheckStopped \/ Parse \/ Save \/ Halt \/ Reap \/ CloseCsvFiles \/ Judge

ListenerStep  == Hear \/ StopRunner \/ KillSipp \/ ListenerEnds
CollectorStep == CollectorBegins \/ CollectorEnds

Next == \/ MainStep \/ Interrupt \/ AskStop \/ ListenerStep
        \/ CollectorStep \/ SshFails
        \/ \E role \in Roles : SippEnds(role)

Spec == Init /\ [][Next]_vars

(* Threads run; vmstat prints a line every second; the registration makes  *)
(* one call.  Nothing is assumed of how long SIPp generates load, nor that *)
(* a receiver ever ends.                                                   *)
Fairness == /\ WF_vars(MainStep)
            /\ WF_vars(ListenerStep)
            /\ WF_vars(CollectorStep)
            /\ WF_vars(SippEnds("registration"))

FairSpec == Spec /\ Fairness
-----------------------------------------------------------------------------
(* Properties *)

(* Every variable has its type. *)
TypeOK == /\ setup \in Setup
          /\ main \in Mains
          /\ exception \in {"none", "error", "shutdown"}
          /\ sipp \in [Roles -> {"none", "unstarted", "running", "reaped"} \cup Ended]
          /\ csvFiles \subseteq Roles
          /\ runner \in {"nil", "runner", "sippy_runner"}
          /\ socket \in {"none", "open", "closed"}
          /\ collector \in {"none", "created", "collecting", "ended"}
          /\ listener \in {"polling", "stopping", "killing", "ended", "dead"}
          /\ signal \in {"unasked", "sent", "taken"}
          /\ outcome \in {"none", "complete", "pending", "complete_with_errors", "lost"}
          /\ collecting \in BOOLEAN /\ sshError \in BOOLEAN
          /\ listening \in BOOLEAN /\ stopped \in BOOLEAN
          /\ runnerStopped \in BOOLEAN /\ interrupted \in BOOLEAN
          /\ data \in BOOLEAN /\ stored \in BOOLEAN

(* No SIPp process outlives the performance that started it, whatever      *)
(* raises on the way, unless Sidekiq interrupts it (test_runner.rb, 81-85; *)
(* test_runner_spec.rb, 62).                                               *)
NoSippLeft ==
  main = "done" /\ ~interrupted => \A role \in Roles : sipp[role] \in {"none", "reaped"}

(* The CSV files and the RTCP socket are closed at the end, unless a       *)
(* receiver had to be killed or Sidekiq interrupted the performance.       *)
NothingLeftOpen ==
  main = "done" /\ ~interrupted => /\ socket # "open"
                                   /\ csvFiles # {} => Has("receiver")

(* One performance promises what TestRunLifecycle relies on: a run that    *)
(* ends as complete was not stopped when it was judged and its results     *)
(* were read and parsed, although each `unless @stopped' reads a flag that *)
(* the listener thread sets in between; a stop that comes once the results *)
(* are being parsed stores them all the same, and the run is pending       *)
(* (test_runner.rb, 25-28 and 41; runner.rb, 53 and 72;                    *)
(* test_run_worker.rb, 19).                                                *)
Perform == INSTANCE Performance WITH storing <- (main = "storing")
Performs == Perform!Spec

(* A stop that is heard while SIPp generates load ends the performance,    *)
(* however long SIPp would have gone on.                                   *)
StopEndsLoad ==
  listener = "stopping" /\ sipp["load"] = "running" ~> main = "done"

(* A collector that runs when Runner#run is over ends, unless Sidekiq      *)
(* interrupts the ensure clause before it stops it (runner.rb, 48-51).     *)
CollectorStops ==
  main = "closing" /\ collector = "collecting" ~> collector = "ended" \/ interrupted

(* A user's stop that kills SIPp is not an error: the run can go back to   *)
(* pending (test_run_worker_spec.rb, 51).                                  *)
StopIsNoError ==
  [][sipp["load"] = "killed" /\ main = "waiting" => exception' = "none"]_vars
=============================================================================
