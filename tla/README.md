# A verification project for SIP Treadmill

SIP Treadmill runs SIP load tests. Users describe test runs in a Rails
application; Sidekiq workers execute them with SIPp. This directory holds TLA+
specifications of the parts whose correctness depends on who acts when, the
TLC configurations that check them, and proofs that TLAPS checks.

Paths below are relative to the repository; `app/...:n` is a line.

## Inventory

| component | state it keeps | operations | interacts through |
|---|---|---|---|
| `TestRun` state machine (`app/models/test_run.rb`) | `state`, `jid` of a row | enqueue, start, complete, stop, cancel, complete_with_errors, validations | Redis from `after_transition` callbacks, inside the transaction |
| `TestRunsController` | none, one loaded row per request | create, copy, update, destroy, enqueue, cancel, stop | rows, events of the machine |
| `TestRunWorker` | the loaded row, `@test_runner`, `@listener_running` | perform, check_for_stop_signal, stop_signal_listener (a thread) | the queue, the `stopjobs` set, rows, `TestRunner` |
| Sidekiq 2.13, Redis | the queue, jobs in memory | push, BRPOP, delete, requeue at shutdown | jobs |
| `TestRunner` | `@stopped`, `@runner`, the receiver, CSV files | run, stop | `Runner`, SippyCup, parsers |
| `Runner` | `@stopped`, `@sippy_runner`, `@ssh_error`, report files | run, stop | the collector and RTCP threads, SippyCup |
| `StatsCollector` | `@running`, the vmstat buffer | run, stop | SSH |
| `RTCPTools::Listener`, `RTCPTools` | the socket, `@data`, `@running` | run, organize_data, stop, parse | UDP |
| result parsers | none | SippParser, RtcpParser, VMStatParser | rows of results |
| profiles, scenarios, targets | shared rows | create, edit, copy, update, destroy, `writable?` | runs refer to them |
| form of a run (`test_runs.js.coffee.erb`) | selects, one modal at a time, `current_caller`, details | select, submit a modal, reload lists, show details | requests answered in any order |
| page of a run (`show.html.haml`, `graphing.js`, `jquery.countdown.js`) | the countdown, `nv.render.queue`, the `onresize` chain | count down and reload, draw, resize | the row; charts |
| charts (parts of `nv.d3.js`, `d3.v3.js`) | series switched off, groups, timers, transitions, points | clicks, drawings, frames, timeouts | locks on DOM nodes |
| users, abilities | `admin`, `admin_mode`, token | toggle, promote | authorization |
| other views, helpers, uploads, packaging | none | rendering, storage, installation | |

What is hard: a run's row is read and written by web requests and workers that
each hold a copy loaded earlier; jobs and signals live in Redis, which no
transaction covers; a worker, its listener thread, the collector and the RTCP
thread share plain objects; `ensure` clauses call things that raise; workers
are killed, or shut down with a job in hand. Shared rows are validated by a
SELECT that no index backs up, and may be changed while a run uses them.
In the browser answers come in any order to handlers that ask a global who is
to have them, and charts are drawn again while they still fade.

What makes each part correct: what the table shows of a run is backed by a job,
a worker or results; jobs are performed once; only what a user asked to stop
is stopped; runs settle; a row moves by declared events only; a performance
leaves no SIPp process, socket or file, and completes only with its results;
what RTCP reports say reaches the figures; names are unique, registrations
belong to a scenario, and what is said not to be saved is not; selects offer and
show what belongs to them; a page follows its run; a chart shows its series,
opaque, under points that answer for them.

## Modules

    RunStates            states and transitions, no variables
    TestRunMachine       abstract: the rows of runs as the machine declares them
    RunCopies            abstract: the same rows, changed through loaded copies
    JobLedger            abstract: the stages Sidekiq takes a job through
    TestRunLifecycle     web processes, workers, the queue, the signals, faults
    Performance          abstract: what the lifecycle relies on of one performance
    RunExecution         one performance: its threads and SIPp processes
    RtcpListener         the samples of one performance: a writer and a reader
    RtcpPacket           how one packet becomes a sample, byte by byte
    Resources            profiles, scenarios and targets in the database
    TestRunForm          the form of a run in the browser
    D3Transition         d3's timers and transitions on the groups of a chart
    StackedAreaChart     series switched on and off, drawings, the points
    ResultsPage          the page of a run and its charts
    MC...                instances for TLC
    ..._proofs           theorems

`TestRunLifecycle` extends `RunStates` and instantiates `RunCopies` and
`JobLedger` with refinement mappings; `RunExecution` implements `Performance`,
whose steps the lifecycle takes as `RunReturns`, `RunRaises`, `Poll` and
`Judge`. `ResultsPage` extends `StackedAreaChart`, which extends
`D3Transition`, and takes the life of its run from `TestRunMachine`.

### TestRunLifecycle

A request is two or three steps: `Load` (the `find`), the event
(`Enqueue`, `Cancel`, `Stop`: guard and validations on the loaded copy, the
UPDATE that takes the row lock, the callback that reaches Redis at once), and
`Commit`. Other processes see the old row until then. A perform is `Fetch`,
`CheckSignal`, `Find`, `Start`, then `RunReturns` or `RunRaises`, `Judge` and a
last write. `Write` waits for the row lock. `complete_with_errors` on an object
that already has that state writes the state too: state_machine marks the
column of a loopback as changed.
`Poll` is a listener thread that finds its signal; a thread may poll once more
after its performance ended. `web`, `worker` and `pollers` are the local state
of processes and threads; `row`, `lock` the database; `queue`, `jobRun`,
`stopSet` Redis. `stored`, `orphaned` abstract result rows and deleted
profiles, scenarios and targets. `harm`, `asked` and `canceled` are history
variables that only properties read. `harm` names the runs about which a
property excuses something, one cause at a time.

Faults: `Kill`, `Requeue` then `Terminate` (Sidekiq's shutdown: it pushes the
job back while its thread still performs it, and ends the thread), `Crash` of a
web process before its COMMIT, `CheckSignalFails`, `Orphan`. `MaxFaults` bounds
them.

### RunExecution

`main` is where the worker's thread is in `TestRunner#run` and `Runner#run`;
`listener` and `collector` are the other threads. `runner` says which
of `@runner` and `@sippy_runner` are assigned: a stop that comes earlier calls
a method of nil and its thread dies. `sipp` has one process per scenario; a
process ended, failed or was killed, and is then reaped by `wait2`. SippyCup
raises for a killed process, which has no exit status. The process of
`@sipp_pid` stands for SIPp, although the pid is that of the shell or sudo that
starts it. `exception` is what unwinds: an `ensure` clause that raises replaces
it. `CheckStopped` and `Parse` are two steps, as in `TestRunner#run`: a stop
between them is too late for the results, which `Performance` calls `Choose` and
`Store`. `Interrupt` is Sidekiq's `Shutdown`. The RTCP thread is not in it: it
shares nothing with the others but its socket, and that `organize_data` may
raise.

Three things the model shows and no property speaks of: a stop heard before
SIPp has a pid is lost, and the load starts (`KillSipp` before `Spawn`);
halting the receiver kills it, SippyCup raises for it, and a run fails whose
results are saved (`Halt`, `Reap`); an SSH failure after the single check is
never reported (`CheckSshErrors` before `SshFails`), and the run completes.

### RtcpListener

`thread` is where the RTCP thread is in `Listener#run`, `hand` its local
variables; `main` is where the worker's thread is, from `stop` to the end of
`organize_data`. `data` is the hash of hashes of arrays as far as it is
assigned, so that every `||=` and `<<` is a step and `organize_data` can meet
what is half made. A sample is the packet it came with: what matters of a
figure is which packets it counts. `Read` is one of the six reads of an array
per second (`max`, the sum and the length of an average, for jitter and loss).
`Enter` ends the thread where Ruby refuses a new key during an iteration.
`blank` are packets whose jitter the parser lost; two of them in one second
make `organize_data` raise. `received` and `due` are history variables.

### RtcpPacket

One `Unpack` per field, in the order of `RTCPTools.parse`, on real byte
layouts. Each unpacks the rest of the packet with `A*`, which strips zero bytes
and spaces from its end, so a sender report that ends in them loses bytes: a
jitter that ends in a blank byte, with nothing but blanks behind, is nil. An
integer that lacks a byte is nil and leaves its bytes where they are, a bit or
hex string takes what there is. `convert_ntp_epoch` raises for nil, and
`parse_headers` for an empty packet. These are the three outcomes `RtcpListener`
assumes. `Place` holds the reference, the bytes RFC 3550 gives each field.
`parse` computes the report count and does not look at it: a report without a block followed by another packet
gets its loss and jitter from that packet's bytes; `SampleFaithful` speaks only
of reports with a block.

### Resources

A request is what it has still to save, one or two saves; a save is
`Validate`, which reads the table, and a write. `Outdate` notes whose
validation a write made untrue. `Copy` saves the one name `duplicate` makes and
gives up if it is taken. `Update` takes any row, with or without a form that was
opened before; `scenarios#update` looks at `writable?`, redirects (`alert`), and
goes on, `profiles#update` does not look. `edit` only reads. `raced` and
`strays` are history variables.

Rows in use do not stay as they are, and no property says so: besides these
two, `writable?` of a scenario counts only the runs that send it, so one that a
run receives with may be changed without an alert. What TLC shows too: a copy of
a receiver scenario becomes a sender; a registration scenario created by
`update` has no user; one whose scenario is refused stays behind.

### TestRunForm

`Select`, `Submit`, `Dismiss` are the user; `ServePost`, `ServeList` the
server, in any order; `Created`, `Refused`, `Reloaded`, `Details` and `Fail`
the handlers of the answers, in any order. Every handler asks `caller`.
A request for details has the id that is the value of an option and the table
of the select, nothing else of the row; the answer is the row `Found` there, or
nobody handles it and the old details stay.
`upset` notes what a property excuses: a user who goes on before the answer
(`hasty`), other users, failed requests, answers that overtake each other, a
list that was emptied. What TLC shows besides: a late list fills another select
with rows of another table, beside the details of a row of its own table that
happens to have the same id, or beside old ones; a list of profiles or targets
is one page of 25 rows in no order, so the row just created may not be in it;
the blank option is lost when a list is loaded again. On load the details of the rows a run has are
asked for in any order; `Requests` is every shape a request of the form has.

### D3Transition, StackedAreaChart, ResultsPage

`Join` is a drawing: groups enter transparent, all groups get a transition, in
or out, with one id. A frame is `Mark`, then `Interrupt`, `Tick` or `End` for
each timer in order, then `Sweep`; nothing else of the page runs meanwhile.
Whether a duration is over at a frame is a choice. `lock` is
`node.__transition__`. In `StackedAreaChart` each click is `Draw` with the
series switched off after it; `pending` are the timeouts of
`updateInteractiveLayer` by the data of their closure. `ResultsPage` has
`Generate`, one turn of `nv.render`, and `Resize`, the chain of `onresize`
handlers. What TLC shows besides: a click on a point isolates the wrong series
once one is switched off, because the index into those shown is used as an
index into all (`Position`); the charts behind a jitter or loss chart without a
div never follow the window, because calling its undefined `update` raises;
a group that faded out while another transition was under way stays in the DOM,
transparent.

## Runs

| run | checks | bounds |
|---|---|---|
| lifecycle | `TypeOK`, `RunningHasExecutor`, `QueuedHasJob`, `CompleteHasResults`, `NoUnaskedStop` with every fault | 2 runs, 2 jobs, 1 web, 1 worker, 1 fault |
| settles | `Settles`, `JobsEnd` (liveness), `MovesFromCopies`: rows refine `RunCopies` | 1 run, 2 jobs, 1 web, 1 worker, 1 shutdown |
| ledger | `OneHolder`, `LedgerKept`: jobs refine `JobLedger` | 1 run, 2 jobs, 2 workers, 1 kill or shutdown |
| execution | `TypeOK`, `NoSippLeft`, `NothingLeftOpen`, `Performs` (a performance refines `Performance`), `StopEndsLoad`, `CollectorStops` (liveness) | every kind of run, 1 stop, 1 shutdown |
| samples | `TypeOK`, `OneTornPacket`, `NothingLost`, `OneLatePacket`, `ListenerEnds` (liveness) | 3 reports, 2 seconds |
| packets | `SampleFaithful` against the places of the fields (RFC 3550) | 15609 packets, 45 of them cut off anywhere |
| resources | `TypeOK`, `UniqueNames`, `StraysRefused` | 2 web, 1 run, 2 names, `MaxRows` 3, `MaxRequests` 3, profiles and scenarios |
| form | `TypeOK`, `CreatesInModal`, `OwnKind`, `CreatedSelected`, `DetailsMatch` | 3 selects, `MaxRows` 2, `MaxXhr` 2, `MaxUpset` 1, `PerPage` 1 |
| page | `TypeOK`, `SomeSeriesShown`, `LayerFresh`, `TimersKept`, `Faded`, `ChartsFit`, `PageFollows`, `TransitionsEnd` (the last two liveness) | 2 series, `MaxId` 3 drawings per page, 3 charts, 2 seconds |

Three more runs show that a promise of a spec or a message is not kept;
`PROJECT.json` quotes each under "findings".

| run | what happens |
|---|---|
| canceled | the worker popped the job before the cancel; it finds the row pending and `start!` accepts that |
| alerted | an update of a scenario in use answers with the alert that it cannot be edited and saves it: there is no `return` |
| stopped | the stop kills SIPp, SippyCup raises, the run ends with errors instead of pending |

Requests and jobs of different runs share only the queue and the set, by jid:
two runs are there where the question is whether they mix (`lifecycle`),
elsewhere one run has both jobs, a first performance and a stale or repeated
one. One web process already holds a row while workers change it; that two of
them hold the same row is left to the proofs of the four "has" and stop
invariants, of `MovesFromCopies`, `OneHolder` and `LedgerKept`, which take any
number of processes. Two workers let a job that was given back meet its first
thread. One fault at a time shows what each does. A performance has no bound but
one stop and one shutdown. Three reports of two seconds are a second with two
samples, one that begins while the other is read, and one report in hand. The
packets have zeros, spaces and other bytes at the first, the last and the inner
bytes of each field that is used, end blank or not, and one is cut off at every
byte. Two web processes and three saves are a validation, a write between it and
its own write, and a run that comes to use or to leave the row. Two selects of
one table and one of another tell apart what a late answer can mix up; with one
row per page a list of two is cut. Two series and three drawings give one node
three transitions at once, the oldest two interrupted at different moments (the
invariants also hold with four drawings, 5.3 million states); of three charts
the second may have no div, so that one is before it and one behind. Deadlock is
not checked where the system may really stop: all jids or requests used and no
user asking, or a performance done.

What the bounds or the excuses of a property leave out, and what TLC finds
there:

- Rows do not follow the declared machine (`TestRunMachine`): an event's guard
  reads the object a process loaded earlier, so that after a stop wrote pending,
  `complete!` moves the row from pending to complete. `MovesFromCopies` says what
  is left: each move is declared for the copy it was made from.
- `Performs` allows results of a stopped run: the flag may be set after
  `unless @stopped` was passed.
- `organize_data` may raise because of a half made entry, or store the average
  of nothing: no property forbids it.
- `NoUnaskedStop` speaks of the run, not of the job: with two stale enqueues a
  run has two jobs, and the worker's own `stop!`, which signals the jid of the
  row, can stop the one nobody asked to stop.
- `CreatedSelected` and `OwnKind` are about a user who lets a post and its list
  come before going on; a table of profiles or targets must fit one page.
- `Settles` and the "has" invariants leave out runs that a killed or stopped
  worker, a crashed request or a deleted profile touched. Those runs do get stuck: with `retry: false` and no acknowledgement a killed
  job is gone; a shutdown leaves the run running if the job it gave back was
  canceled, was stopped, or was taken by another worker before the first thread
  ended.

## Fairness

`FairSpec` of the lifecycle: requests that were accepted are answered, a
Sidekiq process keeps taking jobs and performing the one it has (SIPp ends
after the calls of the profile, `-m`), listener threads poll every second, a
process told to stop is stopped. Users need not ask for anything. In
`RunExecution` the threads run, but nothing is assumed of how long SIPp
generates load or of a receiver ending; only the registration, one call, ends.
In `RtcpListener` the thread gets to run, because `IO.select` returns after
three seconds at most, and the worker finishes what it began after SIPp.
`ResultsPage` assumes that a page that was asked for comes, that the browser
runs intervals, timeouts and animation frames, and (strongly) that a transition
whose frames keep coming is over one day: durations are 250 and 500 ms. The run
and the user may stop at any moment.

## Proofs

Eight modules hold theorems; all are for every value of the constants, from
the named assumptions on them only (`NoneAssumption`, `NodesAssumption` and the
like: finite sets, naturals, a value that is not an element).

`TestRunLifecycle_proofs` proves `TypeCorrect`, `JobHasOneHolder`,
`CompleteRunsHaveResults`, `RunningRunsHaveExecutors`. The inductive invariant
`IInv` adds to these properties `Known` (what a request, a job and a
performance know of each other: the argument of a job is its run, an unstarted
performance has not started, a started one works on a running copy, the queue
has no duplicates) and `Judged` (a performance that was judged complete, or
that returned and is not stopped, has stored its results). `OneHolder` is not
inductive without the first: a job that comes back at a shutdown must not
already wait. The lemmas about queues say what Tail, Append, returning to the
front and deleting do to a sequence without duplicates.

It also proves `StopsAreAsked`. A jid travels in the row, in the copies of
requests and workers and in the set of signals, so the invariant says that each
of these jids belongs to the run it is kept with (`JidsOwned`), and that every
signal has a stop somebody asked of the same run (`SignalsAsked`).

Last, it proves `RowsMoveFromCopies`, the refinement of `RunCopies`, without any
hypothesis on users, faults or the number of processes. A client of the abstract
specification is a web process or a worker; its copy is the row it found, from
`Load` or `Find` to its answer or its last write. The steps that change a
row for others (`Commit`, `Start`, the last writes) map to `Fire`, some steps
after their guard was read, so the invariant keeps what it found true
(`Guarded`): of a request until its COMMIT, of a performance that its copy is
running until its last write.

`Jobs_proofs` proves `JobsKeepTheLedger`, the refinement of `JobLedger`. A
stage is computed from the queue and from who works on the job (`Working`), and
each action moves at most one job by one stage; `OneHolder` and the queue
without duplicates make that possible. It proves `QueuedRunsHaveJobs` too, the
longest argument of the two modules. A queued row is written by a COMMIT that
comes after the job is pushed, so the invariant speaks of the transaction too:
who is past its UPDATE has the row lock (`Locked`), nobody has read the jid of a
job whose enqueue is not committed (`Unread`), whoever read the jid of a queued
run saw it queued, and that jid is not signalled (`Current`), and the job of a
run that is queued, or about to be, waits or is performed by a process that goes
on (`Backed`).

`RunExecution_proofs` proves `TypeCorrect`, `NoSippIsLeft`, `NothingIsLeftOpen`
and `RunPerforms`, the refinement of `Performance`. The invariant says between
which lines each process may run (`Waited`) and each descriptor may be open
(`Bound`), and that `Runner`'s flag implies `TestRunner`'s, which is why
`TestRunner#stop` must set its own first (`Read`). A run that is judged complete
has read the flag after its results were written, so a stop between the check
and the parsers does no harm.

`RtcpListener_proofs` proves `TypeCorrect`, `OnePacketIsTorn`, `NothingIsLost`
and `OnePacketIsLate`. The invariant says that a packet in the hash is there
with all fields, except for the one in hand (`Halves`), that what was read is
what is in the hash but for that packet (`RowFaithful`), and that a due packet
is in the figures of its second as far as they were read (`Kept`).

`RtcpPacket_proofs` proves `SamplesAreFaithful`, for every set of datagrams of
any length. The invariant says what is left of the packet after each field
(`Position`): the bytes from the next field's place (`Before`) to the last byte
that is not blank (`LastByte`), whatever was stripped when; or, after an integer
lacked a byte, fewer than four bytes, which no integer of four takes and the
next string takes whole, so that the fields after it are in step again
(`Stuck`). That is why only what ends in blanks is misread, and why five of the
integers may be nil without harm to the others. `Fields` says what was read of
the four fields that are looked at, `Returns` how parse may return. That a loss
is never too large is `NumberOfFront`: missing low bytes make a number smaller.

`Resources_proofs` proves `TypeCorrect`, `NamesAreUnique` and
`RegistrationsAreTold`. The invariant adds what a request has left to save
(`Asked`: well formed, an update of a row of its kind, ids never given out
again) and that a validation no write put out of date still holds (`Current`).

`TestRunForm_proofs` proves `FormTypes`, `OnlyModalsCreate`,
`SelectsOfferOwnKind`, `CreatedIsSelected` and `DetailsAreOfTheRow`, for any
selects, rows, page size and number of requests. All handlers ask one global,
so the invariant says what ties each request to it. The modal and its hidden
field are the caller's, always (`Modal`); for a user who waits, what is under
way is for the caller (`ForCaller`), one post or several lists but not both
(`OneAtATime`); while nobody else creates a row, the one a post brings is the
newest of its table, and a list that was served has it or its page is too short
(`Latest`); and the last details asked for beside a select are of the id it has, or those
shown are of its row if it is one of the select's own table (`LastShown`). None of the properties is inductive alone: a list that came says
nothing of those still under way, which is what `Latest` keeps.

`ResultsPage_proofs` proves `TypeCorrect`, `SomeAreShown`, `PointsAreFresh`,
`TimersAreKept`, `GroupsHaveFaded` and `ChartsFollow`, for any number of series,
drawings and charts. Every action moves the chart in one of five ways
(`PageMovesChart`). For d3 the invariant says that the transitions of a node
are those with a timer still to run (`Listed`), that what the last drawing
started is not interrupted (`Leading`), and of every group that the transition
of the last drawing is ahead of it, or behind it with nothing left that could
move it (`Fading`): `Faded` speaks only of the end and is far from inductive.
`Divided` says how the charts are split between those bound and those queued.

Only model-checked: all liveness (fairness and ENABLED are beyond the prover).
Every safety invariant and every refinement that a passing run checks is a
theorem.

## Not modelled

Users, abilities and authorization: a flag and a table without a protocol of
their own. Rendering, uploads, packaging: no state that several actors share.
`update` of a run: its attributes other than `state` and `jid` are data here.
Timestamps and texts of errors. The temporary report files of `Runner`. The CSV
and vmstat parsers: they copy columns and decide nothing. Of `nv.d3.js` and
`d3.v3.js`, two bundled libraries of twenty thousand lines, only what keeps
state from one event to the next under a chart of this application: geometry,
scales, formats, layouts, maps, and the chart models the application does not
use have no behaviour over time to check. `theme.js`, `navbar.js` and `shXml.js`
decorate pages.

## What is left

The composition of a shutdown with a second performance of the same job in
another process, two SIPp processes on one port: `RunExecution` has one
performance, `TestRunLifecycle` no processes of SIPp. The form of a run together
with `Resources`, whose rows it creates.
