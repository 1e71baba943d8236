---------------------------- MODULE ResultsPage ----------------------------
(***************************************************************************)
(* The page of one run (views/test_runs/show.html.haml): while the run is  *)
(* queued or running it counts down and loads itself again, once the run   *)
(* is complete it draws five charts, one per turn of nv.render, which the  *)
(* window then redraws when it is resized.                                 *)
(***************************************************************************)
EXTENDS StackedAreaChart, Sequences, SequencesExt

CONSTANTS
  Run,        \* the run
  Graphs,     \* the charts, in the order the page asks for them
  Optional,   \* the ones that have a div only when the run has RTCP data
  CountFrom   \* the seconds of the countdown

ASSUME GraphsAssumption == /\ Graphs \in Seq(STRING) /\ Graphs # <<>>
                           /\ Head(Graphs) = "calls" /\ "calls" \notin Optional
ASSUME CountFromAssumption == CountFrom \in Nat \ {0}

VARIABLES
  row,       \* the state of the run in the database
  page,      \* what the page was rendered for, or loading
  qos,       \* the run has RTCP data: the page has their two charts
  seconds,   \* what the countdown shows
  queue,     \* nv.render.queue
  onresize,  \* the charts whose update window.onresize calls, in its order
  fitting    \* the charts drawn for the width the window has

pageVars == <<page, qos, seconds, queue, onresize, fitting>>
vars     == <<chartVars, row, pageVars>>

Machine == INSTANCE TestRunMachine WITH Runs <- {Run}, state <- row

Live == {"queued", "running"}
Completed == {"complete", "complete_with_errors"}

(* All results have the same page, whatever went wrong. *)
Shown(state) == IF state \in Completed THEN "results" ELSE state

(* drawLineGraph is called for every chart, whether or not it has a div. *)
Present(graph) == qos \/ graph \notin Optional

Init ==
  /\ ChartInit
  /\ row \in [{Run} -> Machine!States]
  /\ page = "loading"
  /\ qos \in BOOLEAN
  /\ seconds = 0
  /\ queue = <<>>
  /\ onresize = <<>>
  /\ fitting = {}
-----------------------------------------------------------------------------
(* The run goes on, whatever the page shows.  A page with results does not *)
(* look at the run again, so what happens meanwhile happens when it loads. *)
RunMoves ==
  /\ page # "results"
  /\ Machine!Next
  /\ UNCHANGED <<chartVars, pageVars>>

(* The page comes, with nothing of the page before it. *)
Show ==
  /\ page = "loading"
  /\ page' = Shown(row[Run])
  /\ seconds' = IF page' \in Live THEN CountFrom ELSE 0
  /\ queue' = IF page' = "results" THEN Graphs ELSE <<>>
  /\ UNCHANGED <<chartVars, row, qos, onresize, fitting>>

Leave ==
  /\ page' = "loading"
  /\ seconds' = 0
  /\ queue' = <<>> /\ onresize' = <<>> /\ fitting' = {}
  /\ ChartReset
  /\ UNCHANGED <<row, qos>>

(* The user loads the page again, or answers a button of it. *)
Reload ==
  /\ page # "loading"
  /\ ~marking
  /\ Leave

(* Variant: the interval is stopped at the end, but nothing is loaded. *)
CountDownOnly ==
  /\ page \in Live
  /\ seconds > 0
  /\ \E left \in 0..seconds - 1 : seconds' = left
  /\ UNCHANGED <<chartVars, row, page, qos, queue, onresize, fitting>>

(* render of the countdown: seconds may be skipped on a computer that      *)
(* slept, and at the end the page is loaded again.                         *)
CountDown ==
  /\ page \in Live
  /\ seconds > 0
  /\ \E left \in 0..seconds - 1 :
       IF left = 0 THEN Leave
       ELSE /\ seconds' = left
            /\ UNCHANGED <<chartVars, row, page, qos, queue, onresize, fitting>>

(* Variant: the last one has the event for itself. *)
BoundAlone(graph) == <<graph>>

(* windowResize: the handler that was there is called first. *)
Bound(graph) == Append(onresize, graph)

(* One turn of nv.render: a chart without a div draws nothing, but binds   *)
(* its update, which is undefined.                                         *)
Generate ==
  LET graph == Head(queue) IN
  /\ queue # <<>>
  /\ ~marking
  /\ queue' = Tail(queue)
  /\ onresize' = Bound(graph)
  /\ fitting' = IF Present(graph) THEN fitting \cup {graph} ELSE fitting
  /\ IF graph = "calls" THEN Draw({}) ELSE UNCHANGED chartVars
  /\ UNCHANGED <<row, page, qos, seconds>>

(* Calling an undefined update raises, and those after it are not called.  *)
Reached(i) == \A j \in 1..i : Present(onresize[j])

Resize ==
  /\ onresize # <<>>
  /\ fitting' = {onresize[i] : i \in {j \in DOMAIN onresize : Reached(j)}}
  /\ IF "calls" \in fitting' THEN Redraw ELSE ~marking /\ UNCHANGED chartVars
  /\ UNCHANGED <<row, page, qos, seconds, queue, onresize>>

ChartStep == /\ ChartEvent \/ ChartTimeout \/ ChartFrame
             /\ UNCHANGED <<row, pageVars>>

Next == \/ RunMoves
        \/ Show
        \/ Reload
        \/ CountDown
        \/ Generate
        \/ Resize
        \/ ChartStep

(* Responses come, and the browser runs its timers and its frames; the     *)
(* run and the user may stop at any moment.                                *)
Fairness ==
  /\ WF_vars(Show)
  /\ WF_vars(CountDown)
  /\ WF_vars(Generate)
  /\ WF_vars(ChartTimeout /\ UNCHANGED <<row, pageVars>>)
  /\ WF_vars(ChartFrame /\ UNCHANGED <<row, pageVars>>)
  /\ SF_vars(ChartFrame /\ Ends /\ UNCHANGED <<row, pageVars>>)

Spec == Init /\ [][Next]_vars /\ Fairness
-----------------------------------------------------------------------------
(* Properties *)

TypeOK ==
  /\ ChartTypeOK
  /\ row \in [{Run} -> Machine!RowStates]
  /\ page \in Machine!RowStates \cup {"results", "loading"}
  /\ qos \in BOOLEAN
  /\ seconds \in 0..CountFrom
  /\ onresize \o queue \in {<<>>, Graphs}
  /\ fitting \subseteq Range(onresize)

(* A chart follows the width of the window, whenever it was drawn, unless  *)
(* one that was asked for before it has no div (nv.d3.js, 284-291, and     *)
(* show.html.haml, 133-142 and 203-207).                                   *)
ChartsFit ==
  page = "results" =>
    \A i \in 1..Len(Graphs) - Len(queue) :
      \/ Graphs[i] \in fitting
      \/ \E j \in 1..i : ~Present(Graphs[j])

(* A page that shows a run queued or running shows it no longer once the   *)
(* run has left these states for good (show.html.haml, 187-199).           *)
PageFollows ==
  (page \in Live /\ [](row[Run] \notin Live)) ~> (page \notin Live \cup {"loading"})

(* The transitions of all drawings end, and then nothing asks for frames.  *)
TransitionsEnd == (timers # {}) ~> (timers = {} /\ ~interval)
=============================================================================
