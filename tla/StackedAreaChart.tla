-------------------------- MODULE StackedAreaChart --------------------------
(***************************************************************************)
(* The chart of total calls: nv.models.stackedAreaChart with its legend,   *)
(* its areas, and the invisible layer of points its scatter puts over them *)
(* (lineChart, which draws the other results, has the same legend and the  *)
(* same scatter).                                                          *)
(*                                                                         *)
(* Each event switches series and draws the whole chart again; the groups  *)
(* of the scatter then fade as D3Transition says, and the layer of points  *)
(* follows 300 ms after the last drawing.  Where the areas lie (the        *)
(* styles, the stacking, the axes) is left out.                            *)
(***************************************************************************)
EXTENDS D3Transition

VARIABLES
  disabled,    \* the series that are switched off (d.disabled)
  needsUpdate, \* the layer of points is behind the drawing
  pending,     \* timeouts of updateInteractiveLayer, each by its closure's data
  layer        \* the data the handlers of the points have

chartVars == <<transitionVars, disabled, needsUpdate, pending, layer>>

ChartInit ==
  /\ TransitionInit
  /\ disabled = {}
  /\ needsUpdate = FALSE
  /\ pending = {}
  /\ layer = {}

ChartReset ==
  /\ TransitionReset
  /\ disabled' = {}
  /\ needsUpdate' = FALSE
  /\ pending' = {}
  /\ layer' = {}
-----------------------------------------------------------------------------
(* Variant: the drawing leaves the timeout of the last one running. *)
DrawOver(off) ==
  /\ Join(Nodes \ off)
  /\ disabled' = off
  /\ needsUpdate' = TRUE
  /\ pending' = pending \cup {Nodes \ off}
  /\ UNCHANGED layer

(* chart(selection): the scatter gets the series that are switched on.     *)
Draw(off) ==
  /\ Join(Nodes \ off)
  /\ disabled' = off
  /\ needsUpdate' = TRUE
  /\ pending' = {Nodes \ off}
  /\ UNCHANGED layer

(* The timeout comes: points answer again, with the data of their drawing. *)
UpdateInteractiveLayer(shown) ==
  /\ ~marking
  /\ shown \in pending
  /\ pending' = pending \ {shown}
  /\ layer' = shown
  /\ needsUpdate' = FALSE
  /\ UNCHANGED <<transitionVars, disabled>>

HasDrawing == id # 0

(* Variant: the last series can be switched off. *)
ToggledAlone(i) ==
  IF i \in disabled THEN disabled \ {i} ELSE disabled \cup {i}

(* A click in the legend; nothing left to show shows everything. *)
Toggled(i) ==
  IF disabled \cup {i} = Nodes /\ i \notin disabled THEN {}
  ELSE IF i \in disabled THEN disabled \ {i} ELSE disabled \cup {i}

LegendClick(i) == HasDrawing /\ Draw(Toggled(i))

LegendDblclick(i) == HasDrawing /\ Draw(Nodes \ {i})

(* areaClick.toggle: a series alone, or all of them again.  *)
Isolated(i) == IF Cardinality(Nodes \ disabled) = 1 THEN {} ELSE Nodes \ {i}

(* An area is clicked: the paths of the areas are joined by index with all *)
(* the series, the ones without a height included.                         *)
AreaClick(i) == HasDrawing /\ Draw(Isolated(i))

(* The k-th of the series that are switched on. *)
Position(i, shown) == Cardinality({j \in shown : j <= i})

(* A point is clicked: seriesIndex counts the series of the layer, and     *)
(* areaClick.toggle takes it for an index into all of them.                *)
PointClick(i) ==
  /\ i \in layer
  /\ ~needsUpdate
  /\ Draw(Isolated(Position(i, layer)))

(* A control of the style, or the window: the same series again.           *)
Redraw == HasDrawing /\ Draw(disabled)

ChartEvent ==
  \/ \E i \in Nodes : \/ LegendClick(i) \/ LegendDblclick(i)
                      \/ AreaClick(i) \/ PointClick(i)
  \/ Redraw

ChartTimeout == \E shown \in pending : UpdateInteractiveLayer(shown)

ChartFrame == FrameStep /\ UNCHANGED <<disabled, needsUpdate, pending, layer>>
-----------------------------------------------------------------------------
(* Properties *)

ChartTypeOK ==
  /\ TransitionTypeOK
  /\ disabled \subseteq Nodes
  /\ needsUpdate \in BOOLEAN
  /\ pending \subseteq SUBSET Nodes
  /\ layer \subseteq Nodes

(* No sequence of clicks in the legend, on areas and on points leaves an   *)
(* empty chart (nv.d3.js, 12811-12860).                                    *)
SomeSeriesShown == disabled # Nodes

(* Points that answer belong to the last drawing: a click that comes       *)
(* between a drawing and its layer is dropped, and no timeout of an older  *)
(* drawing brings its points back (nv.d3.js, 10113 and 10210-10296).       *)
LayerFresh ==
  HasDrawing /\ ~needsUpdate => layer = Nodes \ disabled /\ pending = {}
=============================================================================
