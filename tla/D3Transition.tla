---------------------------- MODULE D3Transition ----------------------------
(***************************************************************************)
(* d3's timers and transitions under a chart that is redrawn: the groups   *)
(* of its series fade in and out, a transition that starts interrupts the  *)
(* older ones of its node, and a group that faded out is removed when its  *)
(* transition ends.                                                        *)
(*                                                                         *)
(* A frame runs every timer of the queue, and no other code of the page    *)
(* runs meanwhile.  Whether the duration of a transition is over at a      *)
(* frame is a choice: durations differ (250 and 500 ms), and frames come   *)
(* late on a busy page.                                                    *)
(***************************************************************************)
EXTENDS Naturals, FiniteSets

CONSTANTS
  Nodes,  \* the groups of the series, by index
  MaxId   \* bound on d3_transitionId

ASSUME NodesAssumption == /\ IsFiniteSet(Nodes) /\ Nodes # {}
                          /\ Nodes = 1..Cardinality(Nodes)
ASSUME MaxIdAssumption == MaxId \in Nat

VARIABLES
  id,       \* d3_transitionId
  timers,   \* the queue of d3_timer
  due,      \* the timers this frame has still to run
  flushed,  \* the timers whose callback returned 1 in this frame
  marking,  \* d3_timer_mark is under way
  interval, \* d3_timer_interval: a frame is requested
  lock,     \* node.__transition__
  opacity,  \* stroke-opacity and fill-opacity of a group
  dom,      \* the groups that have a parent
  wanted    \* the groups the last drawing was about

timerVars      == <<timers, due, flushed, marking, interval>>
transitionVars == <<id, timerVars, lock, opacity, dom, wanted>>

(* What a transition leads to: opacity 1, or 1e-6 and removal. *)
Targets == {"in", "out"}

(* callback is start until the transition took the lock, then tick.  Both  *)
(* have a delay of 0.                                                      *)
Timer == [node : Nodes, id : 1..MaxId, callback : {"start", "tick"}]

(* active, count and the transitions by id of node.__transition__, which a *)
(* node without transitions does not have.                                 *)
NoLock == [active |-> 0, count |-> 0, by |-> <<>>]

TransitionInit ==
  /\ id = 0
  /\ timers = {} /\ due = {} /\ flushed = {}
  /\ marking = FALSE
  /\ interval = FALSE
  /\ lock = [n \in Nodes |-> NoLock]
  /\ opacity = [n \in Nodes |-> "out"]
  /\ dom = {}
  /\ wanted = {}

(* The page is left, and nothing of it is kept. *)
TransitionReset ==
  /\ id' = 0
  /\ timers' = {} /\ due' = {} /\ flushed' = {}
  /\ marking' = FALSE
  /\ interval' = FALSE
  /\ lock' = [n \in Nodes |-> NoLock]
  /\ opacity' = [n \in Nodes |-> "out"]
  /\ dom' = {}
  /\ wanted' = {}
-----------------------------------------------------------------------------
(* d3_transitionNode: one more transition of a node, which does not touch  *)
(* the ones that are under way.                                            *)
Locked(l, k, target) ==
  [active |-> l.active,
   count  |-> l.count + 1,
   by     |-> [j \in DOMAIN l.by \cup {k} |-> IF j = k THEN target ELSE l.by[j]]]

(* start: a transition takes the lock. *)
Started(l, k) == [active |-> k, count |-> l.count, by |-> l.by]

(* stop: the last transition takes the lock with it. *)
Unlocked(l, k) ==
  IF l.count = 1 THEN NoLock
  ELSE [active |-> l.active,
        count  |-> l.count - 1,
        by     |-> [j \in DOMAIN l.by \ {k} |-> l.by[j]]]

(* A drawing joins the groups with the series s by key: what enters is     *)
(* appended transparent, what leaves fades out and is then removed, the    *)
(* rest fades in.  All their transitions have the id of the drawing.       *)
Join(s) ==
  LET joined == dom \cup s IN
  /\ ~marking
  /\ id < MaxId
  /\ id' = id + 1
  /\ dom' = joined
  /\ wanted' = s
  /\ opacity' = [n \in Nodes |-> IF n \in s \ dom THEN "out" ELSE opacity[n]]
  /\ lock' = [n \in Nodes |->
                IF n \in joined
                THEN Locked(lock[n], id', IF n \in s THEN "in" ELSE "out")
                ELSE lock[n]]
  /\ timers' = timers \cup [node : joined, id : {id'}, callback : {"start"}]
  /\ interval' = (interval \/ joined # {})
  /\ UNCHANGED <<due, flushed, marking>>
-----------------------------------------------------------------------------
(* d3_timer_step, d3_timer_mark: a frame begins with the head of the queue. *)
Mark ==
  /\ interval
  /\ ~marking
  /\ marking' = TRUE
  /\ due' = timers
  /\ UNCHANGED <<id, timers, flushed, interval, lock, opacity, dom, wanted>>

(* The queue has the timers in the order of their transitions.             *)
IsNext(t) == /\ marking
             /\ t \in due
             /\ \A u \in due : t.id < u.id \/ (t.id = u.id /\ t.node <= u.node)

(* start gives up for a newer transition, tick for any other one that took *)
(* the lock.                                                               *)
Interrupted(t) == IF t.callback = "start" THEN lock[t.node].active > t.id
                  ELSE lock[t.node].active # t.id

Interrupt(t) ==
  /\ IsNext(t)
  /\ Interrupted(t)
  /\ due' = due \ {t}
  /\ flushed' = flushed \cup {t}
  /\ lock' = [lock EXCEPT ![t.node] = Unlocked(@, t.id)]
  /\ UNCHANGED <<id, timers, marking, interval, opacity, dom, wanted>>

(* A tick before the duration is over; the first comes with the start.  A  *)
(* tween that has nothing to change is left out.                           *)
Tick(t) ==
  LET n      == t.node
      ticked == [t EXCEPT !.callback = "tick"]
  IN /\ IsNext(t)
     /\ ~Interrupted(t)
     /\ due' = due \ {t}
     /\ timers' = (timers \ {t}) \cup {ticked}
     /\ lock' = [lock EXCEPT ![n] = Started(@, t.id)]
     /\ opacity' = [opacity EXCEPT ![n] = IF @ = lock[n].by[t.id] THEN @ ELSE "between"]
     /\ UNCHANGED <<id, flushed, marking, interval, dom, wanted>>

(* Variant: a group is removed although it has another transition. *)
EndAndRemove(t) ==
  LET n      == t.node
      target == lock[n].by[t.id]
  IN /\ IsNext(t)
     /\ ~Interrupted(t)
     /\ due' = due \ {t}
     /\ flushed' = flushed \cup {t}
     /\ lock' = [lock EXCEPT ![n] = Unlocked(Started(@, t.id), t.id)]
     /\ opacity' = [opacity EXCEPT ![n] = target]
     /\ dom' = IF target = "out" THEN dom \ {n} ELSE dom
     /\ UNCHANGED <<id, timers, marking, interval, wanted>>

(* The last tick, stop, and the end event: remove spares a group that has  *)
(* another transition.                                                     *)
End(t) ==
  LET n      == t.node
      target == lock[n].by[t.id]
  IN /\ IsNext(t)
     /\ ~Interrupted(t)
     /\ due' = due \ {t}
     /\ flushed' = flushed \cup {t}
     /\ lock' = [lock EXCEPT ![n] = Unlocked(Started(@, t.id), t.id)]
     /\ opacity' = [opacity EXCEPT ![n] = target]
     /\ dom' = IF target = "out" /\ lock'[n].count = 0 THEN dom \ {n} ELSE dom
     /\ UNCHANGED <<id, timers, marking, interval, wanted>>

(* Variant: the loop stops as soon as one timer is done. *)
SweepAndRest ==
  /\ marking
  /\ due = {}
  /\ marking' = FALSE
  /\ timers' = timers \ flushed
  /\ flushed' = {}
  /\ interval' = (timers' # {} /\ flushed = {})
  /\ UNCHANGED <<id, due, lock, opacity, dom, wanted>>

(* d3_timer_sweep, and the rest of d3_timer_step: another frame as long as *)
(* there are timers.                                                       *)
Sweep ==
  /\ marking
  /\ due = {}
  /\ marking' = FALSE
  /\ timers' = timers \ flushed
  /\ flushed' = {}
  /\ interval' = (timers' # {})
  /\ UNCHANGED <<id, due, lock, opacity, dom, wanted>>

Ends == \E t \in due : End(t)

FrameStep == Mark \/ (\E t \in due : Interrupt(t) \/ Tick(t) \/ End(t)) \/ Sweep

TransitionNext == (\E s \in SUBSET Nodes : Join(s)) \/ FrameStep

TransitionSpec == TransitionInit /\ [][TransitionNext]_transitionVars
-----------------------------------------------------------------------------
(* Properties *)

TransitionTypeOK ==
  /\ id \in 0..MaxId
  /\ timers \subseteq Timer
  /\ due \subseteq timers
  /\ flushed \subseteq timers
  /\ marking \in BOOLEAN
  /\ interval \in BOOLEAN
  /\ \A n \in Nodes : /\ lock[n].active \in 0..MaxId
                      /\ lock[n].count \in Nat
                      /\ DOMAIN lock[n].by \subseteq 1..MaxId
                      /\ \A k \in DOMAIN lock[n].by : lock[n].by[k] \in Targets
  /\ opacity \in [Nodes -> Targets \cup {"between"}]
  /\ dom \subseteq Nodes
  /\ wanted \subseteq Nodes

(* The transitions of a node are counted, each has one timer that will be  *)
(* run, and frames are requested as long as there are timers: no           *)
(* transition is left half way because the queue, the lock table and the   *)
(* frame loop disagree (d3.v3.js, 1908-1970 and 7699-7747).                *)
TimersKept ==
  /\ \A n \in Nodes :
       /\ lock[n].count = Cardinality(DOMAIN lock[n].by)
       /\ \A k \in 1..MaxId :
            k \in DOMAIN lock[n].by <=>
              \E t \in timers \ flushed : t.node = n /\ t.id = k
  /\ timers # {} => interval

(* Once nothing moves, the groups of the last drawing are on the page and  *)
(* opaque, and whatever else is left is transparent, however many times    *)
(* series were switched off and on while they were fading.                 *)
Faded ==
  timers = {} => /\ wanted \subseteq dom
                 /\ \A n \in dom : opacity[n] = IF n \in wanted THEN "in" ELSE "out"
=============================================================================
