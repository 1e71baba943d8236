------------------------- MODULE ResultsPage_proofs -------------------------
(***************************************************************************)
(* Proofs about the page of a run, for any number of series and charts:    *)
(* the timers and transitions of d3 under the drawings of a chart, the     *)
(* layer of points, and the charts that follow the window.                 *)
(***************************************************************************)
EXTENDS ResultsPage, FiniteSetTheorems, SequenceTheorems, TLAPS

(***************************************************************************)
(* The lock of a node                                                      *)
(***************************************************************************)

(* One more transition is added to those of the node.                      *)
LEMMA LockedAdds ==
  ASSUME NEW l, NEW k, NEW target
  PROVE  LET r == Locked(l, k, target) IN
         /\ r.active = l.active
         /\ r.count = l.count + 1
         /\ DOMAIN r.by = DOMAIN l.by \cup {k}
         /\ r.by[k] = target
         /\ \A j \in DOMAIN l.by \ {k} : r.by[j] = l.by[j]
BY DEF Locked

(* A transition that takes the lock changes nothing else.                  *)
LEMMA StartedTakes ==
  ASSUME NEW l, NEW k
  PROVE  LET r == Started(l, k) IN
         r.active = k /\ r.count = l.count /\ r.by = l.by
BY DEF Started

(* One is taken from them; the last takes the lock with it.                *)
LEMMA UnlockedTakes ==
  ASSUME NEW l, NEW k, IsFiniteSet(DOMAIN l.by), k \in DOMAIN l.by,
         l.count = Cardinality(DOMAIN l.by)
  PROVE  LET r == Unlocked(l, k) IN
         /\ r.count = Cardinality(DOMAIN r.by)
         /\ DOMAIN r.by = DOMAIN l.by \ {k}
         /\ \A j \in DOMAIN l.by \ {k} : r.by[j] = l.by[j]
         /\ DOMAIN r.by # {} => r.active = l.active
         /\ r.active \in {l.active, 0}
         /\ r.count = 0 => DOMAIN r.by = {}
<1>1. /\ Cardinality(DOMAIN l.by) \in Nat
      /\ Cardinality(DOMAIN l.by \ {k}) = Cardinality(DOMAIN l.by) - 1
      /\ IsFiniteSet(DOMAIN l.by \ {k})
  BY FS_CardinalityType, FS_RemoveElement
<1>2. DOMAIN <<>> = {}
  OBVIOUS
<1>3. CASE l.count = 1
  <2>1. DOMAIN l.by \ {k} = {}
    BY <1>1, <1>3, FS_EmptySet
  <2>2. Unlocked(l, k) = NoLock
    BY <1>3 DEF Unlocked
  <2>3. QED
    BY <1>2, <2>1, <2>2, FS_EmptySet DEF NoLock
<1>4. CASE l.count # 1
  <2> DEFINE b == [j \in DOMAIN l.by \ {k} |-> l.by[j]]
  <2>1. Unlocked(l, k) = [active |-> l.active, count |-> l.count - 1, by |-> b]
    BY <1>4 DEF Unlocked
  <2>2. DOMAIN b = DOMAIN l.by \ {k} /\ \A j \in DOMAIN l.by \ {k} : b[j] = l.by[j]
    OBVIOUS
  <2> HIDE DEF b
  <2>3. l.count - 1 = Cardinality(DOMAIN b)
    BY <1>1, <2>2
  <2>4. l.count - 1 # 0
    BY <1>1, <1>4
  <2>5. QED
    BY <2>1, <2>2, <2>3, <2>4
<1>5. QED
  BY <1>3, <1>4

(***************************************************************************)
(* Timers and transitions                                                  *)
(***************************************************************************)

Kinds ==
  /\ id \in 0..MaxId
  /\ timers \subseteq Timer
  /\ marking \in BOOLEAN
  /\ interval \in BOOLEAN

(* A frame has to run timers that are not done, and outside of frames      *)
(* there are none of its; frames are requested as long as there are timers.*)
Frames ==
  /\ flushed \subseteq timers
  /\ due \subseteq timers \ flushed
  /\ ~marking => due = {} /\ flushed = {}
  /\ timers # {} => interval

(* A timer is known by its node and by its transition. *)
OneEach ==
  /\ \A t \in timers : t.id <= id
  /\ \A t, u \in timers : t.node = u.node /\ t.id = u.id => t = u

Locks ==
  /\ DOMAIN lock = Nodes
  /\ \A n \in Nodes :
       /\ lock[n].active \in 0..id
       /\ DOMAIN lock[n].by \subseteq 1..id
       /\ \A k \in DOMAIN lock[n].by : lock[n].by[k] \in Targets
       /\ lock[n].count = Cardinality(DOMAIN lock[n].by)

(* The transitions of a node are those that have a timer to be run. *)
Listed ==
  \A n \in Nodes, k \in 1..MaxId :
    k \in DOMAIN lock[n].by <=> \E t \in timers \ flushed : t.node = n /\ t.id = k

Groups ==
  /\ opacity \in [Nodes -> Targets \cup {"between"}]
  /\ dom \subseteq Nodes
  /\ wanted \subseteq dom

(* Where the last drawing leads a group. *)
Goal(n) == IF n \in wanted THEN "in" ELSE "out"

(* A group has the transition of the last drawing before it, or behind it: *)
(* then the ones that are left will be interrupted, and change nothing.    *)
Ahead(n)  == id \in DOMAIN lock[n].by /\ lock[n].by[id] = Goal(n)
Behind(n) == /\ opacity[n] = Goal(n)
             /\ id \notin DOMAIN lock[n].by
             /\ DOMAIN lock[n].by # {} => lock[n].active = id

Fading == \A n \in dom : Ahead(n) \/ Behind(n)

(* What the last drawing has started is not interrupted. *)
Leading ==
  \A t \in timers \ flushed :
    t.id = id /\ t.callback = "tick" => lock[t.node].active = id

Kept == Kinds /\ Frames /\ OneEach /\ Locks /\ Listed
DInv == Kept /\ Leading /\ Groups /\ Fading

(* A timer that is due has its transition in the lock of its node.         *)
LEMMA DueIsListed ==
  ASSUME Kept, NEW t \in due
  PROVE  /\ t \in timers /\ t \notin flushed
         /\ t.node \in Nodes
         /\ t.id \in 1..MaxId /\ t.id \in 1..id
         /\ t.id \in DOMAIN lock[t.node].by
         /\ t = [node |-> t.node, id |-> t.id, callback |-> t.callback]
         /\ t.callback \in {"start", "tick"}
<1>1. t \in timers /\ t \notin flushed
  BY DEF Kept, Frames
<1>2. t \in Timer
  BY <1>1 DEF Kept, Kinds
<1>3. /\ t.node \in Nodes /\ t.id \in 1..MaxId
      /\ t = [node |-> t.node, id |-> t.id, callback |-> t.callback]
      /\ t.callback \in {"start", "tick"}
  BY <1>2 DEF Timer
<1>4. t.id \in 1..id
  BY <1>1, <1>3, MaxIdAssumption DEF Kept, OneEach, Kinds
<1>5. t.id \in DOMAIN lock[t.node].by
  BY <1>1, <1>3 DEF Kept, Listed
<1>6. QED
  BY <1>1, <1>3, <1>4, <1>5

(* The transitions of a node are finitely many. *)
LEMMA FewTransitions ==
  ASSUME Kept, NEW n \in Nodes
  PROVE  IsFiniteSet(DOMAIN lock[n].by)
<1>1. id \in Int /\ DOMAIN lock[n].by \subseteq 1..id
  BY MaxIdAssumption DEF Kept, Kinds, Locks
<1>2. IsFiniteSet(1..id)
  BY <1>1, FS_Interval
<1>3. QED
  BY <1>1, <1>2, FS_Subset

(* A timer is done, and its transition leaves the lock of its node: the    *)
(* two stay in step.                                                       *)
LEMMA DoneLeavesBoth ==
  ASSUME Kept, NEW t \in due, NEW l,
         l.active \in 0..id, l.count = lock[t.node].count, l.by = lock[t.node].by,
         due' = due \ {t}, flushed' = flushed \cup {t},
         UNCHANGED <<id, timers, interval>>, marking, marking',
         lock' = [lock EXCEPT ![t.node] = Unlocked(l, t.id)]
  PROVE  /\ Kept'
         /\ \A n \in Nodes \ {t.node} : lock'[n] = lock[n]
         /\ DOMAIN lock'[t.node].by = DOMAIN lock[t.node].by \ {t.id}
         /\ \A k \in DOMAIN lock'[t.node].by : lock'[t.node].by[k] = lock[t.node].by[k]
         /\ DOMAIN lock'[t.node].by # {} => lock'[t.node].active = l.active
         /\ lock'[t.node].count = 0 => DOMAIN lock'[t.node].by = {}
<1>1. PICK m, k : m = t.node /\ k = t.id
  OBVIOUS
<1>2. /\ t \in timers /\ t \notin flushed
      /\ m \in Nodes /\ k \in 1..MaxId /\ k \in 1..id /\ k \in DOMAIN lock[m].by
  BY <1>1, DueIsListed
<1>3. DOMAIN lock = Nodes
  BY DEF Kept, Locks
<1>4. /\ l.active \in 0..id
      /\ l.count = lock[m].count
      /\ l.by = lock[m].by
  BY <1>1
<1>5. IsFiniteSet(DOMAIN l.by) /\ k \in DOMAIN l.by /\ l.count = Cardinality(DOMAIN l.by)
  BY <1>2, <1>4, FewTransitions DEF Kept, Locks
<1>6. PICK r : r = Unlocked(l, k)
  OBVIOUS
<1>7. /\ r.count = Cardinality(DOMAIN r.by)
      /\ DOMAIN r.by = DOMAIN l.by \ {k}
      /\ \A j \in DOMAIN l.by \ {k} : r.by[j] = l.by[j]
      /\ DOMAIN r.by # {} => r.active = l.active
      /\ r.active \in {l.active, 0}
      /\ r.count = 0 => DOMAIN r.by = {}
  BY <1>5, <1>6, UnlockedTakes
<1>8. lock' = [lock EXCEPT ![m] = r]
  BY <1>1, <1>6
<1>9. lock'[m] = r /\ DOMAIN lock' = Nodes /\ \A n \in Nodes \ {m} : lock'[n] = lock[n]
  BY <1>2, <1>3, <1>8
<1>10. Kinds'
  BY DEF Kept, Kinds
<1>11. Frames'
  BY <1>2 DEF Kept, Frames
<1>12. OneEach'
  BY DEF Kept, OneEach
<1>13. Locks'
  <2>1. r.active \in 0..id
    BY <1>4, <1>7, MaxIdAssumption DEF Kept, Kinds
  <2>2. DOMAIN r.by \subseteq 1..id /\ \A j \in DOMAIN r.by : r.by[j] \in Targets
    BY <1>2, <1>4, <1>7 DEF Kept, Locks
  <2>3. QED
    BY ZenonT(40), <1>7, <1>9, <2>1, <2>2 DEF Kept, Locks
<1>14. Listed'
  <2> SUFFICES ASSUME NEW n \in Nodes, NEW j \in 1..MaxId
               PROVE  j \in DOMAIN lock'[n].by
                        <=> \E u \in timers \ (flushed \cup {t}) : u.node = n /\ u.id = j
    BY DEF Listed
  <2>1. j \in DOMAIN lock[n].by <=> \E u \in timers \ flushed : u.node = n /\ u.id = j
    BY DEF Kept, Listed
  <2>2. CASE n = m /\ j = k
    <3>1. \A u \in timers : u.node = n /\ u.id = j => u = t
      BY <1>1, <1>2, <2>2 DEF Kept, OneEach
    <3>2. j \notin DOMAIN lock'[n].by
      BY <1>7, <1>9, <2>2
    <3>3. QED
      BY <3>1, <3>2
  <2>3. CASE ~(n = m /\ j = k)
    <3>1. j \in DOMAIN lock'[n].by <=> j \in DOMAIN lock[n].by
      BY <1>4, <1>7, <1>9, <2>3
    <3>2. \A u \in timers : u.node = n /\ u.id = j => u # t
      BY <1>1, <2>3
    <3>3. QED
      BY <2>1, <3>1, <3>2
  <2>4. QED
    BY <2>2, <2>3
<1>15. QED
  BY <1>1, <1>4, <1>7, <1>9, <1>10, <1>11, <1>12, <1>13, <1>14 DEF Kept
(* The actions of D3Transition, one by one. *)
LEMMA InterruptKeeps ==
  ASSUME DInv, NEW t \in due, Interrupt(t)
  PROVE  DInv'
<1> USE DEF DInv, Interrupt
<1>1. marking /\ marking'
  BY DEF IsNext
<1>2. PICK l : l = lock[t.node]
  OBVIOUS
<1>3. t.node \in Nodes /\ t.id \in 1..id /\ DOMAIN lock = Nodes /\ l.active \in 0..id
  BY <1>2, DueIsListed DEF Kept, Locks
<1>4. lock' = [lock EXCEPT ![t.node] = Unlocked(l, t.id)]
  BY <1>2, <1>3
<1>5. /\ Kept'
      /\ \A n \in Nodes \ {t.node} : lock'[n] = lock[n]
      /\ DOMAIN lock'[t.node].by = DOMAIN lock[t.node].by \ {t.id}
      /\ \A k \in DOMAIN lock'[t.node].by : lock'[t.node].by[k] = lock[t.node].by[k]
      /\ DOMAIN lock'[t.node].by # {} => lock'[t.node].active = lock[t.node].active
  BY <1>1, <1>2, <1>3, <1>4, DoneLeavesBoth
<1>6. t.id # id
  <2>1. /\ lock[t.node].active \in 0..id /\ id \in Int
        /\ t \in timers \ flushed /\ t.callback \in {"start", "tick"}
    BY <1>2, <1>3, DueIsListed, MaxIdAssumption DEF Kept, Kinds
  <2>2. CASE t.callback = "start"
    BY <2>1, <2>2 DEF Interrupted
  <2>3. CASE t.callback = "tick"
    BY <2>1, <2>3 DEF Interrupted, Leading
  <2>4. QED
    BY <2>1, <2>2, <2>3
<1>7. Leading'
  <2> SUFFICES ASSUME NEW u \in timers \ (flushed \cup {t}), u.id = id, u.callback = "tick"
               PROVE  lock'[u.node].active = id
    BY DEF Leading
  <2>1. lock[u.node].active = id /\ u.node \in Nodes
    BY DEF Leading, Kept, Kinds, Timer
  <2>2. CASE u.node # t.node
    BY <1>5, <2>1, <2>2
  <2>3. CASE u.node = t.node
    <3>1. u.id \in DOMAIN lock[u.node].by
      BY <2>1, MaxIdAssumption DEF Kept, Kinds, Timer, Listed
    <3>2. DOMAIN lock'[u.node].by # {}
      BY <1>5, <1>6, <2>3, <3>1
    <3>3. QED
      BY <1>5, <2>1, <2>3, <3>2
  <2>4. QED
    BY <2>2, <2>3
<1>8. Groups'
  BY DEF Groups
<1>9. Fading'
  <2> SUFFICES ASSUME NEW n \in dom
               PROVE  Ahead(n)' \/ Behind(n)'
    BY DEF Fading
  <2>1. n \in Nodes /\ (Ahead(n) \/ Behind(n))
    BY DEF Fading, Groups
  <2>2. Goal(n)' = Goal(n)
    BY DEF Goal
  <2>3. CASE n # t.node
    BY <1>5, <2>1, <2>2, <2>3 DEF Ahead, Behind
  <2>4. CASE n = t.node /\ Behind(n)
    BY <1>5, <2>2, <2>4 DEF Behind
  <2>5. CASE n = t.node /\ Ahead(n)
    \* The last drawing is interrupted by no other.
    <3>1. t.id # id
      BY <1>6
    <3>2. QED
      BY <1>5, <2>2, <2>5, <3>1 DEF Ahead
  <2>6. QED
    BY <2>1, <2>3, <2>4, <2>5
<1>10. QED
  BY <1>5, <1>8, <1>9, <1>7

LEMMA EndKeeps ==
  ASSUME DInv, NEW t \in due, End(t)
  PROVE  DInv'
<1> USE DEF DInv
<1>1. /\ marking /\ marking'
      /\ due' = due \ {t} /\ flushed' = flushed \cup {t}
      /\ UNCHANGED <<id, timers, interval, wanted>>
      /\ ~Interrupted(t)
  BY DEF End, IsNext
<1>2. PICK m, k, target : m = t.node /\ k = t.id /\ target = lock[m].by[k]
  OBVIOUS
<1>3. PICK l : l = Started(lock[m], k)
  OBVIOUS
<1>4. /\ m \in Nodes /\ k \in 1..MaxId /\ k \in 1..id /\ DOMAIN lock = Nodes
      /\ k \in DOMAIN lock[m].by
      /\ t \in timers \ flushed /\ t.callback \in {"start", "tick"}
      /\ id \in Int /\ lock[m].active \in 0..id
  BY <1>2, DueIsListed, MaxIdAssumption DEF Kept, Locks, Kinds
<1>5. l.active = k /\ l.count = lock[m].count /\ l.by = lock[m].by /\ k \in 0..id
  BY <1>3, <1>4, StartedTakes
<1>6. lock' = [lock EXCEPT ![t.node] = Unlocked(l, t.id)]
  <2>1. lock' = [lock EXCEPT ![t.node] = Unlocked(Started(lock[t.node], t.id), t.id)]
    BY DEF End
  <2>2. l = Started(lock[t.node], t.id)
    BY <1>2, <1>3
  <2>3. QED
    BY ONLY <2>1, <2>2
<1>7. /\ Kept'
      /\ \A n \in Nodes \ {m} : lock'[n] = lock[n]
      /\ DOMAIN lock'[m].by = DOMAIN lock[m].by \ {k}
      /\ \A j \in DOMAIN lock'[m].by : lock'[m].by[j] = lock[m].by[j]
      /\ DOMAIN lock'[m].by # {} => lock'[m].active = k
      /\ lock'[m].count = 0 => DOMAIN lock'[m].by = {}
  <2>1. l.active \in 0..id /\ l.count = lock[t.node].count /\ l.by = lock[t.node].by
    BY <1>2, <1>5
  <2> HIDE DEF DInv
  <2>2. Kept
    BY DEF DInv
  <2>3. /\ Kept'
        /\ \A n \in Nodes \ {t.node} : lock'[n] = lock[n]
        /\ DOMAIN lock'[t.node].by = DOMAIN lock[t.node].by \ {t.id}
        /\ \A j \in DOMAIN lock'[t.node].by : lock'[t.node].by[j] = lock[t.node].by[j]
        /\ DOMAIN lock'[t.node].by # {} => lock'[t.node].active = l.active
        /\ lock'[t.node].count = 0 => DOMAIN lock'[t.node].by = {}
    BY <1>1, <1>6, <2>1, <2>2, DoneLeavesBoth
  <2>4. t.node = m /\ t.id = k /\ l.active = k
    BY <1>2, <1>5
  <2>5. QED
    BY <2>3, <2>4
<1>8. opacity' = [opacity EXCEPT ![m] = target] /\ target \in Targets
  BY <1>2, <1>4 DEF Kept, Locks, End
<1>9. dom' = IF target = "out" /\ lock'[m].count = 0 THEN dom \ {m} ELSE dom
  BY <1>2 DEF End
<1>10. lock[m].active # id \/ k = id
  BY <1>1, <1>2, <1>4 DEF Interrupted
<1>11. Leading'
  <2> SUFFICES ASSUME NEW u \in timers \ (flushed \cup {t}), u.id = id, u.callback = "tick"
               PROVE  lock'[u.node].active = id
    BY <1>1 DEF Leading
  <2>1. lock[u.node].active = id /\ u.node \in Nodes
    BY DEF Leading, Kept, Kinds, Timer
  <2>2. CASE u.node # m
    BY <1>7, <2>1, <2>2
  <2>3. CASE u.node = m
    <3>1. k = id
      BY <1>10, <2>1, <2>3
    <3>2. u = t
      BY <1>2, <1>4, <2>3, <3>1 DEF Kept, OneEach
    <3>3. QED
      BY <3>2
  <2>4. QED
    BY <2>2, <2>3
<1>12. Fading'
  <2> SUFFICES ASSUME NEW n \in dom'
               PROVE  Ahead(n)' \/ Behind(n)'
    BY DEF Fading
  <2>1. n \in Nodes /\ n \in dom /\ (Ahead(n) \/ Behind(n))
    BY <1>9 DEF Fading, Groups
  <2>2. Goal(n)' = Goal(n)
    BY <1>1 DEF Goal
  <2>3. CASE n # m
    <3>1. opacity'[n] = opacity[n]
      BY <1>8, <2>1, <2>3 DEF Groups
    <3>2. lock'[n] = lock[n] /\ id' = id
      BY <1>1, <1>7, <2>1, <2>3
    <3>3. QED
      BY <2>1, <2>2, <3>1, <3>2 DEF Ahead, Behind
  <2>4. CASE n = m /\ k = id
    <3>1. Ahead(n)
      BY <1>4, <2>1, <2>4 DEF Behind
    <3>2. opacity'[n] = Goal(n)
      BY <1>2, <1>8, <2>1, <2>4, <3>1 DEF Ahead, Groups
    <3>3. QED
      BY <1>1, <1>7, <2>2, <2>4, <3>2 DEF Behind
  <2>5. CASE n = m /\ k # id
    <3>1. ~Behind(n)
      BY <1>4, <1>10, <2>5 DEF Behind
    <3>2. QED
      BY <1>1, <1>7, <2>1, <2>2, <2>5, <3>1 DEF Ahead
  <2>6. QED
    BY <2>3, <2>4, <2>5
<1>13. Groups'
  <2>1. opacity' \in [Nodes -> Targets \cup {"between"}] /\ dom' \subseteq Nodes
    BY <1>8, <1>9 DEF Groups
  <2>2. wanted \subseteq dom'
    <3> SUFFICES ASSUME m \in wanted, target = "out", lock'[m].count = 0
                 PROVE  FALSE
      BY <1>9 DEF Groups
    <3>1. Ahead(m) \/ Behind(m)
      BY DEF Fading, Groups
    <3>2. DOMAIN lock[m].by = {k}
      BY <1>4, <1>7
    <3>3. CASE Ahead(m)
      BY <1>2, <3>2, <3>3 DEF Ahead, Goal
    <3>4. CASE Behind(m)
      BY <1>4, <1>10, <3>4 DEF Behind
    <3>5. QED
      BY <3>1, <3>3, <3>4
  <2>3. QED
    BY <1>1, <2>1, <2>2 DEF Groups
<1>14. QED
  BY <1>7, <1>11, <1>12, <1>13

LEMMA TickKeeps ==
  ASSUME DInv, NEW t \in due, Tick(t)
  PROVE  DInv'
<1>1. /\ marking /\ marking'
      /\ UNCHANGED <<id, flushed, interval, dom, wanted>>
      /\ ~Interrupted(t)
  BY DEF Tick, IsNext
<1>2. PICK m, k : m = t.node /\ k = t.id
  OBVIOUS
<1>3. Kept /\ Leading /\ Groups /\ Fading
  BY DEF DInv
<1>4. /\ m \in Nodes /\ k \in 1..MaxId /\ k \in 1..id /\ DOMAIN lock = Nodes
      /\ k \in DOMAIN lock[m].by
      /\ t \in timers /\ t \notin flushed /\ t.callback \in {"start", "tick"}
      /\ t = [node |-> m, id |-> k, callback |-> t.callback]
      /\ id \in Int /\ lock[m].active \in 0..id
  BY <1>3, <1>2, DueIsListed, MaxIdAssumption DEF Kept, Locks, Kinds
<1>5. PICK u : u = [node |-> m, id |-> k, callback |-> "tick"]
  OBVIOUS
<1>6. u \in Timer /\ u.node = m /\ u.id = k /\ u.callback = "tick"
  BY <1>4, <1>5 DEF Timer
<1>7. due' = due \ {t} /\ timers' = (timers \ {t}) \cup {u}
  <2>1. [t EXCEPT !.callback = "tick"] = u
    BY <1>4, <1>5
  <2>2. QED
    BY <2>1 DEF Tick
<1>8. PICK l : l = Started(lock[m], k)
  OBVIOUS
<1>9. l.active = k /\ l.count = lock[m].count /\ l.by = lock[m].by /\ k \in 0..id
  BY <1>4, <1>8, StartedTakes
<1>10. /\ lock'[m] = l /\ DOMAIN lock' = Nodes
      /\ \A n \in Nodes \ {m} : lock'[n] = lock[n]
  BY <1>2, <1>4, <1>8 DEF Tick
<1>11. opacity' = [opacity EXCEPT ![m] = IF @ = lock[m].by[k] THEN @ ELSE "between"]
  BY <1>2 DEF Tick
<1>12. lock[m].active # id \/ k = id
  BY <1>1, <1>2, <1>4 DEF Interrupted
<1>13. \A w \in timers : w.node = m /\ w.id = k => w = t
  BY <1>3, <1>2, <1>4 DEF Kept, OneEach
<1>14. u \notin flushed /\ u \notin due \ {t}
  BY <1>3, <1>4, <1>6, <1>13 DEF Kept, Frames
<1>15. Kinds'
  BY <1>3, <1>1, <1>6, <1>7 DEF Kept, Kinds
<1>16. Frames'
  <2>1. flushed' \subseteq timers' /\ due' \subseteq timers' \ flushed'
    BY <1>3, <1>1, <1>4, <1>7 DEF Kept, Frames
  <2>2. timers # {} /\ interval
    BY <1>3, <1>4 DEF Kept, Frames
  <2>3. interval'
    BY <1>1, <2>2
  <2>4. QED
    BY <1>1, <2>1, <2>3 DEF Frames
<1>17. OneEach'
  <2>1. \A w \in timers' : w.id <= id'
    BY <1>3, <1>1, <1>4, <1>6, <1>7 DEF Kept, OneEach
  <2>2. ASSUME NEW v \in timers', NEW w \in timers', v.node = w.node, v.id = w.id
        PROVE  v = w
    BY <1>3, <1>6, <1>7, <1>13, <2>2 DEF Kept, OneEach
  <2>3. QED
    BY <2>1, <2>2 DEF OneEach
<1>18. Locks'
  BY <1>3, <1>1, <1>9, <1>10 DEF Kept, Locks
<1>19. Listed'
  <2> SUFFICES ASSUME NEW n \in Nodes, NEW j \in 1..MaxId
               PROVE  j \in DOMAIN lock'[n].by
                        <=> \E w \in timers' \ flushed' : w.node = n /\ w.id = j
    BY DEF Listed
  <2>1. DOMAIN lock'[n].by = DOMAIN lock[n].by
    BY <1>9, <1>10
  <2>2. j \in DOMAIN lock[n].by <=> \E w \in timers \ flushed : w.node = n /\ w.id = j
    BY <1>3 DEF Kept, Listed
  <2>3. (\E w \in timers \ flushed : w.node = n /\ w.id = j)
          <=> \E w \in timers' \ flushed' : w.node = n /\ w.id = j
    <3>1. u \in timers' \ flushed' /\ t \in timers \ flushed /\ t.node = m /\ t.id = k
      BY <1>1, <1>2, <1>4, <1>7, <1>14
    <3>2. \A w : w # t /\ w # u => (w \in timers \ flushed <=> w \in timers' \ flushed')
      BY <1>1, <1>7
    <3>3. CASE n = m /\ j = k
      BY <1>6, <3>1, <3>3
    <3>4. CASE ~(n = m /\ j = k)
      BY <1>6, <3>1, <3>2, <3>4
    <3>5. QED
      BY <3>3, <3>4
  <2>4. QED
    BY <2>1, <2>2, <2>3
<1>20. Leading'
  <2> SUFFICES ASSUME NEW w \in timers' \ flushed', w.id = id, w.callback = "tick"
               PROVE  lock'[w.node].active = id
    BY <1>1 DEF Leading
  <2>1. CASE w = u
    BY <1>6, <1>9, <1>10, <2>1
  <2>2. CASE w # u
    <3>1. w \in timers \ flushed /\ w # t
      BY <1>1, <1>7, <2>2
    <3>2. lock[w.node].active = id /\ w.node \in Nodes
      BY <1>3, <3>1 DEF Leading, Kept, Kinds, Timer
    <3>3. CASE w.node # m
      BY <1>10, <3>2, <3>3
    <3>4. CASE w.node = m
      BY <1>12, <1>13, <3>1, <3>2, <3>4
    <3>5. QED
      BY <3>3, <3>4
  <2>3. QED
    BY <2>1, <2>2
<1>21. Groups'
  BY <1>3, <1>1, <1>11 DEF Groups
<1>22. Fading'
  <2> SUFFICES ASSUME NEW n \in dom
               PROVE  Ahead(n)' \/ Behind(n)'
    BY <1>1 DEF Fading
  <2>1. n \in Nodes /\ (Ahead(n) \/ Behind(n))
    BY <1>3 DEF Fading, Groups
  <2>2. Goal(n)' = Goal(n)
    BY <1>1 DEF Goal
  <2>3. CASE Ahead(n)
    <3>1. lock'[n].by = lock[n].by
      BY <1>9, <1>10, <2>1
    <3>2. QED
      BY <1>1, <2>2, <2>3, <3>1 DEF Ahead
  <2>4. CASE Behind(n)
    <3>1. n # m
      BY <1>4, <1>12, <2>4 DEF Behind
    <3>2. lock'[n] = lock[n] /\ opacity'[n] = opacity[n]
      BY <1>3, <1>10, <1>11, <2>1, <3>1 DEF Groups
    <3>3. QED
      BY <1>1, <2>2, <2>4, <3>2 DEF Behind
  <2>5. QED
    BY <2>1, <2>3, <2>4
<1>23. QED
  BY <1>15, <1>16, <1>17, <1>18, <1>19, <1>20, <1>21, <1>22 DEF DInv, Kept

LEMMA JoinKeeps ==
  ASSUME DInv, NEW s \in SUBSET Nodes, Join(s)
  PROVE  DInv'
<1>1. /\ ~marking /\ ~marking'
      /\ id' = id + 1 /\ id < MaxId
      /\ wanted' = s
      /\ UNCHANGED <<due, flushed>>
  BY DEF Join
<1>2. Kept /\ Leading /\ Groups /\ Fading
  BY DEF DInv
<1>3. PICK joined : joined = dom \cup s
  OBVIOUS
<1>4. PICK k : k = id + 1
  OBVIOUS
<1>5. /\ id \in Nat /\ id' = k /\ k \in 1..MaxId /\ k \notin 1..id
      /\ \A a \in 0..id : a \in 0..k
      /\ \A a \in 1..id : a \in 1..k
      /\ k \in 1..k
  BY <1>1, <1>2, <1>4, MaxIdAssumption DEF Kept, Kinds
<1>6. joined \subseteq Nodes /\ s \subseteq joined /\ dom' = joined
  BY <1>2, <1>3 DEF Groups, Join
<1>7. due = {} /\ flushed = {}
  BY <1>1, <1>2 DEF Kept, Frames
<1>8. PICK new : new = [node : joined, id : {k}, callback : {"start"}]
  OBVIOUS
<1>9. timers' = timers \cup new
  <2>1. timers' = timers \cup [node : joined, id : {id'}, callback : {"start"}]
    BY <1>3 DEF Join
  <2>2. QED
    BY <1>5, <1>8, <2>1
<1>10. /\ new \subseteq Timer
       /\ \A t \in new : t.node \in joined /\ t.id = k /\ t.callback = "start"
       /\ \A t, u \in new : t.node = u.node => t = u
       /\ \A n \in joined : \E t \in new : t.node = n
  <2>1. \A t \in new : /\ t = [node |-> t.node, id |-> k, callback |-> "start"]
                       /\ t.node \in joined /\ t.id = k /\ t.callback = "start"
    BY <1>8
  <2>2. ASSUME NEW n \in joined
        PROVE  \E t \in new : t.node = n
    <3>1. [node |-> n, id |-> k, callback |-> "start"] \in new
      BY <1>8
    <3>2. QED
      BY <3>1
  <2>3. new \subseteq Timer
    BY <1>5, <1>6, <2>1 DEF Timer
  <2>4. QED
    BY <2>1, <2>2, <2>3
<1>11. ASSUME NEW n \in Nodes \ joined
       PROVE  lock'[n] = lock[n]
  BY <1>3 DEF Join
<1>12. ASSUME NEW n \in joined
       PROVE  /\ lock'[n].active = lock[n].active
              /\ lock'[n].count = lock[n].count + 1
              /\ DOMAIN lock'[n].by = DOMAIN lock[n].by \cup {k}
              /\ lock'[n].by[k] = IF n \in s THEN "in" ELSE "out"
              /\ \A j \in DOMAIN lock[n].by \ {k} : lock'[n].by[j] = lock[n].by[j]
  <2>1. PICK target : target = IF n \in s THEN "in" ELSE "out"
    OBVIOUS
  <2>2. lock'[n] = Locked(lock[n], id', IF n \in s THEN "in" ELSE "out")
    BY <1>3, <1>6 DEF Join
  <2>3. lock'[n] = Locked(lock[n], k, target)
    BY <1>5, <2>1, <2>2
  <2>4. QED
    BY <2>1, <2>3, LockedAdds
<1>13. DOMAIN lock' = Nodes
  BY DEF Join
<1>14. ASSUME NEW n \in Nodes
       PROVE  k \notin DOMAIN lock[n].by /\ IsFiniteSet(DOMAIN lock[n].by)
  BY <1>2, <1>5, FewTransitions DEF Kept, Locks
<1>15. Kinds'
  <2>1. timers' \subseteq Timer /\ id' \in 0..MaxId
    BY <1>2, <1>5, <1>9, <1>10 DEF Kept, Kinds
  <2>2. interval' \in BOOLEAN /\ marking' \in BOOLEAN
    BY <1>2 DEF Join, Kept, Kinds
  <2>3. QED
    BY <2>1, <2>2 DEF Kinds
<1>16. Frames'
  <2>1. timers' # {} => interval'
    <3>1. CASE joined # {}
      BY <1>3, <3>1 DEF Join
    <3>2. CASE joined = {}
      <4>1. timers' = timers
        BY <1>9, <1>10, <3>2
      <4>2. timers # {} => interval
        BY <1>2 DEF Kept, Frames
      <4>3. QED
        BY <4>1, <4>2 DEF Join
    <3>3. QED
      BY <3>1, <3>2
  <2>2. QED
    BY <1>1, <1>7, <2>1 DEF Frames
<1>17. OneEach'
  <2>1. \A t \in timers : t.id <= id /\ t.id # k /\ t.id <= k
    BY <1>2, <1>4, <1>5, MaxIdAssumption DEF Kept, OneEach, Kinds, Timer
  <2>2. \A t \in timers' : t.id <= k
    BY <1>5, <1>9, <1>10, <2>1
  <2>3. ASSUME NEW t \in timers', NEW u \in timers', t.node = u.node, t.id = u.id
        PROVE  t = u
    BY <1>2, <1>9, <1>10, <2>1, <2>3 DEF Kept, OneEach
  <2>4. QED
    BY <1>5, <2>2, <2>3 DEF OneEach
<1>18. Locks'
  <2> SUFFICES ASSUME NEW n \in Nodes
               PROVE  /\ lock'[n].active \in 0..k
                      /\ DOMAIN lock'[n].by \subseteq 1..k
                      /\ \A j \in DOMAIN lock'[n].by : lock'[n].by[j] \in Targets
                      /\ lock'[n].count = Cardinality(DOMAIN lock'[n].by)
    BY <1>5, <1>13 DEF Locks
  <2>1. /\ lock[n].active \in 0..id
        /\ DOMAIN lock[n].by \subseteq 1..id
        /\ \A j \in DOMAIN lock[n].by : lock[n].by[j] \in Targets
        /\ lock[n].count = Cardinality(DOMAIN lock[n].by)
    BY <1>2 DEF Kept, Locks
  <2>2. CASE n \notin joined
    BY <1>5, <1>11, <2>1, <2>2
  <2>3. CASE n \in joined
    <3>1. Cardinality(DOMAIN lock[n].by \cup {k}) = Cardinality(DOMAIN lock[n].by) + 1
      BY <1>14, FS_AddElement
    <3>2. lock'[n].by[k] \in Targets
      BY <1>12, <2>3 DEF Targets
    <3>3. \A j \in DOMAIN lock'[n].by : lock'[n].by[j] \in Targets
      BY <1>12, <2>1, <2>3, <3>2
    <3>4. QED
      BY ZenonT(40), <1>5, <1>12, <2>1, <2>3, <3>1, <3>3
  <2>4. QED
    BY <2>2, <2>3
<1>19. Listed'
  <2> SUFFICES ASSUME NEW n \in Nodes, NEW j \in 1..MaxId
               PROVE  j \in DOMAIN lock'[n].by
                        <=> \E t \in timers \cup new : t.node = n /\ t.id = j
    BY <1>1, <1>7, <1>9 DEF Listed
  <2>1. j \in DOMAIN lock[n].by <=> \E t \in timers : t.node = n /\ t.id = j
    BY <1>2, <1>7 DEF Kept, Listed
  <2>2. CASE n \in joined
    BY <1>10, <1>12, <2>1, <2>2
  <2>3. CASE n \notin joined
    BY <1>10, <1>11, <2>1, <2>3
  <2>4. QED
    BY <2>2, <2>3
<1>20. Leading'
  <2> SUFFICES ASSUME NEW t \in timers', t.id = k, t.callback = "tick"
               PROVE  FALSE
    BY <1>5 DEF Leading
  <2>1. t \in timers
    BY <1>9, <1>10
  <2>2. QED
    BY <1>2, <1>4, <1>5, <2>1 DEF Kept, OneEach
<1>21. Groups'
  <2>1. opacity' \in [Nodes -> Targets \cup {"between"}]
    BY <1>2 DEF Groups, Join, Targets
  <2>2. QED
    BY <1>1, <1>6, <2>1 DEF Groups
<1>22. Fading'
  <2> SUFFICES ASSUME NEW n \in joined
               PROVE  k \in DOMAIN lock'[n].by
                      /\ lock'[n].by[k] = IF n \in s THEN "in" ELSE "out"
    BY <1>1, <1>5, <1>6 DEF Fading, Ahead, Goal
  <2>1. QED
    BY <1>12
<1>23. QED
  BY <1>15, <1>16, <1>17, <1>18, <1>19, <1>20, <1>21, <1>22 DEF DInv, Kept

LEMMA MarkKeeps ==
  ASSUME DInv, Mark
  PROVE  DInv'
<1> USE DEF DInv, Kept
<1>1. /\ ~marking /\ due' = timers
      /\ UNCHANGED <<id, timers, flushed, interval, lock, opacity, dom, wanted>>
      /\ marking'
  BY DEF Mark
<1>2. flushed = {} /\ (timers # {} => interval)
  BY <1>1 DEF Frames
<1>3. Kinds'
  BY <1>1 DEF Kinds
<1>4. Frames'
  BY <1>1, <1>2 DEF Frames
<1>5. OneEach' /\ Locks' /\ Listed' /\ Leading' /\ Groups'
  BY <1>1 DEF OneEach, Locks, Listed, Leading, Groups
<1>6. Fading'
  BY <1>1 DEF Fading, Ahead, Behind, Goal
<1>7. QED
  BY <1>3, <1>4, <1>5, <1>6

LEMMA SweepKeeps ==
  ASSUME DInv, Sweep
  PROVE  DInv'
<1> USE DEF DInv, Kept
<1>1. /\ due = {} /\ due' = {} /\ flushed' = {} /\ timers' = timers \ flushed
      /\ UNCHANGED <<id, lock, opacity, dom, wanted>>
      /\ ~marking' /\ interval' = (timers' # {})
  BY DEF Sweep
<1>2. Kinds'
  <2>1. id' \in 0..MaxId /\ timers' \subseteq Timer
    BY <1>1 DEF Kinds
  <2>2. marking' \in BOOLEAN /\ interval' \in BOOLEAN
    BY DEF Sweep
  <2>3. QED
    BY <2>1, <2>2 DEF Kinds
<1>3. Frames'
  BY <1>1 DEF Frames
<1>4. OneEach' /\ Locks' /\ Leading' /\ Groups'
  BY <1>1 DEF OneEach, Locks, Leading, Groups
<1>5. Listed'
  <2>1. timers' \ flushed' = timers \ flushed
    BY <1>1
  <2>2. QED
    BY <1>1, <2>1 DEF Listed
<1>6. Fading'
  BY <1>1 DEF Fading, Ahead, Behind, Goal
<1>7. QED
  BY <1>2, <1>3, <1>4, <1>5, <1>6

LEMMA FrameKeeps ==
  ASSUME DInv, FrameStep
  PROVE  DInv'
BY MarkKeeps, SweepKeeps, InterruptKeeps, TickKeeps, EndKeeps DEF FrameStep

(* A page without drawings. *)
LEMMA BlankHolds == TransitionInit => DInv
<1> SUFFICES ASSUME TransitionInit PROVE DInv
  OBVIOUS
<1> USE DEF TransitionInit
<1>1. Kinds
  <2>1. id \in 0..MaxId /\ timers \subseteq Timer
    BY MaxIdAssumption
  <2>2. marking \in BOOLEAN /\ interval \in BOOLEAN
    OBVIOUS
  <2>3. QED
    BY <2>1, <2>2 DEF Kinds
<1>2. Frames /\ OneEach /\ Leading /\ Fading
  BY DEF Frames, OneEach, Leading, Fading
<1>3. Groups
  BY DEF Groups, Targets
<1>4. DOMAIN <<>> = {}
  OBVIOUS
<1>5. \A n \in Nodes : lock[n].active = 0 /\ lock[n].count = 0 /\ DOMAIN lock[n].by = {}
  BY <1>4 DEF NoLock
<1>6. Locks
  BY <1>5, FS_EmptySet DEF Locks
<1>7. Listed
  BY <1>5 DEF Listed
<1>8. QED
  BY <1>1, <1>2, <1>3, <1>6, <1>7 DEF DInv, Kept

LEMMA ResetBlanks == TransitionReset => DInv'
<1>1. TransitionReset => TransitionInit'
  BY DEF TransitionReset, TransitionInit
<1>2. QED
  BY <1>1, BlankHolds, PTL

(***************************************************************************)
(* Series and points                                                       *)
(***************************************************************************)

(* A timeout that waits is the last drawing's. *)
Points ==
  /\ disabled \subseteq Nodes
  /\ SomeSeriesShown
  /\ needsUpdate \in BOOLEAN
  /\ pending \subseteq {Nodes \ disabled}
  /\ layer \subseteq Nodes
  /\ LayerFresh

(* A position among some of the series is one of a series.                 *)
LEMMA PositionIsANode ==
  ASSUME NEW shown \in SUBSET Nodes, NEW i \in shown
  PROVE  Position(i, shown) \in Nodes
<1>1. PICK c : c = {j \in shown : j <= i}
  OBVIOUS
<1>2. /\ IsFiniteSet(Nodes) /\ Nodes = 1..Cardinality(Nodes)
      /\ Cardinality(Nodes) \in Nat
  BY NodesAssumption, FS_CardinalityType
<1>3. c \subseteq Nodes /\ i \in c
  BY <1>1, <1>2
<1>4. IsFiniteSet(c) /\ Cardinality(c) <= Cardinality(Nodes) /\ Cardinality(c) \in Nat
  BY <1>2, <1>3, FS_Subset, FS_CardinalityType
<1>5. Cardinality(c) # 0
  BY <1>3, <1>4, FS_EmptySet
<1>6. Cardinality(c) \in 1..Cardinality(Nodes)
  BY <1>2, <1>4, <1>5
<1>7. QED
  BY <1>1, <1>2, <1>6 DEF Position

(* A click on a series leaves some of them.                                *)
LEMMA ClicksLeaveSome ==
  ASSUME disabled \subseteq Nodes, SomeSeriesShown, NEW i \in Nodes
  PROVE  /\ Toggled(i) \in SUBSET Nodes /\ Toggled(i) # Nodes
         /\ Isolated(i) \in SUBSET Nodes /\ Isolated(i) # Nodes
         /\ Nodes \ {i} # Nodes
<1>1. Nodes # {}
  OBVIOUS
<1>2. Nodes \ {i} \in SUBSET Nodes /\ Nodes \ {i} # Nodes
  OBVIOUS
<1>3. Isolated(i) \in SUBSET Nodes /\ Isolated(i) # Nodes
  BY <1>1, <1>2 DEF Isolated
<1>4. Toggled(i) \in SUBSET Nodes /\ Toggled(i) # Nodes
  BY <1>1 DEF Toggled, SomeSeriesShown
<1>5. QED
  BY <1>2, <1>3, <1>4

Drawn == \E off \in SUBSET Nodes : off # Nodes /\ Draw(off)

(* What the events of a chart do. *)
LEMMA EventsDraw ==
  ASSUME Points, ChartEvent
  PROVE  Drawn
<1>1. disabled \subseteq Nodes /\ SomeSeriesShown /\ layer \subseteq Nodes
  BY DEF Points
<1>2. CASE \E i \in Nodes : LegendClick(i)
  BY <1>1, <1>2, ClicksLeaveSome DEF LegendClick, Drawn
<1>3. CASE \E i \in Nodes : LegendDblclick(i)
  <2>1. PICK i \in Nodes : Draw(Nodes \ {i})
    BY <1>3 DEF LegendDblclick
  <2>2. Nodes \ {i} \in SUBSET Nodes /\ Nodes \ {i} # Nodes
    OBVIOUS
  <2>3. QED
    BY <2>1, <2>2 DEF Drawn
<1>4. CASE \E i \in Nodes : AreaClick(i)
  BY <1>1, <1>4, ClicksLeaveSome DEF AreaClick, Drawn
<1>5. CASE \E i \in Nodes : PointClick(i)
  <2>1. PICK i \in layer : Draw(Isolated(Position(i, layer)))
    BY <1>5 DEF PointClick
  <2>2. PICK p \in Nodes : p = Position(i, layer)
    BY <1>1, PositionIsANode
  <2>3. QED
    BY <1>1, <2>1, <2>2, ClicksLeaveSome DEF Drawn
<1>6. CASE Redraw
  BY <1>1, <1>6 DEF Redraw, Drawn, SomeSeriesShown
<1>7. QED
  BY <1>2, <1>3, <1>4, <1>5, <1>6 DEF ChartEvent

(* A chart is left alone, gone, drawn, given its points, or in a frame.    *)
ChartMoves ==
  \/ UNCHANGED chartVars
  \/ ChartReset
  \/ Drawn
  \/ ChartTimeout
  \/ ChartFrame

LEMMA PageMovesChart ==
  ASSUME Points, [Next]_vars
  PROVE  ChartMoves
<1> USE DEF ChartMoves
<1>1. CASE RunMoves
  BY <1>1 DEF RunMoves
<1>2. CASE Show
  BY <1>2 DEF Show
<1>3. CASE Reload
  BY <1>3 DEF Reload, Leave
<1>4. CASE CountDown
  BY <1>4 DEF CountDown, Leave
<1>5. CASE Generate
  <2>1. {} \in SUBSET Nodes /\ {} # Nodes
    BY NodesAssumption
  <2>2. Draw({}) \/ UNCHANGED chartVars
    BY <1>5 DEF Generate
  <2>3. QED
    BY <2>1, <2>2 DEF Drawn
<1>6. CASE Resize
  <2>1. Redraw \/ UNCHANGED chartVars
    BY <1>6 DEF Resize
  <2>2. QED
    BY <2>1, EventsDraw DEF ChartEvent
<1>7. CASE ChartStep
  BY <1>7, EventsDraw DEF ChartStep
<1>8. CASE UNCHANGED vars
  BY <1>8 DEF vars
<1>9. QED
  BY <1>1, <1>2, <1>3, <1>4, <1>5, <1>6, <1>7, <1>8 DEF Next

LEMMA ChartKeeps ==
  ASSUME DInv, Points, ChartMoves
  PROVE  DInv' /\ Points'
<1>1. CASE UNCHANGED chartVars
  <2>1. UNCHANGED transitionVars /\ UNCHANGED <<disabled, needsUpdate, pending, layer>>
    BY <1>1 DEF chartVars
  <2>2. UNCHANGED <<id, timers, due, flushed, marking, interval, lock, opacity, dom, wanted>>
    BY <2>1 DEF transitionVars, timerVars
  <2>3. DInv'
    BY <2>2 DEF DInv, Kept, Kinds, Frames, OneEach, Locks, Listed, Leading, Groups,
                Fading, Ahead, Behind, Goal
  <2>4. Points'
    BY <2>1, <2>2 DEF Points, SomeSeriesShown, LayerFresh, HasDrawing
  <2>5. QED
    BY <2>3, <2>4
<1>2. CASE ChartReset
  <2>1. DInv'
    BY <1>2, ResetBlanks DEF ChartReset
  <2>2. id' = 0
    BY <1>2 DEF ChartReset, TransitionReset
  <2>3. Points'
    BY <1>2, <2>2, NodesAssumption
    DEF ChartReset, Points, SomeSeriesShown, LayerFresh, HasDrawing
  <2>4. QED
    BY <2>1, <2>3
<1>3. CASE Drawn
  <2>1. PICK off \in SUBSET Nodes : off # Nodes /\ Draw(off)
    BY <1>3 DEF Drawn
  <2>2. PICK s \in SUBSET Nodes : s = Nodes \ off
    OBVIOUS
  <2>3. DInv'
    BY <2>1, <2>2, JoinKeeps DEF Draw
  <2>4. Points'
    BY <2>1 DEF Points, Draw, SomeSeriesShown, LayerFresh
  <2>5. QED
    BY <2>3, <2>4
<1>4. CASE ChartTimeout
  <2>1. PICK shown \in pending : UpdateInteractiveLayer(shown)
    BY <1>4 DEF ChartTimeout
  <2>2. UNCHANGED <<id, timers, due, flushed, marking, interval, lock, opacity, dom, wanted>>
    BY <2>1 DEF UpdateInteractiveLayer, transitionVars, timerVars
  <2>3. DInv'
    BY <2>2 DEF DInv, Kept, Kinds, Frames, OneEach, Locks, Listed, Leading, Groups,
                Fading, Ahead, Behind, Goal
  <2>4. /\ shown = Nodes \ disabled /\ disabled' = disabled
        /\ layer' = shown /\ pending' = {}
    BY <2>1 DEF Points, UpdateInteractiveLayer
  <2>5. needsUpdate' \in BOOLEAN
    BY <2>1 DEF UpdateInteractiveLayer
  <2>6. Points'
    BY <2>4, <2>5 DEF Points, SomeSeriesShown, LayerFresh
  <2>7. QED
    BY <2>3, <2>6
<1>5. CASE ChartFrame
  <2>1. DInv'
    BY <1>5, FrameKeeps DEF ChartFrame
  <2>2. id' = id
    BY <1>5 DEF ChartFrame, FrameStep, Mark, Interrupt, Tick, End, Sweep
  <2>3. UNCHANGED <<disabled, needsUpdate, pending, layer>>
    BY <1>5 DEF ChartFrame
  <2>4. Points'
    BY <2>2, <2>3 DEF Points, SomeSeriesShown, LayerFresh, HasDrawing
  <2>5. QED
    BY <2>1, <2>4
<1>6. QED
  BY <1>1, <1>2, <1>3, <1>4, <1>5 DEF ChartMoves

(***************************************************************************)
(* The page and its charts                                                 *)
(***************************************************************************)

Shapes ==
  /\ row \in [{Run} -> Machine!RowStates]
  /\ page \in Machine!RowStates \cup {"results", "loading"}
  /\ qos \in BOOLEAN
  /\ seconds \in 0..CountFrom
  /\ onresize \in Seq(STRING)
  /\ queue \in Seq(STRING)

(* A page of results has bound its charts in order, up to those it still   *)
(* has to draw; no other page has charts.                                  *)
Divided ==
  IF page = "results"
  THEN /\ Len(onresize) + Len(queue) = Len(Graphs)
       /\ \A i \in 1..Len(onresize) : onresize[i] = Graphs[i]
       /\ \A i \in 1..Len(queue) : queue[i] = Graphs[Len(onresize) + i]
  ELSE onresize = <<>> /\ queue = <<>>

(* What is bound fits, or is behind a chart without a div. *)
Fits ==
  /\ \A i \in 1..Len(onresize) :
       onresize[i] \in fitting \/ \E j \in 1..i : ~Present(onresize[j])
  /\ \A graph \in fitting : \E i \in 1..Len(onresize) : onresize[i] = graph

PInv == Shapes /\ Divided /\ Fits

LEMMA StatesOfTheMachine ==
  /\ \A state \in [{Run} -> Machine!RowStates] :
       Shown(state[Run]) \in Machine!RowStates \cup {"results"}
  /\ row \in [{Run} -> Machine!RowStates] /\ Machine!Next
       => row' \in [{Run} -> Machine!RowStates]
<1>1. \A state \in [{Run} -> Machine!RowStates] :
        Shown(state[Run]) \in Machine!RowStates \cup {"results"}
  BY DEF Shown
<1>2. ASSUME row \in [{Run} -> Machine!RowStates], NEW t \in {Run}, Machine!Create(t)
      PROVE  row' \in [{Run} -> Machine!RowStates]
  BY <1>2 DEF Machine!Create, Machine!RowStates, Machine!States
<1>3. ASSUME row \in [{Run} -> Machine!RowStates], NEW t \in {Run},
             NEW event \in Machine!Events, Machine!Fire(t, event)
      PROVE  row' \in [{Run} -> Machine!RowStates]
  <2>1. Machine!Transitions[event].to \in Machine!RowStates
    BY SMTT(30) DEF Machine!Events, Machine!Transitions, Machine!RowStates, Machine!States
  <2>2. QED
    BY <1>3, <2>1 DEF Machine!Fire
<1>4. ASSUME row \in [{Run} -> Machine!RowStates], NEW t \in {Run}, Machine!Destroy(t)
      PROVE  row' \in [{Run} -> Machine!RowStates]
  BY <1>4 DEF Machine!Destroy, Machine!RowStates
<1>5. QED
  BY <1>1, <1>2, <1>3, <1>4 DEF Machine!Next

(* The first chart of the queue is bound. *)
LEMMA GenerateKeeps ==
  ASSUME PInv, Generate
  PROVE  PInv'
<1>1. /\ onresize \in Seq(STRING) /\ queue \in Seq(STRING)
      /\ Len(onresize) \in Nat /\ Len(queue) \in Nat
      /\ queue # <<>>
  BY DEF PInv, Shapes, Generate
<1>2. PICK graph : graph = Head(queue)
  OBVIOUS
<1>3. PICK rest : rest = Tail(queue)
  OBVIOUS
<1>4. /\ graph \in STRING /\ graph = queue[1] /\ 1 \in 1..Len(queue)
      /\ rest \in Seq(STRING) /\ Len(rest) = Len(queue) - 1
      /\ \A i \in 1..Len(rest) : rest[i] = queue[i + 1] /\ i + 1 \in 1..Len(queue)
  BY <1>1, <1>2, <1>3, HeadTailProperties, LenProperties
<1>5. PICK bound : bound = Append(onresize, graph)
  OBVIOUS
<1>6. /\ bound \in Seq(STRING) /\ Len(bound) = Len(onresize) + 1
      /\ \A i \in 1..Len(onresize) : bound[i] = onresize[i]
      /\ bound[Len(onresize) + 1] = graph
  BY <1>1, <1>4, <1>5, AppendProperties
<1>7. /\ queue' = rest /\ onresize' = bound
      /\ fitting' = IF Present(graph) THEN fitting \cup {graph} ELSE fitting
      /\ UNCHANGED <<row, page, qos, seconds>>
  BY <1>2, <1>3, <1>5 DEF Generate, Bound
<1>8. Shapes'
  BY <1>4, <1>6, <1>7 DEF PInv, Shapes
<1>9. page = "results"
  BY <1>1 DEF PInv, Divided
<1>10. Divided'
  <2>1. /\ Len(onresize) + Len(queue) = Len(Graphs)
        /\ \A i \in 1..Len(onresize) : onresize[i] = Graphs[i]
        /\ \A i \in 1..Len(queue) : queue[i] = Graphs[Len(onresize) + i]
    BY <1>9 DEF PInv, Divided
  <2>2. Len(bound) + Len(rest) = Len(Graphs)
    <3>1. PICK a \in Nat, b \in Nat : a = Len(onresize) /\ b = Len(queue)
      BY <1>1
    <3>2. Len(bound) = a + 1 /\ Len(rest) = b - 1 /\ a + b = Len(Graphs)
      BY <1>4, <1>6, <2>1, <3>1
    <3>3. (a + 1) + (b - 1) = a + b
      OBVIOUS
    <3>4. QED
      BY <3>2, <3>3
  <2>3. ASSUME NEW i \in 1..Len(bound)
        PROVE  bound[i] = Graphs[i]
    <3>1. CASE i \in 1..Len(onresize)
      BY <1>6, <2>1, <3>1
    <3>2. CASE i = Len(onresize) + 1
      <4>1. queue[1] = Graphs[Len(onresize) + 1]
        BY <1>4, <2>1
      <4>2. QED
        BY <1>4, <1>6, <3>2, <4>1
    <3>3. QED
      BY <1>1, <1>6, <3>1, <3>2
  <2>4. ASSUME NEW i \in 1..Len(rest)
        PROVE  rest[i] = Graphs[Len(bound) + i]
    <3>1. rest[i] = Graphs[Len(onresize) + (i + 1)]
      BY <1>4, <2>1
    <3>2. Len(onresize) + (i + 1) = Len(bound) + i
      BY <1>1, <1>6
    <3>3. QED
      BY <3>1, <3>2
  <2>5. QED
    BY <1>7, <1>9, <2>2, <2>3, <2>4 DEF Divided
<1>11. Fits'
  <2>1. /\ \A i \in 1..Len(onresize) :
             onresize[i] \in fitting \/ \E j \in 1..i : ~Present(onresize[j])
        /\ \A g \in fitting : \E i \in 1..Len(onresize) : onresize[i] = g
    BY DEF PInv, Fits
  <2>2. \A g : Present(g)' = Present(g)
    BY <1>7 DEF Present
  <2>3. ASSUME NEW i \in 1..Len(bound)
        PROVE  bound[i] \in fitting' \/ \E j \in 1..i : ~Present(bound[j])
    <3>1. CASE i \in 1..Len(onresize)
      <4>1. \A j \in 1..i : j \in 1..Len(onresize) /\ bound[j] = onresize[j]
        BY <1>1, <1>6, <3>1
      <4>2. bound[i] = onresize[i] /\ fitting \subseteq fitting'
        BY <1>6, <1>7, <3>1
      <4>3. QED
        BY <2>1, <3>1, <4>1, <4>2
    <3>2. CASE i = Len(onresize) + 1
      <4>1. bound[i] = graph /\ i \in 1..i
        BY <1>1, <1>6, <3>2
      <4>2. QED
        BY <1>7, <4>1
    <3>3. QED
      BY <1>1, <1>6, <3>1, <3>2
  <2>4. ASSUME NEW g \in fitting'
        PROVE  \E i \in 1..Len(bound) : bound[i] = g
    <3>1. CASE g = graph
      BY <1>1, <1>6, <3>1
    <3>2. CASE g \in fitting
      BY <1>1, <1>6, <2>1, <3>2
    <3>3. QED
      BY <1>7, <3>1, <3>2
  <2>5. QED
    BY <1>7, <2>2, <2>3, <2>4 DEF Fits
<1>12. QED
  BY <1>8, <1>10, <1>11 DEF PInv

(* The window calls what is bound, up to a chart without a div.            *)
LEMMA ResizeKeeps ==
  ASSUME PInv, Resize
  PROVE  PInv'
<1>1. /\ UNCHANGED <<row, page, qos, seconds, queue, onresize>>
      /\ fitting' = {onresize[i] : i \in {j \in DOMAIN onresize : Reached(j)}}
  BY DEF Resize
<1>2. DOMAIN onresize = 1..Len(onresize) /\ Len(onresize) \in Nat
  BY DEF PInv, Shapes
<1>3. Shapes' /\ Divided'
  BY <1>1 DEF PInv, Shapes, Divided
<1>4. Fits'
  <2>1. ASSUME NEW i \in 1..Len(onresize)
        PROVE  onresize[i] \in fitting' \/ \E j \in 1..i : ~Present(onresize[j])
    <3>1. CASE Reached(i)
      BY <1>1, <1>2, <3>1
    <3>2. CASE ~Reached(i)
      BY <3>2 DEF Reached
    <3>3. QED
      BY <3>1, <3>2
  <2>2. \A graph \in fitting' : \E i \in 1..Len(onresize) : onresize[i] = graph
    BY <1>1, <1>2
  <2>3. \A graph : Present(graph)' = Present(graph)
    BY <1>1 DEF Present
  <2>4. QED
    BY <1>1, <2>1, <2>2, <2>3 DEF Fits
<1>5. QED
  BY <1>3, <1>4 DEF PInv

(* A page is left, and nothing is kept of it. *)
LEMMA LeaveKeeps ==
  ASSUME PInv, Leave
  PROVE  PInv'
<1>1. /\ page' = "loading" /\ seconds' = 0 /\ queue' = <<>> /\ onresize' = <<>>
      /\ fitting' = {} /\ UNCHANGED <<row, qos>>
  BY DEF Leave
<1>2. <<>> \in Seq(STRING) /\ Len(<<>>) = 0
  BY EmptySeq
<1>3. Shapes'
  <2>1. row' \in [{Run} -> Machine!RowStates] /\ qos' \in BOOLEAN
    BY <1>1 DEF PInv, Shapes
  <2>2. page' \in Machine!RowStates \cup {"results", "loading"} /\ seconds' \in 0..CountFrom
    BY <1>1, CountFromAssumption
  <2>3. QED
    BY <1>1, <1>2, <2>1, <2>2 DEF Shapes
<1>4. Divided'
  BY <1>1 DEF Divided
<1>5. Fits'
  BY <1>1, <1>2 DEF Fits
<1>6. QED
  BY <1>3, <1>4, <1>5 DEF PInv

LEMMA ShowKeeps ==
  ASSUME PInv, Show
  PROVE  PInv'
<1>1. /\ page = "loading" /\ page' = Shown(row[Run])
      /\ seconds' = IF page' \in Live THEN CountFrom ELSE 0
      /\ queue' = IF page' = "results" THEN Graphs ELSE <<>>
      /\ UNCHANGED <<row, qos, onresize, fitting>>
  BY DEF Show
<1>2. onresize = <<>>
  BY <1>1 DEF PInv, Divided
<1>3. <<>> \in Seq(STRING) /\ Len(<<>>) = 0 /\ Graphs \in Seq(STRING) /\ Len(Graphs) \in Nat
  BY EmptySeq, GraphsAssumption, LenProperties
<1>4. Shapes'
  <2>1. row' \in [{Run} -> Machine!RowStates] /\ qos' \in BOOLEAN
    BY <1>1 DEF PInv, Shapes
  <2>2. page' \in Machine!RowStates \cup {"results", "loading"}
    BY <1>1, StatesOfTheMachine DEF PInv, Shapes
  <2>3. seconds' \in 0..CountFrom
    BY <1>1, CountFromAssumption
  <2>4. queue' \in Seq(STRING) /\ onresize' \in Seq(STRING)
    BY <1>1, <1>2, <1>3
  <2>5. QED
    BY <2>1, <2>2, <2>3, <2>4 DEF Shapes
<1>5. Divided'
  <2>1. CASE page' = "results"
    <3>1. queue' = Graphs /\ onresize' = <<>>
      BY <1>1, <1>2, <2>1
    <3>2. QED
      BY <1>3, <2>1, <3>1 DEF Divided
  <2>2. CASE page' # "results"
    BY <1>1, <1>2, <2>2 DEF Divided
  <2>3. QED
    BY <2>1, <2>2
<1>6. Fits'
  BY <1>1 DEF PInv, Fits, Present
<1>7. QED
  BY <1>4, <1>5, <1>6 DEF PInv

LEMMA CountDownKeeps ==
  ASSUME PInv, CountDown
  PROVE  PInv'
<1>1. PICK left \in 0..seconds - 1 :
        IF left = 0 THEN Leave
        ELSE /\ seconds' = left
             /\ UNCHANGED <<chartVars, row, page, qos, queue, onresize, fitting>>
  BY DEF CountDown
<1>2. CASE left = 0
  BY <1>1, <1>2, LeaveKeeps
<1>3. CASE left # 0
  <2>1. seconds' = left /\ UNCHANGED <<row, page, qos, queue, onresize, fitting>>
    BY <1>1, <1>3
  <2>2. seconds' \in 0..CountFrom
    BY <1>1, <2>1, CountFromAssumption DEF PInv, Shapes
  <2>3. QED
    BY <2>1, <2>2 DEF PInv, Shapes, Divided, Fits, Present
<1>4. QED
  BY <1>2, <1>3

LEMMA PageKeeps ==
  ASSUME PInv, [Next]_vars
  PROVE  PInv'
<1>1. CASE RunMoves
  <2>1. UNCHANGED <<page, qos, seconds, queue, onresize, fitting>> /\ Machine!Next
    BY <1>1 DEF RunMoves, pageVars
  <2>2. row' \in [{Run} -> Machine!RowStates]
    BY <2>1, StatesOfTheMachine DEF PInv, Shapes
  <2>3. QED
    BY <2>1, <2>2 DEF PInv, Shapes, Divided, Fits, Present
<1>2. CASE Show
  BY <1>2, ShowKeeps
<1>3. CASE Reload
  BY <1>3, LeaveKeeps DEF Reload
<1>4. CASE CountDown
  BY <1>4, CountDownKeeps
<1>5. CASE Generate
  BY <1>5, GenerateKeeps
<1>6. CASE Resize
  BY <1>6, ResizeKeeps
<1>7. CASE ChartStep \/ UNCHANGED vars
  <2>1. UNCHANGED <<row, page, qos, seconds, queue, onresize, fitting>>
    BY <1>7 DEF ChartStep, vars, pageVars
  <2>2. QED
    BY <2>1 DEF PInv, Shapes, Divided, Fits, Present
<1>8. QED
  BY <1>1, <1>2, <1>3, <1>4, <1>5, <1>6, <1>7 DEF Next

(***************************************************************************)
(* The theorems                                                            *)
(***************************************************************************)

IInv == DInv /\ Points /\ PInv

LEMMA InitHolds == Init => IInv
<1> SUFFICES ASSUME Init PROVE IInv
  OBVIOUS
<1>1. /\ TransitionInit /\ disabled = {} /\ needsUpdate = FALSE /\ pending = {} /\ layer = {}
      /\ row \in [{Run} -> Machine!States] /\ page = "loading" /\ qos \in BOOLEAN
      /\ seconds = 0 /\ queue = <<>> /\ onresize = <<>> /\ fitting = {}
  BY DEF Init, ChartInit
<1>2. DInv
  BY <1>1, BlankHolds
<1>3. Points
  <2>1. id = 0
    BY <1>1 DEF TransitionInit
  <2>2. needsUpdate \in BOOLEAN
    BY <1>1
  <2>3. QED
    BY <1>1, <2>1, <2>2, NodesAssumption DEF Points, SomeSeriesShown, LayerFresh, HasDrawing
<1>4. PInv
  <2>1. <<>> \in Seq(STRING) /\ Len(<<>>) = 0
    BY EmptySeq
  <2>2. row \in [{Run} -> Machine!RowStates]
    BY <1>1 DEF Machine!RowStates
  <2>3. page \in Machine!RowStates \cup {"results", "loading"} /\ seconds \in 0..CountFrom
    BY <1>1, CountFromAssumption
  <2>4. Shapes
    BY <1>1, <2>1, <2>2, <2>3 DEF Shapes
  <2>5. Divided /\ Fits
    BY <1>1, <2>1 DEF Divided, Fits
  <2>6. QED
    BY <2>4, <2>5 DEF PInv
<1>5. QED
  BY <1>2, <1>3, <1>4 DEF IInv

LEMMA Invariance == Spec => []IInv
<1>1. ASSUME IInv, [Next]_vars
      PROVE  IInv'
  BY <1>1, PageMovesChart, ChartKeeps, PageKeeps DEF IInv
<1>2. QED
  BY <1>1, InitHolds, PTL DEF Spec

(* No click leaves an empty chart, for any number of series: the position  *)
(* of a point is always one of a series (nv.d3.js, 12811-12860).           *)
THEOREM SomeAreShown == Spec => []SomeSeriesShown
<1>1. IInv => SomeSeriesShown
  BY DEF IInv, Points
<1>2. QED
  BY <1>1, Invariance, PTL

(* The points that answer are those of the last drawing, whatever the      *)
(* timeouts of older ones (nv.d3.js, 10113 and 10210-10296).               *)
THEOREM PointsAreFresh == Spec => []LayerFresh
<1>1. IInv => LayerFresh
  BY DEF IInv, Points
<1>2. QED
  BY <1>1, Invariance, PTL

(* The queue of timers, the locks of the nodes and the frame loop agree,   *)
(* for any number of overlapping drawings (d3.v3.js, 1908-1970 and         *)
(* 7699-7747).                                                             *)
THEOREM TimersAreKept == Spec => []TimersKept
<1>1. IInv => TimersKept
  BY DEF IInv, DInv, Kept, Frames, Locks, Listed, TimersKept
<1>2. QED
  BY <1>1, Invariance, PTL

(* When the transitions are over, the groups of the last drawing are       *)
(* opaque, and any other that is left is transparent (d3.v3.js,            *)
(* 7699-7747, and nv.d3.js, 10338-10368).                                  *)
THEOREM GroupsHaveFaded == Spec => []Faded
<1>1. ASSUME IInv, timers = {}, NEW n \in dom
      PROVE  opacity[n] = IF n \in wanted THEN "in" ELSE "out"
  <2>1. n \in Nodes /\ id \in 0..MaxId /\ (Ahead(n) \/ Behind(n))
    BY <1>1 DEF IInv, DInv, Kept, Kinds, Groups, Fading
  <2>2. DOMAIN lock[n].by \subseteq 1..id
    BY <1>1, <2>1 DEF IInv, DInv, Kept, Locks
  <2>3. ~Ahead(n)
    <3> SUFFICES ASSUME id \in DOMAIN lock[n].by
                 PROVE  FALSE
      BY DEF Ahead
    <3>1. id \in 1..MaxId
      BY <2>1, <2>2, MaxIdAssumption
    <3>2. QED
      BY <1>1, <2>1, <3>1 DEF IInv, DInv, Kept, Listed
  <2>4. QED
    BY <2>1, <2>3 DEF Behind, Goal
<1>2. IInv => Faded
  BY <1>1 DEF Faded, IInv, DInv, Groups
<1>3. QED
  BY <1>2, Invariance, PTL

(* Every chart that was drawn fits the window, but those behind a chart    *)
(* without a div, for any charts (nv.d3.js, 284-291, and show.html.haml,   *)
(* 133-142 and 203-207).                                                   *)
THEOREM ChartsFollow == Spec => []ChartsFit
<1>1. ASSUME IInv, page = "results", NEW i \in 1..Len(Graphs) - Len(queue)
      PROVE  Graphs[i] \in fitting \/ \E j \in 1..i : ~Present(Graphs[j])
  <2>1. /\ Len(onresize) \in Nat /\ Len(queue) \in Nat
        /\ Len(onresize) + Len(queue) = Len(Graphs)
        /\ \A k \in 1..Len(onresize) : onresize[k] = Graphs[k]
    BY <1>1 DEF IInv, PInv, Shapes, Divided
  <2>2. i \in 1..Len(onresize) /\ \A j \in 1..i : j \in 1..Len(onresize)
    BY <2>1
  <2>3. QED
    BY <1>1, <2>1, <2>2 DEF IInv, PInv, Fits
<1>2. IInv => ChartsFit
  BY <1>1 DEF ChartsFit
<1>3. QED
  BY <1>2, Invariance, PTL

(* The variables keep their types, and on a page of results every chart is *)
(* bound or still to be drawn, in the order asked for.                     *)
THEOREM TypeCorrect == Spec => []TypeOK
<1>1. IInv => ChartTypeOK
  <2> SUFFICES ASSUME IInv PROVE ChartTypeOK
    OBVIOUS
  <2>1. id \in 0..MaxId /\ Kinds /\ Frames /\ Locks /\ Groups
    BY DEF IInv, DInv, Kept, Kinds
  <2>2. ASSUME NEW n \in Nodes
        PROVE  /\ lock[n].active \in 0..MaxId
               /\ lock[n].count \in Nat
               /\ DOMAIN lock[n].by \subseteq 1..MaxId
               /\ \A k \in DOMAIN lock[n].by : lock[n].by[k] \in Targets
    <3>1. IsFiniteSet(DOMAIN lock[n].by)
      BY FewTransitions DEF IInv, DInv
    <3>2. lock[n].count \in Nat
      BY <2>1, <3>1, FS_CardinalityType DEF Locks
    <3>3. QED
      BY <2>1, <3>2, MaxIdAssumption DEF Locks
  <2>3. TransitionTypeOK
    BY <2>1, <2>2 DEF TransitionTypeOK, Kinds, Frames, Groups
  <2>4. QED
    BY <2>3 DEF ChartTypeOK, IInv, Points
<1>2. IInv => TypeOK
  <2> SUFFICES ASSUME IInv PROVE TypeOK
    OBVIOUS
  <2>1. /\ row \in [{Run} -> Machine!RowStates]
        /\ page \in Machine!RowStates \cup {"results", "loading"}
        /\ qos \in BOOLEAN
        /\ seconds \in 0..CountFrom
        /\ onresize \in Seq(STRING) /\ queue \in Seq(STRING)
    BY DEF IInv, PInv, Shapes
  <2>2. onresize \o queue \in {<<>>, Graphs}
    <3>1. CASE page = "results"
      <4>1. /\ Len(onresize) + Len(queue) = Len(Graphs)
            /\ \A i \in 1..Len(onresize) : onresize[i] = Graphs[i]
            /\ \A i \in 1..Len(queue) : queue[i] = Graphs[Len(onresize) + i]
        BY <3>1 DEF IInv, PInv, Divided
      <4>2. PICK all : all = onresize \o queue
        OBVIOUS
      <4>3. /\ all \in Seq(STRING) /\ Len(all) = Len(onresize) + Len(queue)
            /\ \A i \in 1..Len(onresize) + Len(queue) :
                 all[i] = IF i <= Len(onresize) THEN onresize[i] ELSE queue[i - Len(onresize)]
        BY <2>1, <4>2, ConcatProperties
      <4>4. Len(onresize) \in Nat /\ Len(queue) \in Nat
        BY <2>1, LenProperties
      <4>5. ASSUME NEW i \in 1..Len(all)
            PROVE  all[i] = Graphs[i]
        <5>1. CASE i <= Len(onresize)
          BY <4>1, <4>3, <4>4, <5>1
        <5>2. CASE ~(i <= Len(onresize))
          <6>1. PICK j : j = i - Len(onresize)
            OBVIOUS
          <6>2. j \in 1..Len(queue) /\ i = Len(onresize) + j
            BY <4>3, <4>4, <5>2, <6>1
          <6>3. all[i] = queue[j]
            BY <4>3, <5>2, <6>1
          <6>4. QED
            BY <4>1, <6>2, <6>3
        <5>3. QED
          BY <5>1, <5>2
      <4>6. all = Graphs
        BY <4>1, <4>3, <4>5, GraphsAssumption, SeqEqual
      <4>7. QED
        BY <4>2, <4>6
    <3>2. CASE page # "results"
      <4>1. onresize = <<>> /\ queue = <<>>
        BY <3>2 DEF IInv, PInv, Divided
      <4>2. QED
        BY <4>1
    <3>3. QED
      BY <3>1, <3>2
  <2>3. fitting \subseteq Range(onresize)
    BY <2>1 DEF IInv, PInv, Fits, Range
  <2>4. QED
    BY <1>1, <2>1, <2>2, <2>3 DEF TypeOK
<1>3. QED
  BY <1>2, Invariance, PTL
=============================================================================
