---------------------- MODULE TestRunLifecycle_proofs ----------------------
(***************************************************************************)
(* Proofs about TestRunLifecycle for every number of runs, jobs, web       *)
(* processes, workers and faults.                                          *)
(***************************************************************************)
EXTENDS TestRunLifecycle, SequenceTheorems, TLAPS

(***************************************************************************)
(* The queue                                                               *)
(***************************************************************************)

NoDuplicates(jobs) == \A i, k \in DOMAIN jobs : jobs[i] = jobs[k] => i = k

(* Taking the first job of a queue without duplicates leaves the others. *)
LEMMA TailRemoves ==
  ASSUME NEW q \in Seq(Jids), q # << >>, NoDuplicates(q)
  PROVE  /\ Tail(q) \in Seq(Jids)
         /\ Head(q) \in Jids
         /\ Head(q) \in Range(q)
         /\ NoDuplicates(Tail(q))
         /\ Range(Tail(q)) = Range(q) \ {Head(q)}
<1>1. /\ Head(q) \in Jids
      /\ Tail(q) \in Seq(Jids)
      /\ Len(Tail(q)) = Len(q) - 1
      /\ \A i \in 1..Len(Tail(q)) : Tail(q)[i] = q[i + 1]
  BY HeadTailProperties
<1>2. Len(q) \in Nat \ {0} /\ Head(q) = q[1]
  BY EmptySeq, LenProperties
<1>3. DOMAIN q = 1..Len(q) /\ DOMAIN Tail(q) = 1..(Len(q) - 1)
  BY <1>1, LenProperties
<1>4. NoDuplicates(Tail(q))
  BY <1>1, <1>2, <1>3 DEF NoDuplicates
<1>5. Range(Tail(q)) \subseteq Range(q) \ {Head(q)}
  BY <1>1, <1>2, <1>3 DEF NoDuplicates, Range
<1>6. ASSUME NEW j \in Range(q) \ {Head(q)}
      PROVE  j \in Range(Tail(q))
  <2>1. PICK i \in 1..Len(q) : q[i] = j
    BY <1>3 DEF Range
  <2>2. i - 1 \in 1..(Len(q) - 1) /\ Tail(q)[i - 1] = q[i]
    BY <1>1, <1>2, <2>1
  <2>3. QED
    BY <1>3, <2>1, <2>2 DEF Range
<1>7. Head(q) \in Range(q)
  BY <1>2, <1>3 DEF Range
<1>8. QED
  BY <1>1, <1>4, <1>5, <1>6, <1>7

(* Appending or returning a job that is not in the queue. *)
LEMMA AppendAdds ==
  ASSUME NEW q \in Seq(Jids), NoDuplicates(q), NEW j \in Jids, j \notin Range(q)
  PROVE  /\ Append(q, j) \in Seq(Jids)
         /\ NoDuplicates(Append(q, j))
         /\ Range(Append(q, j)) = Range(q) \cup {j}
<1>1. /\ Append(q, j) \in Seq(Jids)
      /\ Len(Append(q, j)) = Len(q) + 1
      /\ \A i \in 1..Len(q) : Append(q, j)[i] = q[i]
      /\ Append(q, j)[Len(q) + 1] = j
  BY AppendProperties
<1>2. /\ Len(q) \in Nat
      /\ DOMAIN q = 1..Len(q)
      /\ DOMAIN Append(q, j) = 1..(Len(q) + 1)
  BY <1>1, LenProperties
<1>3. Range(Append(q, j)) = Range(q) \cup {j}
  <2>1. Range(Append(q, j)) \subseteq Range(q) \cup {j}
    BY <1>1, <1>2 DEF Range
  <2>2. j \in Range(Append(q, j))
    BY <1>1, <1>2 DEF Range
  <2>3. Range(q) \subseteq Range(Append(q, j))
    BY <1>1, <1>2 DEF Range
  <2>4. QED
    BY <2>1, <2>2, <2>3
<1>4. NoDuplicates(Append(q, j))
  BY <1>1, <1>2 DEF NoDuplicates, Range
<1>5. QED
  BY <1>1, <1>3, <1>4

(* Returning a job to the front adds it to the queue and nothing else.     *)
LEMMA ReturnAdds ==
  ASSUME NEW q \in Seq(Jids), NoDuplicates(q), NEW j \in Jids, j \notin Range(q)
  PROVE  /\ <<j>> \o q \in Seq(Jids)
         /\ NoDuplicates(<<j>> \o q)
         /\ Range(<<j>> \o q) = Range(q) \cup {j}
<1> DEFINE r == <<j>> \o q
<1>1. /\ r \in Seq(Jids)
      /\ Len(r) = Len(q) + 1
      /\ r[1] = j
      /\ \A i \in 2..(Len(q) + 1) : r[i] = q[i - 1]
  <2>1. <<j>> \in Seq(Jids) /\ Len(<<j>>) = 1 /\ <<j>>[1] = j
    OBVIOUS
  <2>2. Len(q) \in Nat
    BY LenProperties
  <2>3. /\ r \in Seq(Jids)
        /\ Len(r) = 1 + Len(q)
        /\ \A i \in 1..(1 + Len(q)) : r[i] = IF i <= 1 THEN <<j>>[i] ELSE q[i - 1]
    BY <2>1, ConcatProperties
  <2>4. QED
    BY <2>1, <2>2, <2>3
<1>2. /\ Len(q) \in Nat
      /\ DOMAIN q = 1..Len(q)
      /\ DOMAIN r = 1..(Len(q) + 1)
  BY <1>1, LenProperties
<1> HIDE DEF r
<1>3. Range(r) \subseteq Range(q) \cup {j}
  BY <1>1, <1>2 DEF Range
<1>4. j \in Range(r)
  BY <1>1, <1>2 DEF Range
<1>5. ASSUME NEW k \in Range(q) PROVE k \in Range(r)
  <2>1. PICK i \in 1..Len(q) : q[i] = k
    BY <1>2 DEF Range
  <2>2. i + 1 \in 2..(Len(q) + 1) /\ r[i + 1] = k
    BY <1>1, <1>2, <2>1
  <2>3. QED
    BY <1>2, <2>2 DEF Range
<1>6. NoDuplicates(r)
  <2>1. SUFFICES ASSUME NEW i \in 1..(Len(q) + 1), NEW k \in 1..(Len(q) + 1),
                        r[i] = r[k]
                 PROVE  i = k
    BY <1>2 DEF NoDuplicates
  <2>2. \A n \in 2..(Len(q) + 1) : n - 1 \in DOMAIN q /\ r[n] # j
    BY <1>1, <1>2 DEF Range
  <2>3. CASE i = 1 \/ k = 1
    BY <1>1, <1>2, <2>1, <2>2, <2>3
  <2>4. CASE i # 1 /\ k # 1
    <3>1. i \in 2..(Len(q) + 1) /\ k \in 2..(Len(q) + 1)
      BY <1>2, <2>4
    <3>2. q[i - 1] = q[k - 1]
      BY <1>1, <2>1, <3>1
    <3>3. i - 1 = k - 1
      BY <2>2, <3>1, <3>2 DEF NoDuplicates
    <3>4. QED
      BY <3>3
  <2>5. QED
    BY <2>3, <2>4
<1>7. QED
  BY <1>1, <1>3, <1>4, <1>5, <1>6 DEF r

(* Deleting a job takes it out of the queue and nothing else. *)
LEMMA WithoutRemoves ==
  ASSUME NEW q \in Seq(Jids), NoDuplicates(q), NEW j
  PROVE  /\ Without(q, j) \in Seq(Jids)
         /\ NoDuplicates(Without(q, j))
         /\ Range(Without(q, j)) = Range(q) \ {j}
<1>1. Len(q) \in Nat /\ DOMAIN q = 1..Len(q) /\ \A i \in 1..Len(q) : q[i] \in Jids
  BY LenProperties, ElementOfSeq
<1>2. CASE j \notin Range(q)
  BY <1>2 DEF Without
<1>3. CASE j \in Range(q)
  <2> DEFINE n == CHOOSE i \in DOMAIN q : q[i] = j
             a == SubSeq(q, 1, n - 1)
             b == SubSeq(q, n + 1, Len(q))
  <2>1. n \in 1..Len(q) /\ q[n] = j
    BY <1>1, <1>3 DEF Range
  <2> HIDE DEF n
  <2>2. /\ a \in Seq(Jids)
        /\ Len(a) = n - 1
        /\ \A i \in 1..(n - 1) : a[i] = q[i]
    <3>1. \A i \in 1..(n - 1) : q[i] \in Jids
      BY <1>1, <2>1
    <3>2. /\ SubSeq(q, 1, n - 1) \in Seq(Jids)
          /\ Len(SubSeq(q, 1, n - 1)) = IF 1 <= n - 1 THEN (n - 1) - 1 + 1 ELSE 0
          /\ \A i \in 1..((n - 1) - 1 + 1) : SubSeq(q, 1, n - 1)[i] = q[1 + i - 1]
      <4>1. 1 \in Int /\ n - 1 \in Int
        BY <2>1
      <4>2. QED
        BY <3>1, <4>1, SubSeqProperties
    <3>3. QED
      BY <3>2, <2>1
  <2>3. /\ b \in Seq(Jids)
        /\ Len(b) = Len(q) - n
        /\ \A i \in 1..(Len(q) - n) : b[i] = q[n + i]
    <3>1. \A i \in (n + 1)..Len(q) : q[i] \in Jids
      BY <1>1, <2>1
    <3>2. /\ SubSeq(q, n + 1, Len(q)) \in Seq(Jids)
          /\ Len(SubSeq(q, n + 1, Len(q)))
               = IF n + 1 <= Len(q) THEN Len(q) - (n + 1) + 1 ELSE 0
          /\ \A i \in 1..(Len(q) - (n + 1) + 1) :
               SubSeq(q, n + 1, Len(q))[i] = q[(n + 1) + i - 1]
      <4>1. n + 1 \in Int /\ Len(q) \in Int
        BY <1>1, <2>1
      <4>2. QED
        BY <3>1, <4>1, SubSeqProperties
    <3>3. QED
      BY <3>2, <1>1, <2>1
  <2>4. Without(q, j) = a \o b
    BY <1>3 DEF Without, RemoveAt, n
  <2> HIDE DEF a, b
  <2>5. /\ a \o b \in Seq(Jids)
        /\ Len(a \o b) = Len(q) - 1
        /\ \A i \in 1..(Len(q) - 1) :
             (a \o b)[i] = IF i <= n - 1 THEN q[i] ELSE q[i + 1]
    <3>1. /\ a \o b \in Seq(Jids)
          /\ Len(a \o b) = Len(a) + Len(b)
          /\ \A i \in 1..(Len(a) + Len(b)) :
               (a \o b)[i] = IF i <= Len(a) THEN a[i] ELSE b[i - Len(a)]
      BY <2>2, <2>3, ConcatProperties
    <3>2. ASSUME NEW i \in 1..(Len(q) - 1), ~(i <= n - 1)
          PROVE  b[i - Len(a)] = q[i + 1]
      <4>1. i - (n - 1) \in 1..(Len(q) - n)
        BY <1>1, <2>1, <3>2
      <4>2. b[i - (n - 1)] = q[n + (i - (n - 1))]
        BY <2>3, <4>1
      <4>3. n + (i - (n - 1)) = i + 1
        BY <1>1, <2>1
      <4>4. QED
        BY <2>2, <4>2, <4>3
    <3>3. QED
      BY <3>1, <3>2, <1>1, <2>1, <2>2, <2>3
  <2>6. DOMAIN (a \o b) = 1..(Len(q) - 1)
    BY <2>5, LenProperties
  <2> DEFINE c == a \o b
             old(i) == IF i <= n - 1 THEN i ELSE i + 1
  <2>7. \A i \in 1..(Len(q) - 1) : old(i) \in 1..Len(q) /\ c[i] = q[old(i)]
    BY <1>1, <2>1, <2>5
  <2>8. DOMAIN c = 1..(Len(q) - 1)
    BY <2>6
  <2> HIDE DEF c
  <2>9. Range(c) \subseteq Range(q)
    <3>1. SUFFICES ASSUME NEW i \in DOMAIN c PROVE c[i] \in Range(q)
      BY DEF Range
    <3>2. old(i) \in DOMAIN q /\ c[i] = q[old(i)]
      BY <1>1, <2>7, <2>8
    <3> HIDE DEF old
    <3>3. QED
      BY <3>2 DEF Range
  <2>10. NoDuplicates(c)
    <3>1. SUFFICES ASSUME NEW i \in DOMAIN c, NEW k \in DOMAIN c, c[i] = c[k]
                   PROVE  i = k
      BY DEF NoDuplicates
    <3>2. /\ old(i) \in DOMAIN q /\ c[i] = q[old(i)]
          /\ old(k) \in DOMAIN q /\ c[k] = q[old(k)]
      BY <1>1, <2>7, <2>8
    <3>3. old(i) = old(k)
      <4> HIDE DEF old
      <4>1. QED
        BY <3>1, <3>2 DEF NoDuplicates
    <3>4. i \in Int /\ k \in Int /\ n \in Int
      BY <1>1, <2>1, <2>8
    <3>5. QED
      BY <3>3, <3>4
  <2>11. j \notin Range(c)
    <3>1. SUFFICES ASSUME NEW i \in DOMAIN c, c[i] = j PROVE FALSE
      BY DEF Range
    <3>2. old(i) \in DOMAIN q /\ q[old(i)] = j /\ old(i) # n
      BY <1>1, <2>1, <2>7, <2>8, <3>1
    <3> HIDE DEF old
    <3>3. QED
      BY <1>1, <2>1, <3>2 DEF NoDuplicates
  <2>12. ASSUME NEW k \in DOMAIN q, k # n
         PROVE  q[k] \in Range(c)
    <3>1. PICK i \in 1..(Len(q) - 1) : old(i) = k
      <4>1. CASE k < n
        BY <1>1, <2>1, <4>1
      <4>2. CASE k > n
        <5>1. k - 1 \in 1..(Len(q) - 1) /\ old(k - 1) = k
          BY <1>1, <2>1, <4>2
        <5> HIDE DEF old
        <5>2. QED
          BY <5>1
      <4>3. QED
        BY <1>1, <2>1, <2>12, <4>1, <4>2
    <3>2. c[i] = q[k] /\ i \in DOMAIN c
      BY <2>7, <2>8, <3>1
    <3>3. QED
      BY <3>2 DEF Range
  <2>13. Range(q) \ {j} \subseteq Range(c)
    BY <2>1, <2>12 DEF Range
  <2>14. QED
    BY <2>4, <2>5, <2>9, <2>10, <2>11, <2>13 DEF c
<1>4. QED
  BY <1>2, <1>3

(***************************************************************************)
(* Types, and what every job, request and performance refers to            *)
(***************************************************************************)

(* A request works on a run, and has pushed a job once it enqueued one; a  *)
(* job that waits or is held names a run; a worker that has not called     *)
(* start! has started none, one that has works on a running test run; no   *)
(* job waits twice.                                                        *)
Known ==
  /\ \A w \in Web : web[w].pc # "idle" => web[w].run \in Runs /\ web[w].op \in AllOps
  /\ \A w \in Web : web[w].pc = "acted"
                     => /\ web[w].op \in {"enqueue", "cancel", "stop"}
                        /\ web[w].op = "enqueue" => web[w].job \in Jids
  /\ \A j \in Range(queue) : jobRun[j] \in Runs
  /\ \A p \in Workers : worker[p].pc # "idle"
                         => /\ worker[p].jid \in Jids
                            /\ worker[p].run \in Runs
                            /\ jobRun[worker[p].jid] = worker[p].run
  /\ \A p \in Workers : worker[p].pc \in {"idle", "fetched", "checked", "found"}
                         => ~worker[p].started
  /\ \A p \in Workers : worker[p].started => worker[p].state = "running"
  /\ NoDuplicates(queue)

Pcs == {"idle"} \cup BeforeStart \cup AfterStart

(* The states the events of requests and workers leave in a row that still *)
(* exists.                                                                 *)
LEMMA WrittenIs ==
  ASSUME NEW s
  PROVE  /\ Written(s, "enqueue") = IF s = "destroyed" THEN s ELSE "queued"
         /\ Written(s, "cancel") = IF s = "destroyed" THEN s ELSE "pending"
         /\ Written(s, "stop") = IF s = "destroyed" THEN s ELSE "pending"
         /\ Written(s, "start") = IF s = "destroyed" THEN s ELSE "running"
BY DEF Written, Transitions

(* What a step writes into the record of a request, of a performance or of *)
(* a row has the type of the record.                                       *)
LEMMA Records ==
  ASSUME TypeOK
  PROVE  /\ NoRequest \in Request
         /\ NoJob \in Performance
         /\ \A p \in Workers : Drop(p) \in Performance
         /\ \A p \in Workers, c \in Pcs :
              [worker EXCEPT ![p].pc = c] \in [Workers -> Performance]
         /\ \A p \in Workers, new \in Performance :
              [worker EXCEPT ![p] = new] \in [Workers -> Performance]
         /\ \A w \in Web, new \in Request :
              [web EXCEPT ![w] = new] \in [Web -> Request]
         /\ \A t \in Runs, event \in Events :
              [row EXCEPT ![t].state = Written(@, event)]
                \in [Runs -> [state : RowStates, jid : Jid]]
<1>1. NoRequest \in Request
  BY DEF NoRequest, Request, Jid, RowStates
<1>2. NoJob \in Performance
  BY DEF NoJob, Performance, Jid, RowStates
<1>3. ASSUME NEW p \in Workers PROVE Drop(p) \in Performance
  <2>1. worker[p].draining \in BOOLEAN
    BY DEF TypeOK, Performance
  <2>2. QED
    BY <1>2, <2>1 DEF Drop, Performance
<1>4. \A p \in Workers, c \in Pcs :
        [worker EXCEPT ![p].pc = c] \in [Workers -> Performance]
  BY ZenonT(40) DEF TypeOK, Performance, Pcs
<1>5. \A p \in Workers, new \in Performance :
        [worker EXCEPT ![p] = new] \in [Workers -> Performance]
  BY DEF TypeOK
<1>6. \A w \in Web, new \in Request : [web EXCEPT ![w] = new] \in [Web -> Request]
  BY DEF TypeOK
<1>7. ASSUME NEW t \in Runs, NEW event \in Events
      PROVE  [row EXCEPT ![t].state = Written(@, event)]
               \in [Runs -> [state : RowStates, jid : Jid]]
  <2>1. Transitions[event].to \in RowStates
    BY DEF Events, Transitions, RowStates, States
  <2>2. Written(row[t].state, event) \in RowStates
    BY <2>1 DEF TypeOK, Written
  <2>3. QED
    BY <2>2 DEF TypeOK
<1>8. QED
  BY <1>1, <1>2, <1>3, <1>4, <1>5, <1>6, <1>7

(* An update of one field of such a record keeps its type.                 *)
LEMMA RecordUpdates ==
  ASSUME TypeOK
  PROVE  /\ \A w \in Web, job \in Jid :
              [web EXCEPT ![w].pc = "acted", ![w].job = job] \in [Web -> Request]
         /\ \A p \in Workers, state \in RowStates, jid \in Jid :
              [worker EXCEPT ![p].pc = "found", ![p].state = state, ![p].rowJid = jid]
                \in [Workers -> Performance]
         /\ \A p \in Workers :
              [worker EXCEPT ![p].pc = "running", ![p].state = "running",
                             ![p].started = TRUE] \in [Workers -> Performance]
         /\ \A p \in Workers :
              [worker EXCEPT ![p].draining = TRUE] \in [Workers -> Performance]
         /\ \A p \in Workers :
              [worker EXCEPT ![p].stopped = TRUE] \in [Workers -> Performance]
<1>1. ASSUME NEW w \in Web, NEW job \in Jid
      PROVE  [web EXCEPT ![w].pc = "acted", ![w].job = job] \in [Web -> Request]
  <2>1. [web[w] EXCEPT !.pc = "acted", !.job = job] \in Request
    BY ZenonT(40) DEF TypeOK, Request
  <2>2. QED
    BY <2>1 DEF TypeOK
<1>2. ASSUME NEW p \in Workers, NEW state \in RowStates, NEW jid \in Jid
      PROVE  [worker EXCEPT ![p].pc = "found", ![p].state = state, ![p].rowJid = jid]
               \in [Workers -> Performance]
  <2>1. [worker[p] EXCEPT !.pc = "found", !.state = state, !.rowJid = jid] \in Performance
    BY ZenonT(40) DEF TypeOK, Performance, BeforeStart
  <2>2. QED
    BY <2>1 DEF TypeOK
<1>3. ASSUME NEW p \in Workers
      PROVE  [worker EXCEPT ![p].pc = "running", ![p].state = "running",
                            ![p].started = TRUE] \in [Workers -> Performance]
  <2>1. [worker[p] EXCEPT !.pc = "running", !.state = "running", !.started = TRUE]
          \in Performance
    <3>1. "running" \in RowStates /\ "running" \in AfterStart
      BY DEF RowStates, States, AfterStart
    <3>2. worker[p] \in Performance
      BY DEF TypeOK
    <3>3. QED
      BY <3>1, <3>2 DEF Performance
  <2>2. QED
    BY <2>1 DEF TypeOK
<1>4. \A p \in Workers :
        [worker EXCEPT ![p].draining = TRUE] \in [Workers -> Performance]
  BY ZenonT(40) DEF TypeOK, Performance
<1>5. \A p \in Workers :
        [worker EXCEPT ![p].stopped = TRUE] \in [Workers -> Performance]
  BY ZenonT(40) DEF TypeOK, Performance
<1>6. QED
  BY <1>1, <1>2, <1>3, <1>4, <1>5

(* Every step keeps the types.                                             *)
LEMMA TypeStep ==
  ASSUME TypeOK, Known, [Next]_vars
  PROVE  TypeOK'
<1> USE NoneAssumption, Records
<1> USE DEF dbVars, jobVars, histVars
<1>1. ASSUME NEW t \in Runs, Create(t)
      PROVE  TypeOK'
  <2>1. row' \in [Runs -> [state : RowStates, jid : Jid]]
    BY <1>1 DEF TypeOK, Create, RowStates, States
  <2>2. QED
    BY <1>1, <2>1 DEF TypeOK, Create
<1>2. ASSUME NEW w \in Web, NEW op \in Ops, NEW t \in Runs, Load(w, op, t)
      PROVE  TypeOK'
  <2>1. web' \in [Web -> Request]
    BY ZenonT(40), <1>2, OpsAssumption DEF TypeOK, Load, Request, NoRequest, AllOps, Jid
  <2>2. QED
    BY <1>2, <2>1 DEF TypeOK, Load
<1>3. ASSUME NEW w \in Web, Refuse(w)
      PROVE  TypeOK'
  <2>1. web' \in [Web -> Request]
    BY <1>3 DEF TypeOK, Refuse
  <2>2. QED
    BY <1>3, <2>1 DEF TypeOK, Refuse
<1>4. ASSUME NEW w \in Web, Enqueue(w)
      PROVE  TypeOK'
  <2>1. PICK j \in Jids : /\ Update(w, j)
                          /\ queue' = Append(queue, j)
                          /\ jobRun' = [jobRun EXCEPT ![j] = web[w].run]
    BY <1>4 DEF Enqueue
  <2>2. web' \in [Web -> Request]
    BY <2>1, RecordUpdates DEF Update, Jid
  <2>3. lock' \in [Runs -> Web \cup {None}]
    BY <2>1 DEF TypeOK, Update
  <2>4. queue' \in Seq(Jids)
    BY <2>1, AppendProperties DEF TypeOK
  <2>5. jobRun' \in [Jids -> Runs \cup {None}]
    BY <1>4, <2>1 DEF TypeOK, Enqueue, Reading, Known
  <2>6. QED
    BY <1>4, <2>2, <2>3, <2>4, <2>5 DEF TypeOK, Enqueue
<1>5. ASSUME NEW w \in Web, Cancel(w)
      PROVE  TypeOK'
  <2>1. web' \in [Web -> Request]
    BY <1>5, RecordUpdates DEF Cancel, Update, Jid
  <2>2. lock' \in [Runs -> Web \cup {None}]
    BY <1>5 DEF TypeOK, Cancel, Update
  <2>3. queue' \in Seq(Jids)
    BY <1>5, WithoutRemoves DEF TypeOK, Cancel, Known
  <2>4. QED
    BY <1>5, <2>1, <2>2, <2>3 DEF TypeOK, Cancel, Update
<1>6. ASSUME NEW w \in Web, Stop(w)
      PROVE  TypeOK'
  <2>1. web' \in [Web -> Request]
    BY <1>6, RecordUpdates DEF Stop, Update, Jid
  <2>2. lock' \in [Runs -> Web \cup {None}]
    BY <1>6 DEF TypeOK, Stop, Update
  <2>3. stopSet' \subseteq Jids /\ asked' \subseteq Jids
    BY <1>6 DEF TypeOK, Stop, Request, Jid
  <2>4. QED
    BY <1>6, <2>1, <2>2, <2>3 DEF TypeOK, Stop, Update
<1>7. ASSUME NEW w \in Web, Commit(w)
      PROVE  TypeOK'
  <2>1. web' \in [Web -> Request]
    BY <1>7 DEF TypeOK, Commit
  <2>2. row' \in [Runs -> [state : RowStates, jid : Jid]]
    <3>1. Written(row[web[w].run].state, web[w].op) \in RowStates
      BY <1>7, WrittenIs DEF TypeOK, Commit, Known, Request, RowStates, States
    <3>2. QED
      BY <1>7, <3>1 DEF TypeOK, Commit, Known, Request
  <2>3. canceled' \subseteq Runs
    BY <1>7 DEF TypeOK, Commit, Known
  <2>4. QED
    BY <1>7, <2>1, <2>2, <2>3 DEF TypeOK, Commit
<1>8. ASSUME NEW w \in Web, Destroy(w)
      PROVE  TypeOK'
  <2>1. web' \in [Web -> Request]
    BY <1>8 DEF TypeOK, Destroy
  <2>2. web[w].run \in Runs /\ "destroyed" \in RowStates
    BY <1>8 DEF Known, Destroy, Reading, RowStates
  <2>3. row' \in [Runs -> [state : RowStates, jid : Jid]]
    BY SMTT(40), <1>8, <2>2 DEF TypeOK, Destroy
  <2>4. QED
    BY <1>8, <2>1, <2>3 DEF TypeOK, Destroy
<1>9. ASSUME NEW p \in Workers, Fetch(p)
      PROVE  TypeOK'
  <2>1. Tail(queue) \in Seq(Jids) /\ Head(queue) \in Jids
    BY <1>9, TailRemoves DEF TypeOK, Fetch, Known
  <2>2. worker' \in [Workers -> Performance]
    BY ZenonT(40), <1>9, <2>1 DEF TypeOK, Fetch, Performance, NoJob, Jid, BeforeStart
  <2>3. QED
    BY <1>9, <2>1, <2>2 DEF TypeOK, Fetch, UnchangedWeb
<1>10. ASSUME NEW p \in Workers, CheckSignal(p)
      PROVE  TypeOK'
  <2>1. worker' \in [Workers -> Performance]
    BY <1>10 DEF TypeOK, CheckSignal, Pcs, BeforeStart
  <2>2. QED
    BY <1>10, <2>1 DEF TypeOK, CheckSignal, UnchangedWeb
<1>11. ASSUME NEW p \in Workers, Find(p)
      PROVE  TypeOK'
  <2>1. worker' \in [Workers -> Performance]
    BY <1>11, RecordUpdates DEF TypeOK, Find, States, RowStates, Known
  <2>2. QED
    BY <1>11, <2>1 DEF TypeOK, Find, UnchangedWeb
<1>12. ASSUME NEW p \in Workers, FindNothing(p)
      PROVE  TypeOK'
  <2>1. worker' \in [Workers -> Performance]
    BY <1>12 DEF TypeOK, FindNothing
  <2>2. QED
    BY <1>12, <2>1 DEF TypeOK, FindNothing, UnchangedWeb
<1>13. ASSUME NEW p \in Workers, Start(p)
      PROVE  TypeOK'
  <2>1. worker' \in [Workers -> Performance]
    BY <1>13, RecordUpdates DEF Start
  <2>2. row' \in [Runs -> [state : RowStates, jid : Jid]]
    BY <1>13 DEF TypeOK, Start, Known, Events
  <2>3. pollers' \subseteq Workers \X Jids
    BY <1>13 DEF TypeOK, Start, Known
  <2>4. QED
    BY <1>13, <2>1, <2>2, <2>3 DEF TypeOK, Start, UnchangedWeb
<1>14. ASSUME NEW p \in Workers, StartRefused(p)
      PROVE  TypeOK'
  <2>1. worker' \in [Workers -> Performance]
    BY <1>14 DEF TypeOK, StartRefused, Step, Pcs, AfterStart, BeforeStart
  <2>2. QED
    BY <1>14, <2>1 DEF TypeOK, StartRefused, UnchangedWeb, Step
<1>15. ASSUME NEW p \in Workers, RunReturns(p)
      PROVE  TypeOK'
  <2>1. worker' \in [Workers -> Performance]
    BY <1>15 DEF TypeOK, RunReturns, Step, Pcs, AfterStart
  <2>2. stored' \subseteq Runs
    BY <1>15 DEF TypeOK, RunReturns, Step, Known
  <2>3. QED
    BY <1>15, <2>1, <2>2 DEF TypeOK, RunReturns, UnchangedWeb, Step
<1>16. ASSUME NEW p \in Workers, RunRaises(p)
      PROVE  TypeOK'
  <2>1. worker' \in [Workers -> Performance]
    BY <1>16 DEF TypeOK, RunRaises, Step, Pcs, AfterStart
  <2>2. stored' \subseteq Runs
    BY <1>16 DEF TypeOK, RunRaises, Step, Known
  <2>3. QED
    BY <1>16, <2>1, <2>2 DEF TypeOK, RunRaises, UnchangedWeb, Step
<1>17. ASSUME NEW p \in Workers, Judge(p)
      PROVE  TypeOK'
  <2>1. worker' \in [Workers -> Performance]
    BY <1>17 DEF TypeOK, Judge, Step, Pcs, AfterStart, BeforeStart
  <2>2. QED
    BY <1>17, <2>1 DEF TypeOK, Judge, UnchangedWeb, Step
<1>18. ASSUME NEW p \in Workers, WriteStop(p)
      PROVE  TypeOK'
  <2>1. worker' \in [Workers -> Performance]
    BY <1>18 DEF TypeOK, WriteStop, Write
  <2>2. row' \in [Runs -> [state : RowStates, jid : Jid]]
    BY <1>18 DEF TypeOK, WriteStop, Write, Known, Events
  <2>3. stopSet' \subseteq Jids
    BY <1>18 DEF TypeOK, WriteStop, Performance, Jid
  <2>4. QED
    BY <1>18, <2>1, <2>2, <2>3 DEF TypeOK, WriteStop, UnchangedWeb, Write
<1>19. ASSUME NEW p \in Workers, WriteComplete(p)
      PROVE  TypeOK'
  <2>1. worker' \in [Workers -> Performance]
    BY <1>19 DEF TypeOK, WriteComplete, Write
  <2>2. row' \in [Runs -> [state : RowStates, jid : Jid]]
    BY <1>19 DEF TypeOK, WriteComplete, Write, Known, Events
  <2>3. QED
    BY <1>19, <2>1, <2>2 DEF TypeOK, WriteComplete, UnchangedWeb, Write
<1>20. ASSUME NEW p \in Workers, WriteErrors(p)
      PROVE  TypeOK'
  <2>1. worker' \in [Workers -> Performance]
    BY <1>20 DEF TypeOK, WriteErrors, Write
  <2>2. row' \in [Runs -> [state : RowStates, jid : Jid]]
    BY <1>20 DEF TypeOK, WriteErrors, Write, Known, Events
  <2>3. QED
    BY <1>20, <2>1, <2>2 DEF TypeOK, WriteErrors, UnchangedWeb, Write
<1>21. ASSUME NEW p \in Workers, ErrorsRefused(p)
      PROVE  TypeOK'
  <2>1. worker' \in [Workers -> Performance]
    BY <1>21 DEF TypeOK, ErrorsRefused
  <2>2. QED
    BY <1>21, <2>1 DEF TypeOK, ErrorsRefused, UnchangedWeb
<1>22. ASSUME NEW p \in Workers, Terminate(p)
      PROVE  TypeOK'
  <2>1. worker' \in [Workers -> Performance]
    BY <1>22 DEF TypeOK, Terminate, Dies
  <2>2. harm' \in [Runs -> SUBSET AllFaults]
    BY SMTT(40), <1>22 DEF TypeOK, Terminate, Dies, Known, AllFaults
  <2>3. pollers' \subseteq Workers \X Jids
    BY <1>22 DEF TypeOK, Terminate, Dies
  <2>4. QED
    BY <1>22, <2>1, <2>2, <2>3 DEF TypeOK, Terminate, UnchangedWeb
<1>23. ASSUME NEW p \in Workers, Kill(p)
      PROVE  TypeOK'
  <2>1. worker' \in [Workers -> Performance]
    BY <1>23 DEF TypeOK, Kill, Dies
  <2>2. harm' \in [Runs -> SUBSET AllFaults]
    BY <1>23 DEF TypeOK, Kill, Dies, Known, AllFaults
  <2>3. pollers' \subseteq Workers \X Jids
    BY <1>23 DEF TypeOK, Kill, Dies
  <2>4. faults' \in 0..MaxFaults
    BY <1>23, MaxFaultsAssumption DEF TypeOK, Kill, Fault
  <2>5. QED
    BY <1>23, <2>1, <2>2, <2>3, <2>4 DEF TypeOK, Kill, UnchangedWeb
<1>24. ASSUME NEW p \in Workers, Requeue(p)
      PROVE  TypeOK'
  <2>1. worker' \in [Workers -> Performance]
    BY <1>24, RecordUpdates DEF TypeOK, Requeue
  <2>2. queue' \in Seq(Jids)
    BY <1>24, ConcatProperties DEF TypeOK, Requeue, Known
  <2>3. faults' \in 0..MaxFaults
    BY <1>24, MaxFaultsAssumption DEF TypeOK, Requeue, Fault
  <2>4. QED
    BY <1>24, <2>1, <2>2, <2>3 DEF TypeOK, Requeue, UnchangedWeb
<1>25. ASSUME NEW p \in Workers, CheckSignalFails(p)
      PROVE  TypeOK'
  <2>1. worker' \in [Workers -> Performance]
    BY <1>25 DEF TypeOK, CheckSignalFails, Step, Pcs, BeforeStart
  <2>2. faults' \in 0..MaxFaults
    BY <1>25, MaxFaultsAssumption DEF TypeOK, CheckSignalFails, Fault
  <2>3. QED
    BY <1>25, <2>1, <2>2 DEF TypeOK, CheckSignalFails, UnchangedWeb, Step
<1>26. ASSUME NEW p \in Workers, NEW j \in Jids, Poll(p, j)
      PROVE  TypeOK'
  <2>1. worker' \in [Workers -> Performance]
    BY <1>26, RecordUpdates DEF TypeOK, Poll
  <2>2. stopSet' \subseteq Jids /\ pollers' \subseteq Workers \X Jids
    BY <1>26 DEF TypeOK, Poll
  <2>3. QED
    BY <1>26, <2>1, <2>2 DEF TypeOK, Poll, UnchangedWeb
<1>27. ASSUME NEW p \in Workers, NEW j \in Jids, PollerEnds(p, j)
      PROVE  TypeOK'
  <2>1. QED
    BY <1>27 DEF TypeOK, PollerEnds, UnchangedWeb
<1>28. ASSUME NEW w \in Web, Crash(w)
      PROVE  TypeOK'
  <2>1. web' \in [Web -> Request]
    BY <1>28 DEF TypeOK, Crash
  <2>2. harm' \in [Runs -> SUBSET AllFaults]
    BY <1>28 DEF TypeOK, Crash, Known, AllFaults
  <2>3. faults' \in 0..MaxFaults
    BY <1>28, MaxFaultsAssumption DEF TypeOK, Crash, Fault
  <2>4. QED
    BY <1>28, <2>1, <2>2, <2>3 DEF TypeOK, Crash
<1>29. ASSUME NEW t \in Runs, Orphan(t)
      PROVE  TypeOK'
  <2>1. harm' \in [Runs -> SUBSET AllFaults]
    BY <1>29 DEF TypeOK, Orphan, AllFaults
  <2>2. faults' \in 0..MaxFaults
    BY <1>29, MaxFaultsAssumption DEF TypeOK, Orphan, Fault
  <2>3. QED
    BY <1>29, <2>1, <2>2 DEF TypeOK, Orphan
<1>30. CASE UNCHANGED vars
  BY <1>30 DEF TypeOK, vars
<1>31. QED
  BY <1>1, <1>2, <1>3, <1>4, <1>5, <1>6, <1>7, <1>8, <1>9, <1>10,
     <1>11, <1>12, <1>13, <1>14, <1>15, <1>16, <1>17, <1>18, <1>19,
     <1>20, <1>21, <1>22, <1>23, <1>24, <1>25, <1>26, <1>27,
     <1>28, <1>29, <1>30
  DEF Next, WebStep, WorkerStep, PollerStep, FaultStep

(* Every step keeps what a request, a job and a performance know of each   *)
(* other.                                                                  *)
LEMMA KnownStep ==
  ASSUME TypeOK, Known, OneHolder, [Next]_vars
  PROVE  Known'
<1> USE NoneAssumption
<1> USE DEF dbVars, jobVars, histVars
<1>0. /\ web \in [Web -> Request]
      /\ worker \in [Workers -> Performance]
      /\ queue \in Seq(Jids)
      /\ jobRun \in [Jids -> Runs \cup {None}]
  BY DEF TypeOK
<1>1. ASSUME NEW t \in Runs, Create(t)
      PROVE  Known'
  BY <1>0, <1>1 DEF Known, Create
<1>2. ASSUME NEW w \in Web, NEW op \in Ops, NEW t \in Runs, Load(w, op, t)
      PROVE  Known'
  BY <1>0, <1>2, OpsAssumption DEF Known, Load, Request, NoRequest
<1>3. ASSUME NEW w \in Web, Refuse(w)
      PROVE  Known'
  BY <1>0, <1>3 DEF Known, Refuse, Request, NoRequest
<1>4. ASSUME NEW w \in Web, Enqueue(w)
      PROVE  Known'
  BY <1>0, <1>4, AppendAdds DEF Known, Enqueue, Update, Reading, Request, NoRequest
<1>5. ASSUME NEW w \in Web, Cancel(w)
      PROVE  Known'
  BY <1>0, <1>5, WithoutRemoves DEF Known, Cancel, Update, Reading, Request, NoRequest
<1>6. ASSUME NEW w \in Web, Stop(w)
      PROVE  Known'
  BY <1>0, <1>6 DEF Known, Stop, Update, Reading, Request, NoRequest
<1>7. ASSUME NEW w \in Web, Commit(w)
      PROVE  Known'
  BY <1>0, <1>7 DEF Known, Commit, Request, NoRequest
<1>8. ASSUME NEW w \in Web, Destroy(w)
      PROVE  Known'
  BY <1>0, <1>8 DEF Known, Destroy, Request, NoRequest
<1>9. ASSUME NEW p \in Workers, Fetch(p)
      PROVE  Known'
  BY <1>0, <1>9, TailRemoves DEF Known, Fetch, UnchangedWeb, Performance, NoJob
<1>10. ASSUME NEW p \in Workers, CheckSignal(p)
      PROVE  Known'
  BY <1>0, <1>10 DEF Known, CheckSignal, UnchangedWeb, Performance, NoJob, Drop
<1>11. ASSUME NEW p \in Workers, Find(p)
      PROVE  Known'
  BY SMTT(40), <1>0, <1>11 DEF Known, Find, UnchangedWeb, Performance
<1>12. ASSUME NEW p \in Workers, FindNothing(p)
      PROVE  Known'
  BY <1>0, <1>12 DEF Known, FindNothing, UnchangedWeb, Performance, NoJob, Drop
<1>13. ASSUME NEW p \in Workers, Start(p)
      PROVE  Known'
  BY <1>0, <1>13 DEF Known, Start, UnchangedWeb, Performance, NoJob
<1>14. ASSUME NEW p \in Workers, StartRefused(p)
      PROVE  Known'
  BY <1>0, <1>14 DEF Known, StartRefused, UnchangedWeb, Performance, NoJob, Step
<1>15. ASSUME NEW p \in Workers, RunReturns(p)
      PROVE  Known'
  BY <1>0, <1>15 DEF Known, RunReturns, UnchangedWeb, Performance, NoJob, Step
<1>16. ASSUME NEW p \in Workers, RunRaises(p)
      PROVE  Known'
  BY <1>0, <1>16 DEF Known, RunRaises, UnchangedWeb, Performance, NoJob, Step
<1>17. ASSUME NEW p \in Workers, Judge(p)
      PROVE  Known'
  BY <1>0, <1>17 DEF Known, Judge, UnchangedWeb, Performance, NoJob, Step
<1>18. ASSUME NEW p \in Workers, WriteStop(p)
      PROVE  Known'
  BY <1>0, <1>18 DEF Known, WriteStop, UnchangedWeb, Performance, NoJob, Write, Drop
<1>19. ASSUME NEW p \in Workers, WriteComplete(p)
      PROVE  Known'
  BY <1>0, <1>19 DEF Known, WriteComplete, UnchangedWeb, Performance, NoJob, Write, Drop
<1>20. ASSUME NEW p \in Workers, WriteErrors(p)
      PROVE  Known'
  BY <1>0, <1>20 DEF Known, WriteErrors, UnchangedWeb, Performance, NoJob, Write, Drop
<1>21. ASSUME NEW p \in Workers, ErrorsRefused(p)
      PROVE  Known'
  BY <1>0, <1>21 DEF Known, ErrorsRefused, UnchangedWeb, Performance, NoJob, Drop
<1>22. ASSUME NEW p \in Workers, Terminate(p)
      PROVE  Known'
  <2>1. worker' = [worker EXCEPT ![p] = NoJob]
    BY <1>22 DEF Terminate, Dies
  <2>2. UNCHANGED <<web, queue, jobRun>>
    BY <1>22 DEF Terminate, UnchangedWeb
  <2>3. QED
    BY <1>0, <2>1, <2>2 DEF Known, NoJob
<1>23. ASSUME NEW p \in Workers, Kill(p)
      PROVE  Known'
  BY <1>0, <1>23 DEF Known, Kill, UnchangedWeb, Performance, NoJob, Dies
<1>24. ASSUME NEW p \in Workers, Requeue(p)
      PROVE  Known'
  BY <1>0, <1>24, ReturnAdds DEF Known, OneHolder, Queued, Holds, Requeue, UnchangedWeb, Performance, NoJob
<1>25. ASSUME NEW p \in Workers, CheckSignalFails(p)
      PROVE  Known'
  BY <1>0, <1>25 DEF Known, CheckSignalFails, UnchangedWeb, Performance, NoJob, Step
<1>26. ASSUME NEW p \in Workers, NEW j \in Jids, Poll(p, j)
      PROVE  Known'
  BY <1>0, <1>26 DEF Known, Poll, UnchangedWeb, Performance, NoJob
<1>27. ASSUME NEW p \in Workers, NEW j \in Jids, PollerEnds(p, j)
      PROVE  Known'
  BY <1>0, <1>27 DEF Known, PollerEnds, UnchangedWeb, Performance, NoJob
<1>28. ASSUME NEW w \in Web, Crash(w)
      PROVE  Known'
  BY <1>0, <1>28 DEF Known, Crash, Request, NoRequest
<1>29. ASSUME NEW t \in Runs, Orphan(t)
      PROVE  Known'
  BY <1>0, <1>29 DEF Known, Orphan
<1>30. CASE UNCHANGED vars
  BY <1>30 DEF Known, vars
<1>31. QED
  BY <1>1, <1>2, <1>3, <1>4, <1>5, <1>6, <1>7, <1>8, <1>9, <1>10,
     <1>11, <1>12, <1>13, <1>14, <1>15, <1>16, <1>17, <1>18, <1>19,
     <1>20, <1>21, <1>22, <1>23, <1>24, <1>25, <1>26, <1>27,
     <1>28, <1>29, <1>30
  DEF Next, WebStep, WorkerStep, PollerStep, FaultStep

(***************************************************************************)
(* One holder of a job                                                     *)
(***************************************************************************)

(* Every step keeps a job with one holder: jobs are taken from the queue,  *)
(* and come back only from a process that is shutting down.                *)
LEMMA OneHolderStep ==
  ASSUME TypeOK, Known, OneHolder, [Next]_vars
  PROVE  OneHolder'
<1> USE NoneAssumption DEF dbVars, jobVars, histVars, OneHolder, Queued, Holds
<1>0. /\ web \in [Web -> Request]
      /\ worker \in [Workers -> Performance]
      /\ queue \in Seq(Jids)
      /\ jobRun \in [Jids -> Runs \cup {None}]
  BY DEF TypeOK
<1>1. ASSUME NEW t \in Runs, Create(t)
      PROVE  OneHolder'
  BY <1>0, <1>1 DEF Create
<1>2. ASSUME NEW w \in Web, NEW op \in Ops, NEW t \in Runs, Load(w, op, t)
      PROVE  OneHolder'
  BY <1>0, <1>2 DEF Load
<1>3. ASSUME NEW w \in Web, Refuse(w)
      PROVE  OneHolder'
  BY <1>0, <1>3 DEF Refuse
<1>4. ASSUME NEW w \in Web, Enqueue(w)
      PROVE  OneHolder'
  <2>1. PICK j \in Jids : jobRun[j] = None /\ queue' = Append(queue, j)
    BY <1>4 DEF Enqueue
  <2>2. j \notin Range(queue) /\ \A p \in Workers : ~Holds(p, j)
    BY <2>1 DEF Known
  <2>3. Range(queue') = Range(queue) \cup {j}
    BY <1>0, <2>1, <2>2, AppendAdds DEF Known
  <2>4. worker' = worker
    BY <1>4 DEF Enqueue
  <2>5. QED
    BY <2>2, <2>3, <2>4
<1>5. ASSUME NEW w \in Web, Cancel(w)
      PROVE  OneHolder'
  BY <1>0, <1>5, WithoutRemoves DEF Cancel, Known
<1>6. ASSUME NEW w \in Web, Stop(w)
      PROVE  OneHolder'
  BY <1>0, <1>6 DEF Stop
<1>7. ASSUME NEW w \in Web, Commit(w)
      PROVE  OneHolder'
  BY <1>0, <1>7 DEF Commit
<1>8. ASSUME NEW w \in Web, Destroy(w)
      PROVE  OneHolder'
  BY <1>0, <1>8 DEF Destroy
<1>9. ASSUME NEW p \in Workers, Fetch(p)
      PROVE  OneHolder'
  <2> DEFINE h == Head(queue)
  <2>1. /\ h \in Jids /\ h \in Range(queue)
        /\ Range(queue') = Range(queue) \ {h}
    BY <1>0, <1>9, TailRemoves DEF Fetch, Known
  <2>2. /\ worker[p].pc = "idle"
        /\ worker'[p].jid = h
        /\ \A q \in Workers \ {p} : worker'[q] = worker[q]
    BY <1>0, <1>9 DEF Fetch, NoJob
  <2>3. \A q \in Workers : worker[q].jid = h /\ worker[q].pc # "idle"
                            => worker[q].draining
    BY <2>1
  <2> HIDE DEF h
  <2>4. QED
    BY <2>1, <2>2, <2>3
<1>10. ASSUME NEW p \in Workers, CheckSignal(p)
      PROVE  OneHolder'
  BY <1>0, <1>10 DEF CheckSignal, UnchangedWeb, Performance, NoJob, Drop
<1>11. ASSUME NEW p \in Workers, Find(p)
      PROVE  OneHolder'
  BY SMTT(40), <1>0, <1>11 DEF Find, UnchangedWeb, Performance
<1>12. ASSUME NEW p \in Workers, FindNothing(p)
      PROVE  OneHolder'
  BY <1>0, <1>12 DEF FindNothing, UnchangedWeb, Performance, NoJob, Drop
<1>13. ASSUME NEW p \in Workers, Start(p)
      PROVE  OneHolder'
  BY <1>0, <1>13 DEF Start, UnchangedWeb, Performance, NoJob
<1>14. ASSUME NEW p \in Workers, StartRefused(p)
      PROVE  OneHolder'
  BY <1>0, <1>14 DEF StartRefused, UnchangedWeb, Performance, NoJob, Step
<1>15. ASSUME NEW p \in Workers, RunReturns(p)
      PROVE  OneHolder'
  BY <1>0, <1>15 DEF RunReturns, UnchangedWeb, Performance, NoJob, Step
<1>16. ASSUME NEW p \in Workers, RunRaises(p)
      PROVE  OneHolder'
  BY <1>0, <1>16 DEF RunRaises, UnchangedWeb, Performance, NoJob, Step
<1>17. ASSUME NEW p \in Workers, Judge(p)
      PROVE  OneHolder'
  BY <1>0, <1>17 DEF Judge, UnchangedWeb, Performance, NoJob, Step
<1>18. ASSUME NEW p \in Workers, WriteStop(p)
      PROVE  OneHolder'
  BY <1>0, <1>18 DEF WriteStop, UnchangedWeb, Performance, NoJob, Write, Drop
<1>19. ASSUME NEW p \in Workers, WriteComplete(p)
      PROVE  OneHolder'
  BY <1>0, <1>19 DEF WriteComplete, UnchangedWeb, Performance, NoJob, Write, Drop
<1>20. ASSUME NEW p \in Workers, WriteErrors(p)
      PROVE  OneHolder'
  BY <1>0, <1>20 DEF WriteErrors, UnchangedWeb, Performance, NoJob, Write, Drop
<1>21. ASSUME NEW p \in Workers, ErrorsRefused(p)
      PROVE  OneHolder'
  BY <1>0, <1>21 DEF ErrorsRefused, UnchangedWeb, Performance, NoJob, Drop
<1>22. ASSUME NEW p \in Workers, Terminate(p)
      PROVE  OneHolder'
  BY <1>0, <1>22 DEF Terminate, UnchangedWeb, Performance, NoJob, Dies
<1>23. ASSUME NEW p \in Workers, Kill(p)
      PROVE  OneHolder'
  BY <1>0, <1>23 DEF Kill, UnchangedWeb, Performance, NoJob, Dies
<1>24. ASSUME NEW p \in Workers, Requeue(p)
      PROVE  OneHolder'
  <2> DEFINE r == worker[p].jid
  <2>1. r \in Jids /\ worker[p].pc # "idle" /\ ~worker[p].draining
    BY <1>24 DEF Requeue, Known
  <2>2. /\ r \notin Range(queue)
        /\ \A q \in Workers \ {p} :
             worker[q].jid = r /\ worker[q].pc # "idle" => worker[q].draining
    BY <2>1
  <2>3. Range(queue') = Range(queue) \cup {r}
    BY <1>0, <1>24, <2>1, <2>2, ReturnAdds DEF Requeue, Known
  <2>4. /\ worker'[p].draining
        /\ \A q \in Workers \ {p} : worker'[q] = worker[q]
    BY <1>0, <1>24 DEF Requeue, Performance
  <2> HIDE DEF r
  <2>5. QED
    BY <2>2, <2>3, <2>4
<1>25. ASSUME NEW p \in Workers, CheckSignalFails(p)
      PROVE  OneHolder'
  BY <1>0, <1>25 DEF CheckSignalFails, UnchangedWeb, Performance, NoJob, Step
<1>26. ASSUME NEW p \in Workers, NEW j \in Jids, Poll(p, j)
      PROVE  OneHolder'
  BY <1>0, <1>26 DEF Poll, UnchangedWeb, Performance, NoJob
<1>27. ASSUME NEW p \in Workers, NEW j \in Jids, PollerEnds(p, j)
      PROVE  OneHolder'
  BY <1>0, <1>27 DEF PollerEnds, UnchangedWeb, Performance, NoJob
<1>28. ASSUME NEW w \in Web, Crash(w)
      PROVE  OneHolder'
  BY <1>0, <1>28 DEF Crash
<1>29. ASSUME NEW t \in Runs, Orphan(t)
      PROVE  OneHolder'
  BY <1>0, <1>29 DEF Orphan
<1>30. CASE UNCHANGED vars
  BY <1>30 DEF vars
<1>31. QED
  BY <1>1, <1>2, <1>3, <1>4, <1>5, <1>6, <1>7, <1>8, <1>9, <1>10,
     <1>11, <1>12, <1>13, <1>14, <1>15, <1>16, <1>17, <1>18, <1>19,
     <1>20, <1>21, <1>22, <1>23, <1>24, <1>25, <1>26, <1>27,
     <1>28, <1>29, <1>30
  DEF Next, WebStep, WorkerStep, PollerStep, FaultStep

(***************************************************************************)
(* Complete runs have their results                                        *)
(***************************************************************************)

(* A performance about to complete its run, or about to be judged and not  *)
(* stopped, has stored the results: TestRunner#stopped is never reset.     *)
Judged ==
  \A p \in Workers :
    (worker[p].pc = "completing" \/ (worker[p].pc = "ran" /\ ~worker[p].stopped))
      => worker[p].run \in stored

(* Every step keeps this: the flag is set by the listener thread only, and *)
(* never reset.                                                            *)
LEMMA JudgedStep ==
  ASSUME TypeOK, Known, Judged, [Next]_vars
  PROVE  Judged'
<1> USE DEF Judged, dbVars, jobVars, histVars
<1>0. /\ row \in [Runs -> [state : RowStates, jid : Jid]]
      /\ worker \in [Workers -> Performance]
      /\ harm \in [Runs -> SUBSET AllFaults]
  BY DEF TypeOK
<1>1. ASSUME NEW t \in Runs, Create(t)
      PROVE  Judged'
  BY <1>0, <1>1 DEF Create
<1>2. ASSUME NEW w \in Web, NEW op \in Ops, NEW t \in Runs, Load(w, op, t)
      PROVE  Judged'
  BY <1>0, <1>2 DEF Load
<1>3. ASSUME NEW w \in Web, Refuse(w)
      PROVE  Judged'
  BY <1>0, <1>3 DEF Refuse
<1>4. ASSUME NEW w \in Web, Enqueue(w)
      PROVE  Judged'
  BY <1>0, <1>4 DEF Enqueue, Update
<1>5. ASSUME NEW w \in Web, Cancel(w)
      PROVE  Judged'
  BY <1>0, <1>5 DEF Cancel
<1>6. ASSUME NEW w \in Web, Stop(w)
      PROVE  Judged'
  BY <1>0, <1>6 DEF Stop
<1>7. ASSUME NEW w \in Web, Commit(w)
      PROVE  Judged'
  BY <1>0, <1>7 DEF Commit, Known, Written, Transitions
<1>8. ASSUME NEW w \in Web, Destroy(w)
      PROVE  Judged'
  BY <1>0, <1>8 DEF Destroy
<1>9. ASSUME NEW p \in Workers, Fetch(p)
      PROVE  Judged'
  BY <1>0, <1>9 DEF Fetch, UnchangedWeb, Performance, NoJob
<1>10. ASSUME NEW p \in Workers, CheckSignal(p)
      PROVE  Judged'
  BY <1>0, <1>10 DEF CheckSignal, UnchangedWeb, Performance, NoJob, Drop
<1>11. ASSUME NEW p \in Workers, Find(p)
      PROVE  Judged'
  BY <1>0, <1>11 DEF Find, UnchangedWeb, Performance, NoJob
<1>12. ASSUME NEW p \in Workers, FindNothing(p)
      PROVE  Judged'
  BY <1>0, <1>12 DEF FindNothing, UnchangedWeb, Performance, NoJob, Drop
<1>13. ASSUME NEW p \in Workers, Start(p)
      PROVE  Judged'
  BY <1>0, <1>13 DEF Start, UnchangedWeb, Performance, NoJob, Written, Transitions
<1>14. ASSUME NEW p \in Workers, StartRefused(p)
      PROVE  Judged'
  BY <1>0, <1>14 DEF StartRefused, UnchangedWeb, Performance, NoJob, Step
<1>15. ASSUME NEW p \in Workers, RunReturns(p)
      PROVE  Judged'
  BY <1>0, <1>15 DEF RunReturns, UnchangedWeb, Performance, NoJob, Step
<1>16. ASSUME NEW p \in Workers, RunRaises(p)
      PROVE  Judged'
  BY <1>0, <1>16 DEF RunRaises, UnchangedWeb, Performance, NoJob, Step
<1>17. ASSUME NEW p \in Workers, Judge(p)
      PROVE  Judged'
  BY <1>0, <1>17 DEF Judge, UnchangedWeb, Performance, NoJob, Step
<1>18. ASSUME NEW p \in Workers, WriteStop(p)
      PROVE  Judged'
  BY <1>0, <1>18 DEF WriteStop, UnchangedWeb, Performance, NoJob, Write, Drop, Written, Transitions
<1>19. ASSUME NEW p \in Workers, WriteComplete(p)
      PROVE  Judged'
  BY <1>0, <1>19 DEF WriteComplete, UnchangedWeb, Performance, NoJob, Write, Drop, Written, Transitions
<1>20. ASSUME NEW p \in Workers, WriteErrors(p)
      PROVE  Judged'
  BY <1>0, <1>20 DEF WriteErrors, UnchangedWeb, Performance, NoJob, Write, Drop, Written, Transitions
<1>21. ASSUME NEW p \in Workers, ErrorsRefused(p)
      PROVE  Judged'
  BY <1>0, <1>21 DEF ErrorsRefused, UnchangedWeb, Performance, NoJob, Drop
<1>22. ASSUME NEW p \in Workers, Terminate(p)
      PROVE  Judged'
  BY <1>0, <1>22 DEF Terminate, UnchangedWeb, Performance, NoJob, Dies
<1>23. ASSUME NEW p \in Workers, Kill(p)
      PROVE  Judged'
  BY <1>0, <1>23 DEF Kill, UnchangedWeb, Performance, NoJob, Dies
<1>24. ASSUME NEW p \in Workers, Requeue(p)
      PROVE  Judged'
  BY <1>0, <1>24 DEF Requeue, UnchangedWeb, Performance, NoJob
<1>25. ASSUME NEW p \in Workers, CheckSignalFails(p)
      PROVE  Judged'
  BY <1>0, <1>25 DEF CheckSignalFails, UnchangedWeb, Performance, NoJob, Step
<1>26. ASSUME NEW p \in Workers, NEW j \in Jids, Poll(p, j)
      PROVE  Judged'
  BY <1>0, <1>26 DEF Poll, UnchangedWeb, Performance, NoJob, Holds
<1>27. ASSUME NEW p \in Workers, NEW j \in Jids, PollerEnds(p, j)
      PROVE  Judged'
  BY <1>0, <1>27 DEF PollerEnds, UnchangedWeb, Performance, NoJob
<1>28. ASSUME NEW w \in Web, Crash(w)
      PROVE  Judged'
  BY <1>0, <1>28 DEF Crash
<1>29. ASSUME NEW t \in Runs, Orphan(t)
      PROVE  Judged'
  BY <1>0, <1>29 DEF Orphan
<1>30. CASE UNCHANGED vars
  BY <1>30 DEF vars
<1>31. QED
  BY <1>1, <1>2, <1>3, <1>4, <1>5, <1>6, <1>7, <1>8, <1>9, <1>10,
     <1>11, <1>12, <1>13, <1>14, <1>15, <1>16, <1>17, <1>18, <1>19,
     <1>20, <1>21, <1>22, <1>23, <1>24, <1>25, <1>26, <1>27,
     <1>28, <1>29, <1>30
  DEF Next, WebStep, WorkerStep, PollerStep, FaultStep

(* Every step keeps the results of complete runs: only a performance that  *)
(* was judged not stopped completes its run.                               *)
LEMMA CompleteHasResultsStep ==
  ASSUME TypeOK, Known, Judged, CompleteHasResults, [Next]_vars
  PROVE  CompleteHasResults'
<1> USE DEF CompleteHasResults, dbVars, jobVars, histVars
<1>0. /\ row \in [Runs -> [state : RowStates, jid : Jid]]
      /\ worker \in [Workers -> Performance]
      /\ harm \in [Runs -> SUBSET AllFaults]
  BY DEF TypeOK
<1>1. ASSUME NEW t \in Runs, Create(t)
      PROVE  CompleteHasResults'
  BY <1>0, <1>1 DEF Create
<1>2. ASSUME NEW w \in Web, NEW op \in Ops, NEW t \in Runs, Load(w, op, t)
      PROVE  CompleteHasResults'
  BY <1>0, <1>2 DEF Load
<1>3. ASSUME NEW w \in Web, Refuse(w)
      PROVE  CompleteHasResults'
  BY <1>0, <1>3 DEF Refuse
<1>4. ASSUME NEW w \in Web, Enqueue(w)
      PROVE  CompleteHasResults'
  BY <1>0, <1>4 DEF Enqueue, Update
<1>5. ASSUME NEW w \in Web, Cancel(w)
      PROVE  CompleteHasResults'
  BY <1>0, <1>5 DEF Cancel
<1>6. ASSUME NEW w \in Web, Stop(w)
      PROVE  CompleteHasResults'
  BY <1>0, <1>6 DEF Stop
<1>7. ASSUME NEW w \in Web, Commit(w)
      PROVE  CompleteHasResults'
  BY SMTT(40), <1>0, <1>7, WrittenIs DEF Commit, Known
<1>8. ASSUME NEW w \in Web, Destroy(w)
      PROVE  CompleteHasResults'
  BY <1>0, <1>8 DEF Destroy
<1>9. ASSUME NEW p \in Workers, Fetch(p)
      PROVE  CompleteHasResults'
  BY <1>0, <1>9 DEF Fetch, UnchangedWeb, Performance, NoJob
<1>10. ASSUME NEW p \in Workers, CheckSignal(p)
      PROVE  CompleteHasResults'
  BY <1>0, <1>10 DEF CheckSignal, UnchangedWeb, Performance, NoJob, Drop
<1>11. ASSUME NEW p \in Workers, Find(p)
      PROVE  CompleteHasResults'
  BY <1>0, <1>11 DEF Find, UnchangedWeb, Performance, NoJob
<1>12. ASSUME NEW p \in Workers, FindNothing(p)
      PROVE  CompleteHasResults'
  BY <1>0, <1>12 DEF FindNothing, UnchangedWeb, Performance, NoJob, Drop
<1>13. ASSUME NEW p \in Workers, Start(p)
      PROVE  CompleteHasResults'
  BY <1>0, <1>13 DEF Start, UnchangedWeb, Performance, NoJob, Written, Transitions
<1>14. ASSUME NEW p \in Workers, StartRefused(p)
      PROVE  CompleteHasResults'
  BY <1>0, <1>14 DEF StartRefused, UnchangedWeb, Performance, NoJob, Step
<1>15. ASSUME NEW p \in Workers, RunReturns(p)
      PROVE  CompleteHasResults'
  BY <1>0, <1>15 DEF RunReturns, UnchangedWeb, Performance, NoJob, Step
<1>16. ASSUME NEW p \in Workers, RunRaises(p)
      PROVE  CompleteHasResults'
  BY <1>0, <1>16 DEF RunRaises, UnchangedWeb, Performance, NoJob, Step
<1>17. ASSUME NEW p \in Workers, Judge(p)
      PROVE  CompleteHasResults'
  BY <1>0, <1>17 DEF Judge, UnchangedWeb, Performance, NoJob, Step
<1>18. ASSUME NEW p \in Workers, WriteStop(p)
      PROVE  CompleteHasResults'
  BY <1>0, <1>18 DEF WriteStop, UnchangedWeb, Performance, NoJob, Write, Drop, Written, Transitions
<1>19. ASSUME NEW p \in Workers, WriteComplete(p)
      PROVE  CompleteHasResults'
  <2>1. worker[p].run \in stored /\ stored' = stored
    BY <1>19 DEF WriteComplete, Write, Judged
  <2>2. \A t \in Runs \ {worker[p].run} : row'[t] = row[t]
    BY <1>0, <1>19 DEF WriteComplete, Write
  <2>3. QED
    BY <2>1, <2>2
<1>20. ASSUME NEW p \in Workers, WriteErrors(p)
      PROVE  CompleteHasResults'
  BY <1>0, <1>20 DEF WriteErrors, UnchangedWeb, Performance, NoJob, Write, Drop, Written, Transitions
<1>21. ASSUME NEW p \in Workers, ErrorsRefused(p)
      PROVE  CompleteHasResults'
  BY <1>0, <1>21 DEF ErrorsRefused, UnchangedWeb, Performance, NoJob, Drop
<1>22. ASSUME NEW p \in Workers, Terminate(p)
      PROVE  CompleteHasResults'
  BY <1>0, <1>22 DEF Terminate, UnchangedWeb, Performance, NoJob, Dies
<1>23. ASSUME NEW p \in Workers, Kill(p)
      PROVE  CompleteHasResults'
  BY <1>0, <1>23 DEF Kill, UnchangedWeb, Performance, NoJob, Dies
<1>24. ASSUME NEW p \in Workers, Requeue(p)
      PROVE  CompleteHasResults'
  BY <1>0, <1>24 DEF Requeue, UnchangedWeb, Performance, NoJob
<1>25. ASSUME NEW p \in Workers, CheckSignalFails(p)
      PROVE  CompleteHasResults'
  BY <1>0, <1>25 DEF CheckSignalFails, UnchangedWeb, Performance, NoJob, Step
<1>26. ASSUME NEW p \in Workers, NEW j \in Jids, Poll(p, j)
      PROVE  CompleteHasResults'
  BY <1>0, <1>26 DEF Poll, UnchangedWeb, Performance, NoJob, Holds
<1>27. ASSUME NEW p \in Workers, NEW j \in Jids, PollerEnds(p, j)
      PROVE  CompleteHasResults'
  BY <1>0, <1>27 DEF PollerEnds, UnchangedWeb, Performance, NoJob
<1>28. ASSUME NEW w \in Web, Crash(w)
      PROVE  CompleteHasResults'
  BY <1>0, <1>28 DEF Crash
<1>29. ASSUME NEW t \in Runs, Orphan(t)
      PROVE  CompleteHasResults'
  BY <1>0, <1>29 DEF Orphan
<1>30. CASE UNCHANGED vars
  BY <1>30 DEF vars
<1>31. QED
  BY <1>1, <1>2, <1>3, <1>4, <1>5, <1>6, <1>7, <1>8, <1>9, <1>10,
     <1>11, <1>12, <1>13, <1>14, <1>15, <1>16, <1>17, <1>18, <1>19,
     <1>20, <1>21, <1>22, <1>23, <1>24, <1>25, <1>26, <1>27,
     <1>28, <1>29, <1>30
  DEF Next, WebStep, WorkerStep, PollerStep, FaultStep

(***************************************************************************)
(* Running runs have an executor                                           *)
(***************************************************************************)

(* Every step keeps an executor for every running run: start! makes one,   *)
(* and a performance ends by writing another state.                        *)
LEMMA RunningHasExecutorStep ==
  ASSUME TypeOK, Known, RunningHasExecutor, [Next]_vars
  PROVE  RunningHasExecutor'
<1> USE DEF RunningHasExecutor, Harmed, Executes, dbVars, jobVars, histVars
<1>0. /\ row \in [Runs -> [state : RowStates, jid : Jid]]
      /\ worker \in [Workers -> Performance]
      /\ harm \in [Runs -> SUBSET AllFaults]
  BY DEF TypeOK
<1>1. ASSUME NEW t \in Runs, Create(t)
      PROVE  RunningHasExecutor'
  BY <1>0, <1>1 DEF Create
<1>2. ASSUME NEW w \in Web, NEW op \in Ops, NEW t \in Runs, Load(w, op, t)
      PROVE  RunningHasExecutor'
  BY <1>0, <1>2 DEF Load
<1>3. ASSUME NEW w \in Web, Refuse(w)
      PROVE  RunningHasExecutor'
  BY <1>0, <1>3 DEF Refuse
<1>4. ASSUME NEW w \in Web, Enqueue(w)
      PROVE  RunningHasExecutor'
  BY <1>0, <1>4 DEF Enqueue, Update
<1>5. ASSUME NEW w \in Web, Cancel(w)
      PROVE  RunningHasExecutor'
  BY <1>0, <1>5 DEF Cancel
<1>6. ASSUME NEW w \in Web, Stop(w)
      PROVE  RunningHasExecutor'
  BY <1>0, <1>6 DEF Stop
<1>7. ASSUME NEW w \in Web, Commit(w)
      PROVE  RunningHasExecutor'
  BY SMTT(40), <1>0, <1>7, WrittenIs DEF Commit, Known
<1>8. ASSUME NEW w \in Web, Destroy(w)
      PROVE  RunningHasExecutor'
  BY <1>0, <1>8 DEF Destroy
<1>9. ASSUME NEW p \in Workers, Fetch(p)
      PROVE  RunningHasExecutor'
  BY <1>0, <1>9 DEF Fetch, UnchangedWeb, Performance, NoJob, Known
<1>10. ASSUME NEW p \in Workers, CheckSignal(p)
      PROVE  RunningHasExecutor'
  BY <1>0, <1>10 DEF CheckSignal, UnchangedWeb, Performance, NoJob, Drop, Known
<1>11. ASSUME NEW p \in Workers, Find(p)
      PROVE  RunningHasExecutor'
  BY <1>0, <1>11 DEF Find, UnchangedWeb, Performance, NoJob
<1>12. ASSUME NEW p \in Workers, FindNothing(p)
      PROVE  RunningHasExecutor'
  BY <1>0, <1>12 DEF FindNothing, UnchangedWeb, Performance, NoJob, Drop
<1>13. ASSUME NEW p \in Workers, Start(p)
      PROVE  RunningHasExecutor'
  BY SMTT(40), <1>0, <1>13, WrittenIs DEF Start, UnchangedWeb, Performance
<1>14. ASSUME NEW p \in Workers, StartRefused(p)
      PROVE  RunningHasExecutor'
  BY <1>0, <1>14 DEF StartRefused, UnchangedWeb, Performance, NoJob, Step
<1>15. ASSUME NEW p \in Workers, RunReturns(p)
      PROVE  RunningHasExecutor'
  BY <1>0, <1>15 DEF RunReturns, UnchangedWeb, Performance, NoJob, Step
<1>16. ASSUME NEW p \in Workers, RunRaises(p)
      PROVE  RunningHasExecutor'
  BY <1>0, <1>16 DEF RunRaises, UnchangedWeb, Performance, NoJob, Step
<1>17. ASSUME NEW p \in Workers, Judge(p)
      PROVE  RunningHasExecutor'
  BY <1>0, <1>17 DEF Judge, UnchangedWeb, Performance, NoJob, Step
<1>18. ASSUME NEW p \in Workers, WriteStop(p)
      PROVE  RunningHasExecutor'
  BY <1>0, <1>18 DEF WriteStop, UnchangedWeb, Performance, NoJob, Write, Drop, Written, Transitions, Known
<1>19. ASSUME NEW p \in Workers, WriteComplete(p)
      PROVE  RunningHasExecutor'
  BY <1>0, <1>19 DEF WriteComplete, UnchangedWeb, Performance, NoJob, Write, Drop, Written, Transitions, Known
<1>20. ASSUME NEW p \in Workers, WriteErrors(p)
      PROVE  RunningHasExecutor'
  BY <1>0, <1>20 DEF WriteErrors, UnchangedWeb, Performance, NoJob, Write, Drop, Written, Transitions, Known
<1>21. ASSUME NEW p \in Workers, ErrorsRefused(p)
      PROVE  RunningHasExecutor'
  BY <1>0, <1>21 DEF ErrorsRefused, UnchangedWeb, Performance, NoJob, Drop
<1>22. ASSUME NEW p \in Workers, Terminate(p)
      PROVE  RunningHasExecutor'
  <2> SUFFICES ASSUME NEW t \in Runs, row'[t].state = "running",
                      harm'[t] \cap {"kill", "shutdown"} = {}
               PROVE  \E q \in Workers : worker'[q].run = t /\ worker'[q].started
    OBVIOUS
  <2>1. row' = row /\ worker' = [worker EXCEPT ![p] = NoJob]
    BY <1>22 DEF Terminate, Dies
  <2>2. harm[t] \cap {"kill", "shutdown"} = {}
    BY <1>0, <1>22 DEF Terminate, Dies, Known
  <2>3. PICK q \in Workers : worker[q].run = t /\ worker[q].started
    BY <2>1, <2>2
  <2>4. q # p
    <3>1. SUFFICES ASSUME q = p PROVE FALSE
      OBVIOUS
    <3>2. worker[p].pc # "idle" /\ t = worker[p].run
      BY <2>3, <3>1 DEF Known
    <3>3. Dies(p, "shutdown")
      BY <1>22, <3>2 DEF Terminate
    <3>4. QED
      BY <1>0, <3>2, <3>3 DEF Dies
  <2>5. QED
    BY <1>0, <2>1, <2>3, <2>4
<1>23. ASSUME NEW p \in Workers, Kill(p)
      PROVE  RunningHasExecutor'
  <2> SUFFICES ASSUME NEW t \in Runs, row'[t].state = "running",
                      harm'[t] \cap {"kill", "shutdown"} = {}
               PROVE  \E q \in Workers : worker'[q].run = t /\ worker'[q].started
    OBVIOUS
  <2>1. row' = row /\ worker' = [worker EXCEPT ![p] = NoJob]
    BY <1>23 DEF Kill, Dies
  <2>2. harm[t] \cap {"kill", "shutdown"} = {}
    BY <1>0, <1>23 DEF Kill, Dies, Known
  <2>3. PICK q \in Workers : worker[q].run = t /\ worker[q].started
    BY <2>1, <2>2
  <2>4. q # p
    <3>1. SUFFICES ASSUME q = p PROVE FALSE
      OBVIOUS
    <3>2. worker[p].pc # "idle" /\ t = worker[p].run
      BY <2>3, <3>1 DEF Known
    <3>3. Dies(p, "kill")
      BY <1>23, <3>2 DEF Kill
    <3>4. QED
      BY <1>0, <3>2, <3>3 DEF Dies
  <2>5. QED
    BY <1>0, <2>1, <2>3, <2>4
<1>24. ASSUME NEW p \in Workers, Requeue(p)
      PROVE  RunningHasExecutor'
  BY <1>0, <1>24 DEF Requeue, UnchangedWeb, Performance, NoJob
<1>25. ASSUME NEW p \in Workers, CheckSignalFails(p)
      PROVE  RunningHasExecutor'
  BY <1>0, <1>25 DEF CheckSignalFails, UnchangedWeb, Performance, NoJob, Step
<1>26. ASSUME NEW p \in Workers, NEW j \in Jids, Poll(p, j)
      PROVE  RunningHasExecutor'
  BY <1>0, <1>26 DEF Poll, UnchangedWeb, Performance, NoJob, Holds
<1>27. ASSUME NEW p \in Workers, NEW j \in Jids, PollerEnds(p, j)
      PROVE  RunningHasExecutor'
  BY <1>0, <1>27 DEF PollerEnds, UnchangedWeb, Performance, NoJob
<1>28. ASSUME NEW w \in Web, Crash(w)
      PROVE  RunningHasExecutor'
  BY <1>0, <1>28 DEF Crash
<1>29. ASSUME NEW t \in Runs, Orphan(t)
      PROVE  RunningHasExecutor'
  BY <1>0, <1>29 DEF Orphan
<1>30. CASE UNCHANGED vars
  BY <1>30 DEF vars
<1>31. QED
  BY <1>1, <1>2, <1>3, <1>4, <1>5, <1>6, <1>7, <1>8, <1>9, <1>10,
     <1>11, <1>12, <1>13, <1>14, <1>15, <1>16, <1>17, <1>18, <1>19,
     <1>20, <1>21, <1>22, <1>23, <1>24, <1>25, <1>26, <1>27,
     <1>28, <1>29, <1>30
  DEF Next, WebStep, WorkerStep, PollerStep, FaultStep

(***************************************************************************)
(* The theorems                                                            *)
(***************************************************************************)

(* The inductive invariant: what the steps above preserve together. *)
IInv == /\ TypeOK
        /\ Known
        /\ OneHolder
        /\ Judged
        /\ CompleteHasResults
        /\ RunningHasExecutor

(* The initial states are in the invariant.                                *)
LEMMA Initially == Init => IInv
<1> SUFFICES ASSUME Init PROVE IInv
  OBVIOUS
<1> USE NoneAssumption DEF Init
<1>1. TypeOK
  <2>1. NoRequest \in Request
    BY DEF NoRequest, Request, Jid, RowStates
  <2>2. NoJob \in Performance
    BY DEF NoJob, Performance, Jid, RowStates
  <2>3. queue \in Seq(Jids)
    BY EmptySeq
  <2>4. faults \in 0..MaxFaults
    BY MaxFaultsAssumption
  <2>5. QED
    BY <2>1, <2>2, <2>3, <2>4 DEF TypeOK, Jid, RowStates
<1>2. Known /\ OneHolder
  BY DEF Known, OneHolder, Holds, NoRequest, NoJob, NoDuplicates, Range
<1>3. Judged /\ CompleteHasResults /\ RunningHasExecutor
  BY DEF Judged, CompleteHasResults, RunningHasExecutor, NoJob
<1>4. QED
  BY <1>1, <1>2, <1>3 DEF IInv

(* No step leaves the invariant.                                           *)
LEMMA Inductive == IInv /\ [Next]_vars => IInv'
BY TypeStep, KnownStep, OneHolderStep, JudgedStep, CompleteHasResultsStep,
   RunningHasExecutorStep DEF IInv

(* The inductive invariant of the life of test runs (TestRunsController,   *)
(* TestRunWorker).                                                         *)
THEOREM Invariance == Spec => []IInv
BY Initially, Inductive, PTL DEF Spec

(* Every variable keeps its type. *)
THEOREM TypeCorrect == Spec => []TypeOK
<1>1. IInv => TypeOK
  BY DEF IInv
<1>2. QED
  BY <1>1, Invariance, PTL

(* However many processes there are and whatever goes wrong, two workers   *)
(* hold one job only while one of them is shutting down.                   *)
THEOREM JobHasOneHolder == Spec => []OneHolder
<1>1. IInv => OneHolder
  BY DEF IInv
<1>2. QED
  BY <1>1, Invariance, PTL

(* A run shown as complete has its results in the database, wherever the   *)
(* listener thread sets the stop flag.                                     *)
THEOREM CompleteRunsHaveResults == Spec => []CompleteHasResults
<1>1. IInv => CompleteHasResults
  BY DEF IInv
<1>2. QED
  BY <1>1, Invariance, PTL

(* A run shown as running is executed by some worker, unless its worker    *)
(* process was killed or shut down.                                        *)
THEOREM RunningRunsHaveExecutors == Spec => []RunningHasExecutor
<1>1. IInv => RunningHasExecutor
  BY DEF IInv
<1>2. QED
  BY <1>1, Invariance, PTL

(***************************************************************************)
(* Whose performance a stop signal can reach, for every number of runs,    *)
(* jobs, processes and faults.  The signals are jids in one Redis set for  *)
(* all runs, and three actors write them from three copies of the row: a   *)
(* request, the worker's own stop!, and a job that comes back.             *)
(***************************************************************************)

(* A jid is the jid of a job of the run it is kept with: in the row, in    *)
(* the copy a request loaded or is about to write, and in the copy a       *)
(* worker loaded.  No jid of a job that was never pushed is asked to stop. *)
JidsOwned ==
  /\ \A t \in Runs : row[t].jid # None => jobRun[row[t].jid] = t
  /\ \A w \in Web : web[w].pc = "acted" /\ web[w].op = "enqueue"
                     => jobRun[web[w].job] = web[w].run
  /\ \A w \in Web : web[w].jid # None
                     => web[w].run \in Runs /\ jobRun[web[w].jid] = web[w].run
  /\ \A p \in Workers : worker[p].rowJid # None
                         => /\ worker[p].run \in Runs
                            /\ jobRun[worker[p].rowJid] = worker[p].run
  /\ \A j \in asked : jobRun[j] # None

(* A worker fires stop! only when its runner was stopped, and a signal     *)
(* belongs to a run some user asked to stop.                               *)
SignalsAsked ==
  /\ \A p \in Workers : worker[p].pc = "stopping" => worker[p].stopped
  /\ \A j \in stopSet : \E i \in asked : jobRun[i] = jobRun[j]

(* Every step keeps jids with their run: a job is pushed under a fresh jid, *)
(* and every copy of a jid is made together with the run it belongs to.    *)
LEMMA JidsOwnedStep ==
  ASSUME TypeOK, Known, JidsOwned, [Next]_vars
  PROVE  JidsOwned'
<1> USE DEF JidsOwned, dbVars, jobVars, histVars, Jid
<1>0. /\ row \in [Runs -> [state : RowStates, jid : Jid]]
      /\ jobRun \in [Jids -> Runs \cup {None}]
      /\ web \in [Web -> Request]
      /\ worker \in [Workers -> Performance]
      /\ stopSet \subseteq Jids /\ asked \subseteq Jids
  BY DEF TypeOK
<1>1. ASSUME NEW t \in Runs, Create(t)
      PROVE  JidsOwned'
  BY <1>0, <1>1 DEF Create
<1>2. ASSUME NEW w \in Web, NEW op \in Ops, NEW t \in Runs, Load(w, op, t)
      PROVE  JidsOwned'
  BY <1>0, <1>2 DEF Load, NoRequest, Request
<1>3. ASSUME NEW w \in Web, Refuse(w)
      PROVE  JidsOwned'
  BY <1>0, <1>3 DEF Refuse, NoRequest, Request
<1>4. ASSUME NEW w \in Web, Enqueue(w)
      PROVE  JidsOwned'
  <2>1. web[w].run \in Runs
    BY <1>4 DEF Enqueue, Reading, Known
  <2>2. PICK j \in Jids : /\ jobRun[j] = None
                          /\ web' = [web EXCEPT ![w].pc = "acted", ![w].job = j]
                          /\ jobRun' = [jobRun EXCEPT ![j] = web[w].run]
    BY <1>4 DEF Enqueue, Update
  <2>3. /\ jobRun'[j] = web[w].run
        /\ \A i \in Jids : jobRun[i] # None => i # j /\ jobRun'[i] = jobRun[i]
    BY <1>0, <2>2
  <2>4. row' = row /\ worker' = worker /\ asked' = asked /\ stopSet' = stopSet
    BY <1>4 DEF Enqueue
  <2>5. /\ web'[w].job = j /\ web'[w].run = web[w].run /\ web'[w].jid = web[w].jid
        /\ \A v \in Web \ {w} : web'[v] = web[v]
    BY <1>0, <2>2 DEF Request
  <2>6. /\ \A t \in Runs : row[t].jid # None => row[t].jid \in Jids
        /\ \A v \in Web : web[v].jid # None => web[v].jid \in Jids
        /\ \A v \in Web : web[v].pc = "acted" /\ web[v].op = "enqueue"
                           => web[v].job \in Jids /\ web[v].run \in Runs
        /\ \A p \in Workers : worker[p].rowJid # None => worker[p].rowJid \in Jids
    BY <1>0 DEF Request, Performance, Known
  <2>7. \A t \in Runs : row'[t].jid # None => jobRun'[row'[t].jid] = t
    BY <2>3, <2>4, <2>6, NoneAssumption
  <2>8. \A v \in Web : web'[v].pc = "acted" /\ web'[v].op = "enqueue"
                        => jobRun'[web'[v].job] = web'[v].run
    BY <2>3, <2>5, <2>6, NoneAssumption
  <2>9. \A v \in Web : web'[v].jid # None
                        => web'[v].run \in Runs /\ jobRun'[web'[v].jid] = web'[v].run
    BY <2>3, <2>5, <2>6, NoneAssumption
  <2>10. \A p \in Workers : worker'[p].rowJid # None
                             => /\ worker'[p].run \in Runs
                                /\ jobRun'[worker'[p].rowJid] = worker'[p].run
    BY <2>3, <2>4, <2>6, NoneAssumption
  <2>11. \A i \in asked' : jobRun'[i] # None
    BY <1>0, <2>3, <2>4
  <2>12. QED
    BY <2>7, <2>8, <2>9, <2>10, <2>11
<1>5. ASSUME NEW w \in Web, Cancel(w)
      PROVE  JidsOwned'
  <2>1. /\ web'[w].op = web[w].op /\ web[w].op # "enqueue"
        /\ web'[w].run = web[w].run /\ web'[w].jid = web[w].jid
        /\ \A v \in Web \ {w} : web'[v] = web[v]
    BY <1>0, <1>5 DEF Cancel, Update, Reading, Request
  <2>2. /\ row' = row /\ worker' = worker /\ jobRun' = jobRun
        /\ asked' \subseteq asked \cup ({web[w].jid} \ {None})
    BY <1>5 DEF Cancel
  <2>3. \A j \in asked' : jobRun'[j] # None
    BY <2>2, NoneAssumption
  <2>4. QED
    BY <2>1, <2>2, <2>3
<1>6. ASSUME NEW w \in Web, Stop(w)
      PROVE  JidsOwned'
  <2>1. /\ web'[w].op = web[w].op /\ web[w].op # "enqueue"
        /\ web'[w].run = web[w].run /\ web'[w].jid = web[w].jid
        /\ \A v \in Web \ {w} : web'[v] = web[v]
    BY <1>0, <1>6 DEF Stop, Update, Reading, Request
  <2>2. /\ row' = row /\ worker' = worker /\ jobRun' = jobRun
        /\ asked' \subseteq asked \cup ({web[w].jid} \ {None})
    BY <1>6 DEF Stop
  <2>3. \A j \in asked' : jobRun'[j] # None
    BY <2>2, NoneAssumption
  <2>4. QED
    BY <2>1, <2>2, <2>3
<1>7. ASSUME NEW w \in Web, Commit(w)
      PROVE  JidsOwned'
  BY SMTT(40), <1>0, <1>7 DEF Commit, NoRequest, Request, Known
<1>8. ASSUME NEW w \in Web, Destroy(w)
      PROVE  JidsOwned'
  BY <1>0, <1>8 DEF Destroy, NoRequest, Request
<1>9. ASSUME NEW p \in Workers, Fetch(p)
      PROVE  JidsOwned'
  BY <1>0, <1>9 DEF Fetch, UnchangedWeb, NoJob, Performance
<1>10. ASSUME NEW p \in Workers, CheckSignal(p)
      PROVE  JidsOwned'
  BY <1>0, <1>10 DEF CheckSignal, UnchangedWeb, Drop, NoJob, Performance
<1>11. ASSUME NEW p \in Workers, Find(p)
      PROVE  JidsOwned'
  BY SMTT(40), <1>0, <1>11 DEF Find, UnchangedWeb, NoJob, Performance, Known
<1>12. ASSUME NEW p \in Workers, FindNothing(p)
      PROVE  JidsOwned'
  BY <1>0, <1>12 DEF FindNothing, UnchangedWeb, Drop, NoJob, Performance
<1>13. ASSUME NEW p \in Workers, Start(p)
      PROVE  JidsOwned'
  BY <1>0, <1>13 DEF Start, UnchangedWeb, NoJob, Performance
<1>14. ASSUME NEW p \in Workers, StartRefused(p)
      PROVE  JidsOwned'
  BY <1>0, <1>14 DEF StartRefused, UnchangedWeb, Step, NoJob, Performance
<1>15. ASSUME NEW p \in Workers, RunReturns(p)
      PROVE  JidsOwned'
  BY <1>0, <1>15 DEF RunReturns, UnchangedWeb, Step, NoJob, Performance
<1>16. ASSUME NEW p \in Workers, RunRaises(p)
      PROVE  JidsOwned'
  BY <1>0, <1>16 DEF RunRaises, UnchangedWeb, Step, NoJob, Performance
<1>17. ASSUME NEW p \in Workers, Judge(p)
      PROVE  JidsOwned'
  BY <1>0, <1>17 DEF Judge, UnchangedWeb, Step, NoJob, Performance
<1>18. ASSUME NEW p \in Workers, WriteStop(p)
      PROVE  JidsOwned'
  BY <1>0, <1>18 DEF WriteStop, UnchangedWeb, Write, Drop, NoJob, Performance
<1>19. ASSUME NEW p \in Workers, WriteComplete(p)
      PROVE  JidsOwned'
  BY <1>0, <1>19 DEF WriteComplete, UnchangedWeb, Write, Drop, NoJob, Performance
<1>20. ASSUME NEW p \in Workers, WriteErrors(p)
      PROVE  JidsOwned'
  BY <1>0, <1>20 DEF WriteErrors, UnchangedWeb, Write, Drop, NoJob, Performance
<1>22. ASSUME NEW p \in Workers, ErrorsRefused(p)
      PROVE  JidsOwned'
  BY <1>0, <1>22 DEF ErrorsRefused, UnchangedWeb, Drop, NoJob, Performance
<1>23. ASSUME NEW p \in Workers, Terminate(p)
      PROVE  JidsOwned'
  <2>1. worker' = [worker EXCEPT ![p] = NoJob]
    BY <1>23 DEF Terminate, Dies
  <2>2. row' = row /\ web' = web /\ jobRun' = jobRun /\ asked' = asked
    BY <1>23 DEF Terminate, UnchangedWeb
  <2>3. worker'[p].rowJid = None /\ \A q \in Workers \ {p} : worker'[q] = worker[q]
    BY <1>0, <2>1 DEF NoJob
  <2>4. QED
    BY <2>2, <2>3
<1>24. ASSUME NEW p \in Workers, Kill(p)
      PROVE  JidsOwned'
  BY <1>0, <1>24 DEF Kill, UnchangedWeb, Dies, NoJob, Performance
<1>25. ASSUME NEW p \in Workers, Requeue(p)
      PROVE  JidsOwned'
  BY <1>0, <1>25 DEF Requeue, UnchangedWeb, NoJob, Performance
<1>26. ASSUME NEW p \in Workers, CheckSignalFails(p)
      PROVE  JidsOwned'
  BY <1>0, <1>26 DEF CheckSignalFails, UnchangedWeb, Step, NoJob, Performance
<1>27. ASSUME NEW p \in Workers, NEW j \in Jids, Poll(p, j)
      PROVE  JidsOwned'
  BY <1>0, <1>27 DEF Poll, UnchangedWeb, Holds, NoJob, Performance
<1>28. ASSUME NEW p \in Workers, NEW j \in Jids, PollerEnds(p, j)
      PROVE  JidsOwned'
  BY <1>0, <1>28 DEF PollerEnds, UnchangedWeb
<1>29. ASSUME NEW w \in Web, Crash(w)
      PROVE  JidsOwned'
  BY <1>0, <1>29 DEF Crash, NoRequest, Request
<1>30. ASSUME NEW t \in Runs, Orphan(t)
      PROVE  JidsOwned'
  BY <1>0, <1>30 DEF Orphan
<1>31. CASE UNCHANGED vars
  BY <1>31 DEF vars
<1>32. QED
  BY <1>1, <1>2, <1>3, <1>4, <1>5, <1>6, <1>7, <1>8, <1>9,
     <1>10, <1>11, <1>12, <1>13, <1>14, <1>15, <1>16, <1>17, <1>18,
     <1>19, <1>20, <1>22, <1>23, <1>24, <1>25, <1>26, <1>27,
     <1>28, <1>29, <1>30, <1>31
  DEF Next, WebStep, WorkerStep, PollerStep, FaultStep

(* Every step keeps the signals those of runs a user asked to stop.        *)
LEMMA SignalsAskedStep ==
  ASSUME TypeOK, Known, JidsOwned, SignalsAsked, NoUnaskedStop, [Next]_vars
  PROVE  SignalsAsked'
<1> USE DEF SignalsAsked, dbVars, jobVars, histVars, Jid
<1>0. /\ row \in [Runs -> [state : RowStates, jid : Jid]]
      /\ jobRun \in [Jids -> Runs \cup {None}]
      /\ web \in [Web -> Request]
      /\ worker \in [Workers -> Performance]
      /\ stopSet \subseteq Jids /\ asked \subseteq Jids
  BY DEF TypeOK
<1>1. ASSUME NEW t \in Runs, Create(t)
      PROVE  SignalsAsked'
  BY <1>0, <1>1 DEF Create
<1>2. ASSUME NEW w \in Web, NEW op \in Ops, NEW t \in Runs, Load(w, op, t)
      PROVE  SignalsAsked'
  BY <1>0, <1>2 DEF Load, NoRequest, Request
<1>3. ASSUME NEW w \in Web, Refuse(w)
      PROVE  SignalsAsked'
  BY <1>0, <1>3 DEF Refuse, NoRequest, Request
<1>4. ASSUME NEW w \in Web, Enqueue(w)
      PROVE  SignalsAsked'
  <2>1. web[w].run \in Runs
    BY <1>4 DEF Enqueue, Reading, Known
  <2>2. PICK j \in Jids : /\ jobRun[j] = None
                          /\ web' = [web EXCEPT ![w].pc = "acted", ![w].job = j]
                          /\ jobRun' = [jobRun EXCEPT ![j] = web[w].run]
    BY <1>4 DEF Enqueue, Update
  <2>3. /\ jobRun'[j] = web[w].run
        /\ \A i \in Jids : jobRun[i] # None => i # j /\ jobRun'[i] = jobRun[i]
    BY <1>0, <2>2
  <2>4. row' = row /\ worker' = worker /\ asked' = asked /\ stopSet' = stopSet
    BY <1>4 DEF Enqueue
  <2>5. \A i \in asked : jobRun[i] # None /\ i \in Jids
    BY <1>0 DEF JidsOwned
  <2>6. QED
    BY <1>0, <2>3, <2>4, <2>5
<1>5. ASSUME NEW w \in Web, Cancel(w)
      PROVE  SignalsAsked'
  BY <1>0, <1>5 DEF Cancel, Update, NoRequest, Request
<1>6. ASSUME NEW w \in Web, Stop(w)
      PROVE  SignalsAsked'
  BY <1>0, <1>6 DEF Stop, Update, NoRequest, Request
<1>7. ASSUME NEW w \in Web, Commit(w)
      PROVE  SignalsAsked'
  BY <1>0, <1>7 DEF Commit, NoRequest, Request, Known
<1>8. ASSUME NEW w \in Web, Destroy(w)
      PROVE  SignalsAsked'
  BY <1>0, <1>8 DEF Destroy, NoRequest, Request
<1>9. ASSUME NEW p \in Workers, Fetch(p)
      PROVE  SignalsAsked'
  BY <1>0, <1>9 DEF Fetch, UnchangedWeb, NoJob, Performance
<1>10. ASSUME NEW p \in Workers, CheckSignal(p)
      PROVE  SignalsAsked'
  BY <1>0, <1>10 DEF CheckSignal, UnchangedWeb, Drop, NoJob, Performance
<1>11. ASSUME NEW p \in Workers, Find(p)
      PROVE  SignalsAsked'
  BY <1>0, <1>11 DEF Find, UnchangedWeb, NoJob, Performance, Known
<1>12. ASSUME NEW p \in Workers, FindNothing(p)
      PROVE  SignalsAsked'
  BY <1>0, <1>12 DEF FindNothing, UnchangedWeb, Drop, NoJob, Performance
<1>13. ASSUME NEW p \in Workers, Start(p)
      PROVE  SignalsAsked'
  BY <1>0, <1>13 DEF Start, UnchangedWeb, NoJob, Performance
<1>14. ASSUME NEW p \in Workers, StartRefused(p)
      PROVE  SignalsAsked'
  BY <1>0, <1>14 DEF StartRefused, UnchangedWeb, Step, NoJob, Performance
<1>15. ASSUME NEW p \in Workers, RunReturns(p)
      PROVE  SignalsAsked'
  BY <1>0, <1>15 DEF RunReturns, UnchangedWeb, Step, NoJob, Performance
<1>16. ASSUME NEW p \in Workers, RunRaises(p)
      PROVE  SignalsAsked'
  BY <1>0, <1>16 DEF RunRaises, UnchangedWeb, Step, NoJob, Performance
<1>17. ASSUME NEW p \in Workers, Judge(p)
      PROVE  SignalsAsked'
  BY <1>0, <1>17 DEF Judge, UnchangedWeb, Step, NoJob, Performance
<1>18. ASSUME NEW p \in Workers, WriteStop(p)
      PROVE  SignalsAsked'
  <2>1. worker[p].stopped /\ stopSet' = stopSet \cup ({worker[p].rowJid} \ {None})
    BY <1>18 DEF WriteStop, Write
  <2>2. asked' = asked /\ jobRun' = jobRun
    BY <1>18 DEF WriteStop, UnchangedWeb
  <2>3. \A j \in stopSet' : \E i \in asked' : jobRun'[i] = jobRun'[j]
    <3>1. PICK i \in asked : jobRun[i] = worker[p].run
      BY <2>1 DEF NoUnaskedStop
    <3>2. worker[p].rowJid # None => jobRun[worker[p].rowJid] = jobRun[i]
      BY <3>1 DEF JidsOwned
    <3>3. QED
      BY <2>1, <2>2, <3>1, <3>2
  <2>4. worker' = [worker EXCEPT ![p] = Drop(p)]
    BY <1>18 DEF WriteStop, Write
  <2>5. Drop(p).pc = "idle"
    BY DEF Drop, NoJob
  <2>6. \A q \in Workers : worker'[q].pc = "stopping" => worker'[q].stopped
    BY <1>0, <2>4, <2>5
  <2>7. QED
    BY <2>3, <2>6
<1>19. ASSUME NEW p \in Workers, WriteComplete(p)
      PROVE  SignalsAsked'
  BY <1>0, <1>19 DEF WriteComplete, UnchangedWeb, Write, Drop, NoJob, Performance
<1>20. ASSUME NEW p \in Workers, WriteErrors(p)
      PROVE  SignalsAsked'
  BY <1>0, <1>20 DEF WriteErrors, UnchangedWeb, Write, Drop, NoJob, Performance
<1>22. ASSUME NEW p \in Workers, ErrorsRefused(p)
      PROVE  SignalsAsked'
  BY <1>0, <1>22 DEF ErrorsRefused, UnchangedWeb, Drop, NoJob, Performance
<1>23. ASSUME NEW p \in Workers, Terminate(p)
      PROVE  SignalsAsked'
  BY <1>0, <1>23 DEF Terminate, UnchangedWeb, Dies, NoJob, Performance
<1>24. ASSUME NEW p \in Workers, Kill(p)
      PROVE  SignalsAsked'
  BY <1>0, <1>24 DEF Kill, UnchangedWeb, Dies, NoJob, Performance
<1>25. ASSUME NEW p \in Workers, Requeue(p)
      PROVE  SignalsAsked'
  BY <1>0, <1>25 DEF Requeue, UnchangedWeb, NoJob, Performance
<1>26. ASSUME NEW p \in Workers, CheckSignalFails(p)
      PROVE  SignalsAsked'
  BY <1>0, <1>26 DEF CheckSignalFails, UnchangedWeb, Step, NoJob, Performance
<1>27. ASSUME NEW p \in Workers, NEW j \in Jids, Poll(p, j)
      PROVE  SignalsAsked'
  BY <1>0, <1>27 DEF Poll, UnchangedWeb, Holds, NoJob, Performance
<1>28. ASSUME NEW p \in Workers, NEW j \in Jids, PollerEnds(p, j)
      PROVE  SignalsAsked'
  BY <1>0, <1>28 DEF PollerEnds, UnchangedWeb
<1>29. ASSUME NEW w \in Web, Crash(w)
      PROVE  SignalsAsked'
  BY <1>0, <1>29 DEF Crash, NoRequest, Request
<1>30. ASSUME NEW t \in Runs, Orphan(t)
      PROVE  SignalsAsked'
  BY <1>0, <1>30 DEF Orphan
<1>31. CASE UNCHANGED vars
  BY <1>31 DEF vars
<1>32. QED
  BY <1>1, <1>2, <1>3, <1>4, <1>5, <1>6, <1>7, <1>8, <1>9,
     <1>10, <1>11, <1>12, <1>13, <1>14, <1>15, <1>16, <1>17, <1>18,
     <1>19, <1>20, <1>22, <1>23, <1>24, <1>25, <1>26, <1>27,
     <1>28, <1>29, <1>30, <1>31
  DEF Next, WebStep, WorkerStep, PollerStep, FaultStep

(* Every step keeps stops asked for: a poll finds the jid of its own job.  *)
LEMMA NoUnaskedStopStep ==
  ASSUME TypeOK, Known, JidsOwned, SignalsAsked, NoUnaskedStop, [Next]_vars
  PROVE  NoUnaskedStop'
<1> USE DEF NoUnaskedStop, dbVars, jobVars, histVars, Jid
<1>0. /\ row \in [Runs -> [state : RowStates, jid : Jid]]
      /\ jobRun \in [Jids -> Runs \cup {None}]
      /\ web \in [Web -> Request]
      /\ worker \in [Workers -> Performance]
      /\ stopSet \subseteq Jids /\ asked \subseteq Jids
  BY DEF TypeOK
<1>1. ASSUME NEW t \in Runs, Create(t)
      PROVE  NoUnaskedStop'
  BY <1>0, <1>1 DEF Create
<1>2. ASSUME NEW w \in Web, NEW op \in Ops, NEW t \in Runs, Load(w, op, t)
      PROVE  NoUnaskedStop'
  BY <1>0, <1>2 DEF Load, NoRequest, Request
<1>3. ASSUME NEW w \in Web, Refuse(w)
      PROVE  NoUnaskedStop'
  BY <1>0, <1>3 DEF Refuse, NoRequest, Request
<1>4. ASSUME NEW w \in Web, Enqueue(w)
      PROVE  NoUnaskedStop'
  <2>1. web[w].run \in Runs
    BY <1>4 DEF Enqueue, Reading, Known
  <2>2. PICK j \in Jids : /\ jobRun[j] = None
                          /\ web' = [web EXCEPT ![w].pc = "acted", ![w].job = j]
                          /\ jobRun' = [jobRun EXCEPT ![j] = web[w].run]
    BY <1>4 DEF Enqueue, Update
  <2>3. /\ jobRun'[j] = web[w].run
        /\ \A i \in Jids : jobRun[i] # None => i # j /\ jobRun'[i] = jobRun[i]
    BY <1>0, <2>2
  <2>4. row' = row /\ worker' = worker /\ asked' = asked /\ stopSet' = stopSet
    BY <1>4 DEF Enqueue
  <2>5. \A i \in asked : jobRun[i] # None /\ i \in Jids
    BY <1>0 DEF JidsOwned
  <2>6. QED
    BY <2>3, <2>4, <2>5
<1>5. ASSUME NEW w \in Web, Cancel(w)
      PROVE  NoUnaskedStop'
  BY <1>0, <1>5 DEF Cancel, Update, NoRequest, Request
<1>6. ASSUME NEW w \in Web, Stop(w)
      PROVE  NoUnaskedStop'
  BY <1>0, <1>6 DEF Stop, Update, NoRequest, Request
<1>7. ASSUME NEW w \in Web, Commit(w)
      PROVE  NoUnaskedStop'
  BY <1>0, <1>7 DEF Commit, NoRequest, Request, Known
<1>8. ASSUME NEW w \in Web, Destroy(w)
      PROVE  NoUnaskedStop'
  BY <1>0, <1>8 DEF Destroy, NoRequest, Request
<1>9. ASSUME NEW p \in Workers, Fetch(p)
      PROVE  NoUnaskedStop'
  BY <1>0, <1>9 DEF Fetch, UnchangedWeb, NoJob, Performance
<1>10. ASSUME NEW p \in Workers, CheckSignal(p)
      PROVE  NoUnaskedStop'
  BY <1>0, <1>10 DEF CheckSignal, UnchangedWeb, Drop, NoJob, Performance
<1>11. ASSUME NEW p \in Workers, Find(p)
      PROVE  NoUnaskedStop'
  BY <1>0, <1>11 DEF Find, UnchangedWeb, NoJob, Performance, Known
<1>12. ASSUME NEW p \in Workers, FindNothing(p)
      PROVE  NoUnaskedStop'
  BY <1>0, <1>12 DEF FindNothing, UnchangedWeb, Drop, NoJob, Performance
<1>13. ASSUME NEW p \in Workers, Start(p)
      PROVE  NoUnaskedStop'
  BY <1>0, <1>13 DEF Start, UnchangedWeb, NoJob, Performance
<1>14. ASSUME NEW p \in Workers, StartRefused(p)
      PROVE  NoUnaskedStop'
  BY <1>0, <1>14 DEF StartRefused, UnchangedWeb, Step, NoJob, Performance
<1>15. ASSUME NEW p \in Workers, RunReturns(p)
      PROVE  NoUnaskedStop'
  BY <1>0, <1>15 DEF RunReturns, UnchangedWeb, Step, NoJob, Performance
<1>16. ASSUME NEW p \in Workers, RunRaises(p)
      PROVE  NoUnaskedStop'
  BY <1>0, <1>16 DEF RunRaises, UnchangedWeb, Step, NoJob, Performance
<1>17. ASSUME NEW p \in Workers, Judge(p)
      PROVE  NoUnaskedStop'
  BY <1>0, <1>17 DEF Judge, UnchangedWeb, Step, NoJob, Performance
<1>18. ASSUME NEW p \in Workers, WriteStop(p)
      PROVE  NoUnaskedStop'
  BY <1>0, <1>18 DEF WriteStop, UnchangedWeb, Write, Drop, NoJob, Performance
<1>19. ASSUME NEW p \in Workers, WriteComplete(p)
      PROVE  NoUnaskedStop'
  BY <1>0, <1>19 DEF WriteComplete, UnchangedWeb, Write, Drop, NoJob, Performance
<1>20. ASSUME NEW p \in Workers, WriteErrors(p)
      PROVE  NoUnaskedStop'
  BY <1>0, <1>20 DEF WriteErrors, UnchangedWeb, Write, Drop, NoJob, Performance
<1>22. ASSUME NEW p \in Workers, ErrorsRefused(p)
      PROVE  NoUnaskedStop'
  BY <1>0, <1>22 DEF ErrorsRefused, UnchangedWeb, Drop, NoJob, Performance
<1>23. ASSUME NEW p \in Workers, Terminate(p)
      PROVE  NoUnaskedStop'
  BY <1>0, <1>23 DEF Terminate, UnchangedWeb, Dies, NoJob, Performance
<1>24. ASSUME NEW p \in Workers, Kill(p)
      PROVE  NoUnaskedStop'
  BY <1>0, <1>24 DEF Kill, UnchangedWeb, Dies, NoJob, Performance
<1>25. ASSUME NEW p \in Workers, Requeue(p)
      PROVE  NoUnaskedStop'
  BY <1>0, <1>25 DEF Requeue, UnchangedWeb, NoJob, Performance
<1>26. ASSUME NEW p \in Workers, CheckSignalFails(p)
      PROVE  NoUnaskedStop'
  BY <1>0, <1>26 DEF CheckSignalFails, UnchangedWeb, Step, NoJob, Performance
<1>27. ASSUME NEW p \in Workers, NEW j \in Jids, Poll(p, j)
      PROVE  NoUnaskedStop'
  <2>1. PICK i \in asked : jobRun[i] = jobRun[j]
    BY <1>27 DEF Poll, SignalsAsked
  <2>2. asked' = asked /\ jobRun' = jobRun
    BY <1>27 DEF Poll, UnchangedWeb
  <2>3. CASE Holds(p, j)
    <3>1. jobRun[j] = worker[p].run
      BY <2>3 DEF Holds, Known
    <3>2. worker'[p].run = worker[p].run /\ \A q \in Workers \ {p} : worker'[q] = worker[q]
      BY <1>0, <2>3, <1>27 DEF Poll, Performance
    <3>3. QED
      BY <2>1, <2>2, <3>1, <3>2
  <2>4. CASE ~Holds(p, j)
    <3>1. worker' = worker
      BY <2>4, <1>27 DEF Poll
    <3>2. QED
      BY <2>2, <3>1
  <2>5. QED
    BY <2>3, <2>4
<1>28. ASSUME NEW p \in Workers, NEW j \in Jids, PollerEnds(p, j)
      PROVE  NoUnaskedStop'
  BY <1>0, <1>28 DEF PollerEnds, UnchangedWeb
<1>29. ASSUME NEW w \in Web, Crash(w)
      PROVE  NoUnaskedStop'
  BY <1>0, <1>29 DEF Crash, NoRequest, Request
<1>30. ASSUME NEW t \in Runs, Orphan(t)
      PROVE  NoUnaskedStop'
  BY <1>0, <1>30 DEF Orphan
<1>31. CASE UNCHANGED vars
  BY <1>31 DEF vars
<1>32. QED
  BY <1>1, <1>2, <1>3, <1>4, <1>5, <1>6, <1>7, <1>8, <1>9,
     <1>10, <1>11, <1>12, <1>13, <1>14, <1>15, <1>16, <1>17, <1>18,
     <1>19, <1>20, <1>22, <1>23, <1>24, <1>25, <1>26, <1>27,
     <1>28, <1>29, <1>30, <1>31
  DEF Next, WebStep, WorkerStep, PollerStep, FaultStep

(* What the steps above preserve together. *)
SInv == IInv /\ JidsOwned /\ SignalsAsked /\ NoUnaskedStop

(* The initial states are in the invariant, and no step leaves it.         *)
LEMMA SignalsInvariant == Spec => []SInv
<1>1. Init => JidsOwned /\ SignalsAsked /\ NoUnaskedStop
  BY DEF Init, JidsOwned, SignalsAsked, NoUnaskedStop, NoRequest, NoJob
<1>2. Init => SInv
  BY <1>1, Initially DEF SInv
<1>3. SInv /\ [Next]_vars => SInv'
  BY Inductive, JidsOwnedStep, SignalsAskedStep, NoUnaskedStopStep DEF SInv, IInv
<1>4. QED
  BY <1>2, <1>3, PTL DEF Spec

(* A runner is told to stop only if a user asked to stop its run, however  *)
(* many runs share the set of signals and whatever goes wrong              *)
(* (test_run.rb, 188-194; test_run_worker.rb, 33-52).                      *)
THEOREM StopsAreAsked == Spec => []NoUnaskedStop
<1>1. SInv => NoUnaskedStop
  BY DEF SInv
<1>2. QED
  BY <1>1, SignalsInvariant, PTL

(***************************************************************************)
(* Rows change by declared events on loaded copies                         *)
(***************************************************************************)

(* What the guard of an event left true of the copy it was asked of: until *)
(* the COMMIT the request, until its last write the performance.           *)
Guarded ==
  /\ \A w \in Web : web[w].pc = "acted" => CanFire(web[w].op, web[w].state)
  /\ \A p \in Workers :
       /\ worker[p].pc \in {"running", "ran", "stopping", "completing"}
            => worker[p].state = "running"
       /\ worker[p].pc \in {"found", "failed"} => worker[p].state \in States

(* The values that refine the variables of RunCopies. *)
Column == [t \in Runs |-> row[t].state]
Held   == [c \in Clients |-> Copy(c)]

WebSees(w) == Seen(web[w], {"loaded", "acted"})
WorkerSees(p) == Seen(worker[p], {"found"} \cup AfterStart)

(* RunCopies and TestRunLifecycle have the same table of events.           *)
LEMMA SameTable ==
  /\ Copies!States = States
  /\ Copies!Events = Events
  /\ Copies!Transitions = Transitions
  /\ \A event, s : Copies!CanFire(event, s) <=> CanFire(event, s)
  /\ \A event, s : Copies!Written(s, event) = Written(s, event)
<1>1. Copies!Transitions = Transitions
  BY DEF Copies!Transitions, Transitions, Copies!States, States
<1>2. QED
  BY <1>1 DEF Copies!States, States, Copies!Events, Events, Copies!CanFire, CanFire,
              Copies!Written, Written

(* Every request and every performance is a client. *)
LEMMA CopyOf ==
  /\ \A w \in Web : <<"web", w>> \in Clients /\ Copy(<<"web", w>>) = WebSees(w)
  /\ \A p \in Workers : <<"worker", p>> \in Clients
                          /\ Copy(<<"worker", p>>) = WorkerSees(p)
  /\ \A c \in Clients : \/ \E w \in Web : c = <<"web", w>>
                        \/ \E p \in Workers : c = <<"worker", p>>
BY DEF Clients, Copy, WebSees, WorkerSees

(* What a step does to the copies if it changes one of them, or none.      *)
LEMMA WebMoves ==
  ASSUME NEW w \in Web, NEW new, WebSees(w)' = new,
         \A v \in Web \ {w} : WebSees(v)' = WebSees(v),
         \A p \in Workers : WorkerSees(p)' = WorkerSees(p)
  PROVE  Held' = [Held EXCEPT ![<<"web", w>>] = new]
<1>1. ASSUME NEW c \in Clients
      PROVE  Copy(c)' = IF c = <<"web", w>> THEN new ELSE Copy(c)
  <2>1. CASE \E v \in Web : c = <<"web", v>>
    BY <2>1 DEF Copy, WebSees
  <2>2. CASE \E p \in Workers : c = <<"worker", p>>
    BY <2>2 DEF Copy, WorkerSees
  <2>3. QED
    BY <2>1, <2>2, CopyOf
<1>2. QED
  BY <1>1 DEF Held

LEMMA WorkerMoves ==
  ASSUME NEW p \in Workers, NEW new, WorkerSees(p)' = new,
         \A q \in Workers \ {p} : WorkerSees(q)' = WorkerSees(q),
         \A w \in Web : WebSees(w)' = WebSees(w)
  PROVE  Held' = [Held EXCEPT ![<<"worker", p>>] = new]
<1>1. ASSUME NEW c \in Clients
      PROVE  Copy(c)' = IF c = <<"worker", p>> THEN new ELSE Copy(c)
  <2>1. CASE \E w \in Web : c = <<"web", w>>
    BY <2>1 DEF Copy, WebSees
  <2>2. CASE \E q \in Workers : c = <<"worker", q>>
    BY <2>2 DEF Copy, WorkerSees
  <2>3. QED
    BY <2>1, <2>2, CopyOf
<1>2. QED
  BY <1>1 DEF Held

LEMMA NoCopyMoves ==
  ASSUME \A w \in Web : WebSees(w)' = WebSees(w),
         \A p \in Workers : WorkerSees(p)' = WorkerSees(p)
  PROVE  Held' = Held
<1>1. ASSUME NEW c \in Clients PROVE Copy(c)' = Copy(c)
  <2>1. CASE \E w \in Web : c = <<"web", w>>
    BY <2>1 DEF Copy, WebSees
  <2>2. CASE \E p \in Workers : c = <<"worker", p>>
    BY <2>2 DEF Copy, WorkerSees
  <2>3. QED
    BY <2>1, <2>2, CopyOf
<1>2. QED
  BY <1>1 DEF Held

(* What a step does to the column if it writes one row. *)
LEMMA ColumnMoves ==
  ASSUME NEW t \in Runs, NEW s, row'[t].state = s,
         \A u \in Runs \ {t} : row'[u].state = row[u].state
  PROVE  Column' = [Column EXCEPT ![t] = s] /\ Column[t] = row[t].state
BY DEF Column

(* An event written to the row of a copy that allows it is a step of       *)
(* RunCopies.                                                              *)
LEMMA Fires ==
  ASSUME NEW c \in Clients, NEW t \in Runs, NEW s, NEW event \in Events,
         Copy(c) = {[run |-> t, state |-> s]}, CanFire(event, s),
         row'[t].state = Written(row[t].state, event),
         \A u \in Runs \ {t} : row'[u].state = row[u].state,
         \/ Held' = [Held EXCEPT ![c] = {}]
         \/ Held' = [Held EXCEPT ![c] = {[run |-> t, state |-> Transitions[event].to]}]
  PROVE  Copies!Next
<1> DEFINE loaded == [run |-> t, state |-> s]
<1>1. loaded \in Held[c] /\ loaded.run = t /\ loaded.state = s
  BY DEF Held
<1>2. Column' = [Column EXCEPT ![t] = Written(@, event)]
  BY ColumnMoves DEF Column
<1> HIDE DEF loaded
<1>3. Copies!Fire(c, event)
  BY <1>1, <1>2, SameTable DEF Copies!Fire, Column, Held
<1>4. QED
  BY <1>3, SameTable DEF Copies!Next

(* A client that has no copy any more, and wrote nothing. *)
LEMMA Forgets ==
  ASSUME NEW c \in Clients, Column' = Column, Held' = [Held EXCEPT ![c] = {}]
  PROVE  Copies!Next
<1>1. Copies!Forget(c)
  BY DEF Copies!Forget, Column, Held
<1>2. QED
  BY <1>1 DEF Copies!Next

(* A client that loads a row. *)
LEMMA Reads ==
  ASSUME NEW c \in Clients, NEW t \in Runs, Column' = Column, Copy(c) = {},
         row[t].state \in States,
         Held' = [Held EXCEPT ![c] = {[run |-> t, state |-> row[t].state]}]
  PROVE  Copies!Next
<1>1. Copies!Read(c, t)
  BY SameTable DEF Copies!Read, Column, Held
<1>2. QED
  BY <1>1 DEF Copies!Next

LEMMA GuardedStep ==
  ASSUME TypeOK, Known, Guarded, [Next]_vars
  PROVE  Guarded'
<1> USE DEF dbVars, jobVars, histVars
<1>0. /\ web \in [Web -> Request] /\ worker \in [Workers -> Performance]
  BY DEF TypeOK
<1>a. ASSUME UNCHANGED web,
             NEW p \in Workers, worker' = [worker EXCEPT ![p] = worker'[p]],
             worker'[p].pc \in {"running", "ran", "stopping", "completing"}
               => worker'[p].state = "running",
             worker'[p].pc \in {"found", "failed"} => worker'[p].state \in States
      PROVE  Guarded'
  BY <1>0, <1>a DEF Guarded
<1>b. ASSUME UNCHANGED worker,
             NEW w \in Web, web' = [web EXCEPT ![w] = web'[w]],
             web'[w].pc = "acted" => CanFire(web'[w].op, web'[w].state)
      PROVE  Guarded'
  BY <1>0, <1>b DEF Guarded
<1>1. ASSUME NEW t \in Runs, Create(t) PROVE Guarded'
  BY <1>1 DEF Create, Guarded
<1>2. ASSUME NEW w \in Web, NEW op \in Ops, NEW t \in Runs, Load(w, op, t)
      PROVE  Guarded'
  BY <1>0, <1>2, <1>b DEF Load, NoRequest
<1>3. ASSUME NEW w \in Web, Refuse(w) \/ Commit(w) \/ Destroy(w) \/ Crash(w)
      PROVE  Guarded'
  BY <1>0, <1>3, <1>b DEF Refuse, Commit, Destroy, Crash, NoRequest
<1>4. ASSUME NEW w \in Web, Enqueue(w) \/ Cancel(w) \/ Stop(w) PROVE Guarded'
  <2>1. PICK job : web' = [web EXCEPT ![w].pc = "acted", ![w].job = job]
    BY <1>4 DEF Enqueue, Cancel, Stop, Update
  <2>2. CanFire(web[w].op, web[w].state) /\ UNCHANGED worker
    BY <1>4 DEF Enqueue, Cancel, Stop, Reading, Allowed
  <2>3. web'[w].op = web[w].op /\ web'[w].state = web[w].state
        /\ \A v \in Web \ {w} : web'[v] = web[v]
    BY <1>0, <2>1 DEF Request
  <2>4. QED
    BY <2>2, <2>3 DEF Guarded
<1>5. ASSUME NEW p \in Workers, Fetch(p) \/ CheckSignal(p) PROVE Guarded'
  <2>1. worker'[p].pc \in {"idle", "fetched", "checked"} /\ UNCHANGED web
        /\ \A q \in Workers \ {p} : worker'[q] = worker[q]
    <3>1. CASE Fetch(p)
      BY <1>0, <3>1 DEF Fetch, NoJob, UnchangedWeb
    <3>2. CASE CheckSignal(p)
      BY <1>0, <3>2 DEF CheckSignal, Drop, NoJob, UnchangedWeb, Performance
    <3>3. QED
      BY <1>5, <3>1, <3>2
  <2>2. QED
    BY <2>1 DEF Guarded
<1>6. ASSUME NEW p \in Workers, Find(p) PROVE Guarded'
  <2>1. worker'[p].pc = "found" /\ worker'[p].state = row[worker[p].run].state
        /\ row[worker[p].run].state \in States /\ UNCHANGED web
        /\ \A q \in Workers \ {p} : worker'[q] = worker[q]
    BY <1>0, <1>6 DEF Find, UnchangedWeb, Performance
  <2>2. QED
    BY <2>1 DEF Guarded
<1>7. ASSUME NEW p \in Workers, Start(p) PROVE Guarded'
  <2>1. worker'[p].pc = "running" /\ worker'[p].state = "running" /\ UNCHANGED web
        /\ \A q \in Workers \ {p} : worker'[q] = worker[q]
    BY <1>0, <1>7 DEF Start, UnchangedWeb, Performance
  <2>2. QED
    BY <2>1 DEF Guarded
<1>8. ASSUME NEW p \in Workers, StartRefused(p) \/ RunReturns(p) \/ RunRaises(p) \/ Judge(p)
      PROVE  Guarded'
  <2>1. /\ worker'[p].state = worker[p].state /\ UNCHANGED web
        /\ \A q \in Workers \ {p} : worker'[q] = worker[q]
        /\ \/ worker[p].pc = "found" /\ worker'[p].pc = "failed"
           \/ worker[p].pc = "running" /\ worker'[p].pc \in {"ran", "failed"}
           \/ worker[p].pc = "ran" /\ worker'[p].pc \in {"stopping", "completing"}
    BY <1>0, <1>8 DEF StartRefused, RunReturns, RunRaises, Judge, Step, UnchangedWeb,
                      Performance
  <2>2. "running" \in States
    BY DEF States
  <2>3. QED
    BY <2>1, <2>2 DEF Guarded
<1>9. ASSUME NEW p \in Workers,
             \/ FindNothing(p) \/ WriteStop(p) \/ WriteComplete(p) \/ WriteErrors(p)
             \/ ErrorsRefused(p) \/ Terminate(p) \/ Kill(p)
      PROVE  Guarded'
  <2>1. worker'[p].pc = "idle" /\ UNCHANGED web
        /\ \A q \in Workers \ {p} : worker'[q] = worker[q]
    BY <1>0, <1>9 DEF FindNothing, WriteStop, WriteComplete, WriteErrors, ErrorsRefused,
                      Terminate, Kill, Write, Dies, Drop, NoJob, UnchangedWeb
  <2>2. QED
    BY <2>1 DEF Guarded
<1>10. ASSUME NEW p \in Workers, Requeue(p) \/ CheckSignalFails(p) PROVE Guarded'
  <2>1. /\ UNCHANGED web
        /\ \A q \in Workers \ {p} : worker'[q] = worker[q]
        /\ worker'[p].state = worker[p].state
        /\ worker'[p].pc = worker[p].pc \/ worker'[p].pc = "checked"
    BY <1>0, <1>10 DEF Requeue, CheckSignalFails, Step, UnchangedWeb, Performance
  <2>2. QED
    BY <2>1 DEF Guarded
<1>11. ASSUME NEW p \in Workers, NEW j \in Jids, PollerStep(p, j) PROVE Guarded'
  <2>1. /\ UNCHANGED web
        /\ \A q \in Workers : /\ worker'[q].pc = worker[q].pc
                              /\ worker'[q].state = worker[q].state
    BY <1>0, <1>11 DEF PollerStep, Poll, PollerEnds, UnchangedWeb, Performance
  <2>2. QED
    BY <2>1 DEF Guarded
<1>12. ASSUME NEW t \in Runs, Orphan(t) PROVE Guarded'
  BY <1>12 DEF Orphan, Guarded
<1>13. CASE UNCHANGED vars
  BY <1>13 DEF vars, Guarded
<1>14. QED
  BY <1>1, <1>2, <1>3, <1>4, <1>5, <1>6, <1>7, <1>8, <1>9, <1>10, <1>11, <1>12, <1>13
  DEF Next, WebStep, WorkerStep, FaultStep

(* Every step is one of RunCopies, or changes neither a row nor a copy.    *)
LEMMA CopiesStep ==
  ASSUME TypeOK, Known, Guarded, [Next]_vars
  PROVE  [Copies!Next]_<<Column, Held>>
<1> USE DEF dbVars, jobVars, histVars
<1>0. /\ web \in [Web -> Request] /\ worker \in [Workers -> Performance]
      /\ row \in [Runs -> [state : RowStates, jid : Jid]]
  BY DEF TypeOK
<1>a. UNCHANGED row => Column' = Column
  BY DEF Column
<1>b. UNCHANGED web => \A w \in Web : WebSees(w)' = WebSees(w)
  BY DEF WebSees, Seen
<1>c. ASSUME NEW p \in Workers, \A q \in Workers \ {p} : worker'[q] = worker[q]
      PROVE  \A q \in Workers \ {p} : WorkerSees(q)' = WorkerSees(q)
  BY <1>c DEF WorkerSees, Seen
<1>d. UNCHANGED worker => \A p \in Workers : WorkerSees(p)' = WorkerSees(p)
  BY DEF WorkerSees, Seen
<1>e. ASSUME NEW w \in Web, \A v \in Web \ {w} : web'[v] = web[v]
      PROVE  \A v \in Web \ {w} : WebSees(v)' = WebSees(v)
  BY <1>e DEF WebSees, Seen
<1>1. ASSUME NEW t \in Runs, Create(t) PROVE Copies!Next
  <2>1. row[t].state = "absent" /\ row'[t].state = "pending"
        /\ \A u \in Runs \ {t} : row'[u].state = row[u].state
    BY <1>0, <1>1 DEF Create
  <2>2. Held' = Held
    BY <1>1, <1>b, <1>d, NoCopyMoves DEF Create
  <2>3. Column' = [Column EXCEPT ![t] = "pending"] /\ Column[t] = "absent"
    BY <2>1, ColumnMoves
  <2>4. Copies!Create(t)
    BY <2>2, <2>3 DEF Copies!Create, Column, Held
  <2>5. QED
    BY <2>4 DEF Copies!Next
<1>2. ASSUME NEW w \in Web, NEW op \in Ops, NEW t \in Runs, Load(w, op, t)
      PROVE  Copies!Next
  <2>1. /\ web[w].pc = "idle" /\ row[t].state \in States
        /\ web'[w].pc = "loaded" /\ web'[w].run = t /\ web'[w].state = row[t].state
        /\ \A v \in Web \ {w} : web'[v] = web[v]
    BY <1>0, <1>2 DEF Load, NoRequest
  <2>2. /\ WebSees(w) = {}
        /\ WebSees(w)' = {[run |-> t, state |-> row[t].state]}
    BY <2>1 DEF WebSees, Seen
  <2>3. Held' = [Held EXCEPT ![<<"web", w>>] = {[run |-> t, state |-> row[t].state]}]
    BY <1>2, <2>1, <2>2, <1>d, <1>e, WebMoves DEF Load
  <2>4. QED
    BY <1>2, <1>a, <2>1, <2>2, <2>3, CopyOf, Reads DEF Load
<1>3. ASSUME NEW w \in Web, Refuse(w) \/ Crash(w) PROVE Copies!Next
  <2>1. /\ web'[w].pc = "idle" /\ UNCHANGED <<row, worker>>
        /\ \A v \in Web \ {w} : web'[v] = web[v]
    BY <1>0, <1>3 DEF Refuse, Crash, NoRequest
  <2>2. WebSees(w)' = {}
    BY <2>1 DEF WebSees, Seen
  <2>3. Held' = [Held EXCEPT ![<<"web", w>>] = {}]
    BY <2>1, <2>2, <1>d, <1>e, WebMoves
  <2>4. QED
    BY <1>a, <2>1, <2>3, CopyOf, Forgets
<1>4. ASSUME NEW w \in Web, Enqueue(w) \/ Cancel(w) \/ Stop(w)
      PROVE  Column' = Column /\ Held' = Held
  <2>1. PICK job : web' = [web EXCEPT ![w].pc = "acted", ![w].job = job]
    BY <1>4 DEF Enqueue, Cancel, Stop, Update
  <2>2. UNCHANGED <<row, worker>> /\ web[w].pc = "loaded"
    BY <1>4 DEF Enqueue, Cancel, Stop, Reading
  <2>3. /\ web'[w].pc = "acted" /\ web'[w].run = web[w].run
        /\ web'[w].state = web[w].state
        /\ \A v \in Web \ {w} : web'[v] = web[v]
    BY <1>0, <2>1 DEF Request
  <2>4. WebSees(w)' = WebSees(w)
    BY <2>2, <2>3 DEF WebSees, Seen
  <2>5. \A v \in Web : WebSees(v)' = WebSees(v)
    BY <2>3, <2>4, <1>e
  <2>6. QED
    BY <2>2, <2>5, <1>a, <1>d, NoCopyMoves
<1>5. ASSUME NEW w \in Web, Commit(w) PROVE Copies!Next
  <2>1. web[w].pc = "acted" /\ web[w].run \in Runs /\ web[w].op \in Events
        /\ CanFire(web[w].op, web[w].state)
    BY <1>5 DEF Commit, Known, Guarded, Events
  <2>2. PICK t \in Runs, event \in Events : t = web[w].run /\ event = web[w].op
    BY <2>1
  <2>3. /\ row'[t].state = Written(row[t].state, event)
        /\ \A u \in Runs \ {t} : row'[u].state = row[u].state
    BY <1>0, <1>5, <2>2 DEF Commit
  <2>4. web'[w].pc = "idle" /\ \A v \in Web \ {w} : web'[v] = web[v]
    BY <1>0, <1>5 DEF Commit, NoRequest
  <2>5. WebSees(w)' = {} /\ WebSees(w) = {[run |-> t, state |-> web[w].state]}
    BY <2>1, <2>2, <2>4 DEF WebSees, Seen
  <2>6. Held' = [Held EXCEPT ![<<"web", w>>] = {}]
    BY <1>5, <2>4, <2>5, <1>d, <1>e, WebMoves DEF Commit
  <2>7. /\ <<"web", w>> \in Clients /\ CanFire(event, web[w].state)
        /\ Copy(<<"web", w>>) = {[run |-> t, state |-> web[w].state]}
    BY <2>1, <2>2, <2>5, CopyOf
  <2>8. QED
    BY <2>3, <2>6, <2>7, Fires
<1>6. ASSUME NEW w \in Web, Destroy(w) PROVE Copies!Next
  <2>1. web[w].pc = "loaded" /\ web[w].run \in Runs
    BY <1>6 DEF Destroy, Reading, Known
  <2>2. PICK t \in Runs : t = web[w].run
    BY <2>1
  <2>3. /\ row'[t].state = "destroyed"
        /\ \A u \in Runs \ {t} : row'[u].state = row[u].state
    BY <1>0, <1>6, <2>2 DEF Destroy
  <2>4. web'[w].pc = "idle" /\ \A v \in Web \ {w} : web'[v] = web[v]
    BY <1>0, <1>6 DEF Destroy, NoRequest
  <2>5. WebSees(w)' = {} /\ WebSees(w) = {[run |-> t, state |-> web[w].state]}
    BY <2>1, <2>2, <2>4 DEF WebSees, Seen
  <2>6. Held' = [Held EXCEPT ![<<"web", w>>] = {}]
    BY <1>6, <2>4, <2>5, <1>d, <1>e, WebMoves DEF Destroy
  <2>7. Column' = [Column EXCEPT ![t] = "destroyed"]
    BY <2>3, ColumnMoves
  <2>8. <<"web", w>> \in Clients
        /\ [run |-> t, state |-> web[w].state] \in Held[<<"web", w>>]
    BY <2>5, CopyOf DEF Held
  <2>9. \E loaded \in Held[<<"web", w>>] : loaded.run = t
    BY <2>8
  <2>10. Copies!Delete(<<"web", w>>)
    BY <2>6, <2>7, <2>9 DEF Copies!Delete, Column, Held
  <2>11. QED
    BY <2>8, <2>10 DEF Copies!Next
<1>7. ASSUME NEW p \in Workers,
             Fetch(p) \/ CheckSignal(p) \/ FindNothing(p) \/ CheckSignalFails(p)
      PROVE  Column' = Column /\ Held' = Held
  <2>1. /\ worker[p].pc \in {"idle", "fetched", "checked"}
        /\ worker'[p].pc \in {"idle", "fetched", "checked"}
        /\ UNCHANGED <<row, web>> /\ \A q \in Workers \ {p} : worker'[q] = worker[q]
    <3>1. CASE Fetch(p)
      BY <1>0, <3>1 DEF Fetch, NoJob, UnchangedWeb
    <3>2. CASE CheckSignal(p)
      BY <1>0, <3>2 DEF CheckSignal, Drop, NoJob, UnchangedWeb, Performance
    <3>3. CASE FindNothing(p)
      BY <1>0, <3>3 DEF FindNothing, Drop, NoJob, UnchangedWeb
    <3>4. CASE CheckSignalFails(p)
      BY <1>0, <3>4 DEF CheckSignalFails, Step, UnchangedWeb, Performance
    <3>5. QED
      BY <1>7, <3>1, <3>2, <3>3, <3>4
  <2>2. WorkerSees(p)' = WorkerSees(p)
    BY <2>1 DEF WorkerSees, Seen, AfterStart
  <2>3. \A q \in Workers : WorkerSees(q)' = WorkerSees(q)
    BY <2>1, <2>2, <1>c
  <2>4. QED
    BY <2>1, <2>3, <1>a, <1>b, NoCopyMoves
<1>8. ASSUME NEW p \in Workers, Find(p) PROVE Copies!Next
  <2>1. PICK t \in Runs : t = worker[p].run
    BY <1>8 DEF Find, Known
  <2>2. /\ worker[p].pc = "checked" /\ row[t].state \in States
        /\ worker'[p].pc = "found" /\ worker'[p].run = t
        /\ worker'[p].state = row[t].state
        /\ UNCHANGED <<row, web>> /\ \A q \in Workers \ {p} : worker'[q] = worker[q]
    BY <1>0, <1>8, <2>1 DEF Find, UnchangedWeb, Performance
  <2>3. /\ WorkerSees(p) = {}
        /\ WorkerSees(p)' = {[run |-> t, state |-> row[t].state]}
    BY <2>2 DEF WorkerSees, Seen, AfterStart
  <2>4. Held' = [Held EXCEPT ![<<"worker", p>>] = {[run |-> t, state |-> row[t].state]}]
    BY <2>2, <2>3, <1>b, <1>c, WorkerMoves
  <2>5. QED
    BY <1>a, <2>2, <2>3, <2>4, CopyOf, Reads
<1>9. ASSUME NEW p \in Workers, Start(p) PROVE Copies!Next
  <2>1. PICK t \in Runs : t = worker[p].run
    BY <1>9 DEF Start, Known
  <2>2. /\ worker[p].pc = "found" /\ CanFire("start", worker[p].state)
        /\ worker'[p].pc = "running" /\ worker'[p].run = t
        /\ worker'[p].state = "running"
        /\ UNCHANGED web /\ \A q \in Workers \ {p} : worker'[q] = worker[q]
    BY <1>0, <1>9, <2>1 DEF Start, UnchangedWeb, Performance
  <2>3. /\ row'[t].state = Written(row[t].state, "start")
        /\ \A u \in Runs \ {t} : row'[u].state = row[u].state
    BY <1>0, <1>9, <2>1 DEF Start
  <2>4. /\ WorkerSees(p) = {[run |-> t, state |-> worker[p].state]}
        /\ WorkerSees(p)' = {[run |-> t, state |-> "running"]}
    BY <2>1, <2>2 DEF WorkerSees, Seen, AfterStart
  <2>5. Held' = [Held EXCEPT ![<<"worker", p>>] = {[run |-> t, state |-> "running"]}]
    BY <2>2, <2>4, <1>b, <1>c, WorkerMoves
  <2>6. "start" \in Events /\ Transitions["start"].to = "running"
    BY DEF Events, Transitions
  <2>7. QED
    BY <2>2, <2>3, <2>4, <2>5, <2>6, CopyOf, Fires
<1>10. ASSUME NEW p \in Workers,
              StartRefused(p) \/ RunReturns(p) \/ RunRaises(p) \/ Judge(p)
       PROVE  Column' = Column /\ Held' = Held
  <2>1. /\ worker[p].pc \in {"found"} \cup AfterStart
        /\ worker'[p].pc \in {"found"} \cup AfterStart
        /\ worker'[p].run = worker[p].run /\ worker'[p].state = worker[p].state
        /\ UNCHANGED <<row, web>> /\ \A q \in Workers \ {p} : worker'[q] = worker[q]
    BY <1>0, <1>10 DEF StartRefused, RunReturns, RunRaises, Judge, Step, UnchangedWeb,
                       Performance, AfterStart
  <2>2. WorkerSees(p)' = WorkerSees(p)
    BY <2>1 DEF WorkerSees, Seen
  <2>3. \A q \in Workers : WorkerSees(q)' = WorkerSees(q)
    BY <2>1, <2>2, <1>c
  <2>4. QED
    BY <2>1, <2>3, <1>a, <1>b, NoCopyMoves
<1>11. ASSUME NEW p \in Workers, NEW event \in {"stop", "complete", "complete_with_errors"},
              NEW from \in {"stopping", "completing", "failed"},
              Write(p, from, event), UNCHANGED web,
              CanFire(event, worker[p].state)
       PROVE  Copies!Next
  <2>1. PICK t \in Runs : t = worker[p].run
    BY <1>11 DEF Write, Known
  <2>2. /\ worker[p].pc \in {"found"} \cup AfterStart /\ worker'[p].pc = "idle"
        /\ \A q \in Workers \ {p} : worker'[q] = worker[q]
    BY <1>0, <1>11 DEF Write, Drop, NoJob, AfterStart
  <2>3. /\ row'[t].state = Written(row[t].state, event)
        /\ \A u \in Runs \ {t} : row'[u].state = row[u].state
    BY <1>0, <1>11, <2>1 DEF Write
  <2>4. /\ WorkerSees(p) = {[run |-> t, state |-> worker[p].state]}
        /\ WorkerSees(p)' = {}
    BY <2>1, <2>2 DEF WorkerSees, Seen, AfterStart
  <2>5. Held' = [Held EXCEPT ![<<"worker", p>>] = {}]
    BY <1>11, <2>2, <2>4, <1>b, <1>c, WorkerMoves
  <2>6. event \in Events
    BY DEF Events
  <2>7. QED
    BY <1>11, <2>3, <2>4, <2>5, <2>6, CopyOf, Fires
<1>12. ASSUME NEW p \in Workers, WriteStop(p) \/ WriteComplete(p) \/ WriteErrors(p)
       PROVE  Copies!Next
  <2>1. CASE WriteStop(p)
    BY <2>1, <1>11 DEF WriteStop, Write, UnchangedWeb, Guarded, CanFire, Transitions
  <2>2. CASE WriteComplete(p)
    BY <2>2, <1>11 DEF WriteComplete, Write, UnchangedWeb, Guarded, CanFire, Transitions
  <2>3. CASE WriteErrors(p)
    BY <2>3, <1>11 DEF WriteErrors, Write, UnchangedWeb, Guarded, CanFire, Transitions
  <2>4. QED
    BY <1>12, <2>1, <2>2, <2>3
<1>13. ASSUME NEW p \in Workers, ErrorsRefused(p) \/ Terminate(p) \/ Kill(p)
       PROVE  Copies!Next
  <2>1. /\ worker'[p].pc = "idle" /\ UNCHANGED <<row, web>>
        /\ \A q \in Workers \ {p} : worker'[q] = worker[q]
    BY <1>0, <1>13 DEF ErrorsRefused, Terminate, Kill, Dies, Drop, NoJob, UnchangedWeb
  <2>2. WorkerSees(p)' = {}
    BY <2>1 DEF WorkerSees, Seen, AfterStart
  <2>3. Held' = [Held EXCEPT ![<<"worker", p>>] = {}]
    BY <2>1, <2>2, <1>b, <1>c, WorkerMoves
  <2>4. QED
    BY <1>a, <2>1, <2>3, CopyOf, Forgets
<1>14. ASSUME NEW p \in Workers, NEW j \in Jids, PollerStep(p, j)
       PROVE  Column' = Column /\ Held' = Held
  <2>1. /\ UNCHANGED <<row, web>>
        /\ \A q \in Workers : /\ worker'[q].pc = worker[q].pc
                              /\ worker'[q].run = worker[q].run
                              /\ worker'[q].state = worker[q].state
    BY <1>0, <1>14 DEF PollerStep, Poll, PollerEnds, UnchangedWeb, Performance
  <2>2. \A q \in Workers : WorkerSees(q)' = WorkerSees(q)
    BY <2>1 DEF WorkerSees, Seen
  <2>3. QED
    BY <2>1, <2>2, <1>a, <1>b, NoCopyMoves
<1>15. ASSUME NEW p \in Workers, Requeue(p)
       PROVE  Column' = Column /\ Held' = Held
  <2>1. /\ UNCHANGED <<row, web>>
        /\ \A q \in Workers : /\ worker'[q].pc = worker[q].pc
                              /\ worker'[q].run = worker[q].run
                              /\ worker'[q].state = worker[q].state
    BY <1>0, <1>15 DEF Requeue, UnchangedWeb, Performance
  <2>2. \A q \in Workers : WorkerSees(q)' = WorkerSees(q)
    BY <2>1 DEF WorkerSees, Seen
  <2>3. QED
    BY <2>1, <2>2, <1>a, <1>b, NoCopyMoves
<1>16. ASSUME (\E t \in Runs : Orphan(t)) \/ UNCHANGED vars
       PROVE  Column' = Column /\ Held' = Held
  <2>1. UNCHANGED <<row, web, worker>>
    BY <1>16 DEF Orphan, vars
  <2>2. QED
    BY <2>1, <1>a, <1>b, <1>d, NoCopyMoves
<1>17. QED
  BY <1>1, <1>2, <1>3, <1>4, <1>5, <1>6, <1>7, <1>8, <1>9, <1>10, <1>12, <1>13,
     <1>14, <1>15, <1>16
  DEF Next, WebStep, WorkerStep, FaultStep

(* A row changes only by an event that test_run.rb, 160-219, declares, and *)
(* only if the event is allowed on the copy of the process that fires it:  *)
(* for any number of runs, jobs, web processes, workers and faults, though *)
(* a request guards its event before the UPDATE and is seen only after the *)
(* COMMIT, and a performance writes at its end what it guarded long ago.   *)
THEOREM RowsMoveFromCopies == Spec => MovesFromCopies
<1>1. Init => Guarded
  BY DEF Init, Guarded, NoRequest, NoJob
<1>2. IInv /\ Guarded /\ [Next]_vars => Guarded'
  BY GuardedStep DEF IInv
<1>3. Init => Copies!Init
  <2>1. SUFFICES ASSUME Init PROVE Copies!Init
    OBVIOUS
  <2>2. \A w \in Web : WebSees(w) = {}
    BY <2>1 DEF Init, NoRequest, WebSees, Seen
  <2>3. \A p \in Workers : WorkerSees(p) = {}
    BY <2>1 DEF Init, NoJob, WorkerSees, Seen, AfterStart
  <2>4. \A c \in Clients : Copy(c) = {}
    BY <2>2, <2>3, CopyOf
  <2>5. QED
    BY <2>1, <2>4 DEF Init, Copies!Init
<1>4. IInv /\ Guarded /\ [Next]_vars => [Copies!Next]_<<Column, Held>>
  BY CopiesStep DEF IInv
<1>5. Spec => []Guarded
  BY <1>1, <1>2, Invariance, PTL DEF Spec
<1>6. QED
  BY <1>3, <1>4, <1>5, Invariance, PTL
  DEF Spec, MovesFromCopies, Copies!Spec, Copies!vars, Column, Held
=============================================================================
