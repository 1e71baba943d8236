------------------------ MODULE RtcpListener_proofs ------------------------
(***************************************************************************)
(* Theorems of RtcpListener, for any number of packets and seconds.        *)
(*                                                                         *)
(* The inductive invariant says of a packet in the hash that it is there   *)
(* with all its fields, except for the one the thread has in hand; of a    *)
(* figure that was read, that it has the same packets as the hash, except  *)
(* for that one; and of a packet that was due, that it is in the figures   *)
(* of its second as far as they were read.                                 *)
(***************************************************************************)
EXTENDS RtcpListener, SequenceTheorems, FiniteSetTheorems, TLAPS

(* The sample of a packet is in the hash. *)
InData(p, t, f) == t \in DOMAIN data /\ f \in DOMAIN data[t] /\ p \in Range(data[t][f])

Whole(p, t) == InData(p, t, "fractional_loss") /\ InData(p, t, "jitter")

(* The thread has a packet in hand. *)
Holds == thread \in {"entering", "assigning", "pushing"}

(* What the thread has done for that packet. *)
Held == /\ thread \in {"assigning", "pushing"} => hand.second \in DOMAIN data
        /\ thread = "pushing" => Fields[hand.field] \in DOMAIN data[hand.second]
        /\ thread = "entering" => hand.field = 1
        /\ Holds => hand.packet \in received
        /\ Holds /\ hand.field = 2 => InData(hand.packet, hand.second, "fractional_loss")

Fresh == \A p, t, f : InData(p, t, f) => p \in received

(* No packet is in one field only, but the one in hand. *)
Halves == \A p, t : \/ InData(p, t, "fractional_loss") <=> InData(p, t, "jitter")
                    \/ p = hand.packet /\ t = hand.second /\ hand.field = 2 /\ Holds

Keyed == /\ \A i \in 1..Len(keys) : keys[i] \in DOMAIN data
         /\ \A t \in DOMAIN data : \E i \in 1..Len(keys) : keys[i] = t

(* One packet may come late. *)
Late == main # "loading" =>
          /\ ~running
          /\ Recorded \subseteq due \cup {hand.packet}
          /\ thread = "selecting" => Recorded \subseteq due

Phases == /\ main \notin {"loading", "closing"} => socket = "closed"
          /\ main \in {"loading", "closing"} => Len(report) = 0 /\ Len(row) = 0
          /\ main = "iterating" => Len(report) <= Len(keys)
          /\ main = "iterating" /\ Len(row) # 0 => Len(report) < Len(keys)

RowFaithful ==
  main = "iterating" =>
    \A k \in 1..Len(row), p \in Packets \ {hand.packet} :
      p \in Range(row[k]) <=> InData(p, keys[Len(report) + 1], Reads[k])

TornInHand == \A i \in 1..Len(report) : Torn(report[i]) \subseteq {hand.packet}

(* A packet that was due, as far as the second t was read *)
KeptIn(p, t) ==
  /\ Whole(p, t)
  /\ main = "iterating" =>
       /\ \A i \in 1..Len(report) : keys[i] = t =>
            \A k \in 1..6 : p \in Range(report[i].reads[k])
       /\ Len(row) # 0 /\ keys[Len(report) + 1] = t =>
            \A k \in 1..Len(row) : p \in Range(row[k])

Kept == main # "loading" => \A p \in due : \E t : KeptIn(p, t)

IInv == /\ TypeOK /\ Held /\ Fresh /\ Halves /\ Keyed /\ Late /\ Phases
        /\ RowFaithful /\ TornInHand /\ Kept /\ NothingLost
-----------------------------------------------------------------------------
(* Sequences and hashes *)

LEMMA FieldsAre ==
  /\ Len(Fields) = 2
  /\ Fields[1] = "fractional_loss" /\ Fields[2] = "jitter"
  /\ Range(Fields) = {"fractional_loss", "jitter"}
<1>1. Len(Fields) = 2 /\ Fields[1] = "fractional_loss" /\ Fields[2] = "jitter"
  BY DEF Fields
<1>2. DOMAIN Fields = {1, 2}
  BY DEF Fields
<1> QED
  BY <1>1, <1>2 DEF Range

LEMMA ReadsAre ==
  /\ Len(Reads) = 6 /\ DOMAIN Reads = 1..6
  /\ \A k \in 1..6 : Reads[k] \in {"fractional_loss", "jitter"}
BY DEF Reads

LEMMA Appended ==
  ASSUME NEW S, NEW s \in Seq(S), NEW e \in S
  PROVE  /\ Append(s, e) \in Seq(S)
         /\ Len(s) \in Nat /\ Len(Append(s, e)) = Len(s) + 1
         /\ \A k \in 1..Len(s) : Append(s, e)[k] = s[k]
         /\ Append(s, e)[Len(s) + 1] = e
         /\ Range(Append(s, e)) = Range(s) \cup {e}
<1>1. /\ Append(s, e) \in Seq(S)
      /\ Len(s) \in Nat /\ Len(Append(s, e)) = Len(s) + 1
      /\ DOMAIN s = 1..Len(s) /\ DOMAIN Append(s, e) = 1..(Len(s) + 1)
      /\ \A k \in 1..Len(s) : Append(s, e)[k] = s[k]
      /\ Append(s, e)[Len(s) + 1] = e
  BY AppendProperties, LenProperties
<1>2. DOMAIN Append(s, e) = DOMAIN s \cup {Len(s) + 1}
  BY <1>1
<1> QED
  BY <1>1, <1>2 DEF Range

LEMMA NoneIn ==
  ASSUME NEW S
  PROVE  <<>> \in Seq(S) /\ Len(<<>>) = 0 /\ Range(<<>>) = {}
BY DEF Range

(* All the fields of a packet are in the hash once it is recorded. *)
LEMMA RecordedIs ==
  TypeOK => Recorded = {p \in received : \E t : Whole(p, t)}
<1> SUFFICES ASSUME TypeOK
             PROVE  Recorded = {p \in received : \E t : Whole(p, t)}
  OBVIOUS
<1>1. \A t \in DOMAIN data : DOMAIN data[t] \subseteq {"fractional_loss", "jitter"}
  BY FieldsAre DEF TypeOK
<1> QED
  BY <1>1, FieldsAre DEF Recorded, Whole, InData

LEMMA RecordedNext ==
  (TypeOK => Recorded = {p \in received : \E t : Whole(p, t)})'
BY RecordedIs, PTL
-----------------------------------------------------------------------------
(* Steps of the thread *)

(* Nothing is taken out of the hash, and only the packet in hand put in. *)
Grows == /\ \A p, t, f : InData(p, t, f) => InData(p, t, f)'
         /\ \A p, t, f : p # hand.packet /\ InData(p, t, f)' => InData(p, t, f)

LEMMA MainStays ==
  ASSUME IInv, Grows, UNCHANGED mainVars,
         main = "iterating" => keys' = keys,
         main \notin {"loading", "closing"} => hand'.packet = hand.packet
  PROVE  Phases' /\ RowFaithful' /\ TornInHand' /\ Kept' /\ NothingLost'
<1>1. UNCHANGED <<running, socket, due, main, row, report>>
  BY DEF mainVars
<1>2. Phases'
  BY <1>1 DEF IInv, Phases
<1>3. RowFaithful'
  BY <1>1 DEF IInv, RowFaithful, Grows
<1>4. TornInHand'
  <2>1. CASE main \in {"loading", "closing"}
    <3>1. \A i \in 1..Len(report) : FALSE
      BY <2>1 DEF IInv, Phases
    <3> QED
      BY <1>1, <3>1 DEF TornInHand
  <2>2. CASE main \notin {"loading", "closing"}
    BY <1>1, <2>2 DEF IInv, TornInHand
  <2> QED
    BY <2>1, <2>2
<1>5. Kept'
  <2>1. ASSUME NEW p, NEW t, KeptIn(p, t)
        PROVE  KeptIn(p, t)'
    BY <1>1, <2>1 DEF KeptIn, Whole, Grows
  <2> QED
    BY <1>1, <2>1 DEF IInv, Kept
<1>6. NothingLost'
  BY <1>1 DEF IInv, NothingLost
<1> QED
  BY <1>2, <1>3, <1>4, <1>5, <1>6

(* A step that only takes the thread elsewhere, with no packet in hand. *)
LEMMA MovesKeep ==
  ASSUME IInv, UNCHANGED <<hand, data, keys, blank, received, mainVars>>, ~Holds,
         thread' \in {"checking", "selecting", "ended", "dead"},
         thread' = "selecting" => running
  PROVE  IInv'
<1>1. UNCHANGED <<hand, data, keys, blank, received, running, socket, due, main, row, report>>
  BY DEF mainVars
<1>2. \A p, t, f : InData(p, t, f)' <=> InData(p, t, f)
  BY <1>1 DEF InData
<1>3. ~Holds'
  BY DEF Holds
<1>4. TypeOK'
  BY <1>1 DEF IInv, TypeOK
<1>5. Held' /\ Fresh' /\ Keyed'
  BY <1>1, <1>2, <1>3 DEF IInv, Held, Holds, Fresh, Keyed
<1>6. Halves'
  BY <1>2 DEF IInv, Halves
<1>7. Late'
  BY <1>1 DEF IInv, Late, Recorded
<1>8. Grows
  BY <1>2 DEF Grows
<1> QED
  BY <1>1, <1>4, <1>5, <1>6, <1>7, <1>8, MainStays DEF IInv

LEMMA ReceiveKeeps ==
  ASSUME IInv, Receive
  PROVE  IInv'
<1>1. /\ socket = "open" /\ thread = "selecting" /\ thread' = "entering"
      /\ UNCHANGED <<data, keys, mainVars>>
  BY DEF Receive, Goto
<1>2. PICK p \in Packets \ received, t \in Seconds :
        /\ hand' = [packet |-> p, second |-> t, field |-> 1]
        /\ received' = received \cup {p}
        /\ blank' \in {blank, blank \cup {p}}
  BY DEF Receive
<1>3. UNCHANGED <<running, socket, due, main, row, report>>
  BY <1>1 DEF mainVars
<1>4. \A q, u, f : InData(q, u, f)' <=> InData(q, u, f)
  BY <1>1 DEF InData
<1>5. hand' \in Hand /\ hand'.packet = p /\ hand'.field = 1
  BY <1>2, FieldsAre DEF Hand
<1>6. TypeOK'
  BY <1>1, <1>2, <1>3, <1>5 DEF IInv, TypeOK
<1>7. Held' /\ Fresh' /\ Keyed'
  BY <1>1, <1>2, <1>4, <1>5 DEF IInv, Held, Holds, Fresh, Keyed
<1>8. Halves'
  BY <1>1, <1>4 DEF IInv, Halves, Holds
<1>9. Recorded' = Recorded
  <2>1. Recorded = {q \in received : \E u : Whole(q, u)}
    BY RecordedIs DEF IInv
  <2>3. Recorded' = {q \in received' : \E u : Whole(q, u)}
    BY <1>4, <1>6, RecordedNext DEF Whole
  <2>4. ~\E u : Whole(p, u)
    BY <1>2 DEF IInv, Fresh, Whole
  <2> QED
    BY <1>2, <2>1, <2>3, <2>4
<1>10. Late'
  BY <1>1, <1>3, <1>9 DEF IInv, Late
<1>11. Grows
  BY <1>4 DEF Grows
<1>12. main \in {"loading", "closing"}
  BY <1>1 DEF IInv, Phases
<1> QED
  BY <1>1, <1>6, <1>7, <1>8, <1>10, <1>11, <1>12, MainStays DEF IInv

(* A step that makes room for samples, and puts none in. *)
LEMMA RoomKeeps ==
  ASSUME IInv, TypeOK', \A p, t, f : InData(p, t, f)' <=> InData(p, t, f),
         UNCHANGED <<hand, blank, received, mainVars>>, thread' # "selecting",
         main = "iterating" => keys' = keys
  PROVE  /\ Fresh' /\ Late'
         /\ Phases' /\ RowFaithful' /\ TornInHand' /\ Kept' /\ NothingLost'
<1>1. UNCHANGED <<hand, blank, received, running, socket, due, main, row, report>>
  BY DEF mainVars
<1>2. Fresh'
  BY <1>1 DEF IInv, Fresh
<1>3. Recorded' = Recorded
  <2>1. Recorded = {p \in received : \E t : Whole(p, t)}
    BY RecordedIs DEF IInv
  <2>2. Recorded' = {p \in received : \E t : Whole(p, t)}
    BY <1>1, RecordedNext DEF Whole
  <2> QED
    BY <2>1, <2>2
<1>4. Late'
  BY <1>1, <1>3 DEF IInv, Late
<1>5. Grows
  BY DEF Grows
<1> QED
  BY <1>1, <1>2, <1>4, <1>5, MainStays

LEMMA EnterKeeps ==
  ASSUME IInv, Enter
  PROVE  IInv'
<1>1. /\ UNCHANGED <<hand, blank, received, mainVars>>
      /\ thread = "entering" /\ thread' \in {"assigning", "dead"}
      /\ main = "iterating" => keys' = keys
  BY DEF Enter, Goto
<1>2. UNCHANGED <<hand, blank, received, running, socket, due, main, row, report>>
  BY <1>1 DEF mainVars
<1>3. hand \in Hand /\ hand.second \in Seconds /\ hand.field = 1
  BY <1>1 DEF IInv, TypeOK, Held, Hand
<1>4. CASE UNCHANGED <<data, keys>> /\ (thread' = "assigning" => hand.second \in DOMAIN data)
  <2>1. \A p, t, f : InData(p, t, f)' <=> InData(p, t, f)
    BY <1>4 DEF InData
  <2>2. TypeOK'
    BY <1>1, <1>2, <1>4 DEF IInv, TypeOK
  <2>3. Held' /\ Halves' /\ Keyed'
    BY <1>1, <1>2, <1>3, <1>4, <2>1 DEF IInv, Held, Halves, Keyed, Holds
  <2> QED
    BY <1>1, <2>1, <2>2, <2>3, RoomKeeps DEF IInv
<1>5. CASE /\ hand.second \notin DOMAIN data /\ thread' = "assigning"
           /\ data' = Put(data, hand.second, <<>>)
           /\ keys' = Append(keys, hand.second)
  <2> DEFINE none == <<>>
  <2>1. /\ DOMAIN data' = DOMAIN data \cup {hand.second}
        /\ data'[hand.second] = none
        /\ \A t \in DOMAIN data : data'[t] = data[t]
    BY <1>5 DEF Put
  <2>2. DOMAIN none = {}
    OBVIOUS
  <2> HIDE DEF none
  <2>3. \A p, t, f : InData(p, t, f)' <=> InData(p, t, f)
    BY <1>5, <2>1, <2>2 DEF InData
  <2>4. /\ keys' \in Seq(Seconds) /\ Len(keys) \in Nat /\ Len(keys') = Len(keys) + 1
        /\ \A i \in 1..Len(keys) : keys'[i] = keys[i]
        /\ keys'[Len(keys) + 1] = hand.second
    BY <1>3, <1>5, Appended DEF IInv, TypeOK
  <2>5. TypeOK'
    BY <1>1, <1>2, <1>3, <2>1, <2>2, <2>4 DEF IInv, TypeOK
  <2>6. Held' /\ Halves'
    BY <1>1, <1>2, <1>3, <1>5, <2>1, <2>3 DEF IInv, Held, Halves, Holds
  <2>7. Keyed'
    <3>1. ASSUME NEW i \in 1..Len(keys')
          PROVE  keys'[i] \in DOMAIN data'
      <4>1. i \in 1..Len(keys) \/ i = Len(keys) + 1
        BY <2>4
      <4> QED
        BY <2>1, <2>4, <4>1 DEF IInv, Keyed
    <3>2. ASSUME NEW t \in DOMAIN data'
          PROVE  \E i \in 1..Len(keys') : keys'[i] = t
      <4>1. CASE t = hand.second
        BY <2>4, <4>1
      <4>2. CASE t \in DOMAIN data
        <5>1. PICK i \in 1..Len(keys) : keys[i] = t
          BY <4>2 DEF IInv, Keyed
        <5> QED
          BY <2>4, <5>1
      <4> QED
        BY <2>1, <4>1, <4>2
    <3> QED
      BY <3>1, <3>2 DEF Keyed
  <2> QED
    BY <1>1, <2>3, <2>5, <2>6, <2>7, RoomKeeps DEF IInv
<1> QED
  BY <1>4, <1>5 DEF Enter, Goto

LEMMA AssignKeeps ==
  ASSUME IInv, Assign
  PROVE  IInv'
<1> DEFINE t == hand.second
           k == Fields[hand.field]
<1>1. /\ UNCHANGED <<hand, blank, received, mainVars>>
      /\ thread = "assigning" /\ thread' = "pushing" /\ keys' = keys
      /\ data' = IF k \in DOMAIN data[t] THEN data ELSE Put(data, t, Put(data[t], k, <<>>))
  BY DEF Assign, Goto
<1>2. UNCHANGED <<hand, blank, received, running, socket, due, main, row, report>>
  BY <1>1 DEF mainVars
<1>3. t \in DOMAIN data /\ k \in {"fractional_loss", "jitter"}
  BY <1>1, FieldsAre DEF IInv, TypeOK, Held, Hand
<1> DEFINE none == <<>>
<1>4. none \in Seq(Packets) /\ Range(none) = {}
  BY NoneIn
<1>5. data' = IF k \in DOMAIN data[t] THEN data ELSE Put(data, t, Put(data[t], k, none))
  BY <1>1
<1> HIDE DEF none, k, t
<1>6. /\ DOMAIN data' = DOMAIN data
      /\ \A u \in DOMAIN data : u # t => data'[u] = data[u]
      /\ DOMAIN data'[t] = DOMAIN data[t] \cup {k}
      /\ \A f \in DOMAIN data[t] : data'[t][f] = data[t][f]
      /\ k \notin DOMAIN data[t] => data'[t][k] = none
  <2>1. CASE k \in DOMAIN data[t]
    BY <1>3, <1>5, <2>1
  <2>2. CASE k \notin DOMAIN data[t]
    <3> DEFINE new == Put(data[t], k, none)
    <3>1. /\ DOMAIN new = DOMAIN data[t] \cup {k} /\ new[k] = none
          /\ \A f \in DOMAIN data[t] : new[f] = data[t][f]
      BY <2>2 DEF Put
    <3>2. data' = Put(data, t, new)
      BY <1>5, <2>2
    <3> HIDE DEF new
    <3>3. /\ DOMAIN data' = DOMAIN data /\ data'[t] = new
          /\ \A u \in DOMAIN data : u # t => data'[u] = data[u]
      BY <1>3, <3>2 DEF Put
    <3> QED
      BY <2>2, <3>1, <3>3
  <2> QED
    BY <2>1, <2>2
<1>7. ASSUME NEW p, NEW u, NEW f
      PROVE  InData(p, u, f)' <=> InData(p, u, f)
  <2>1. CASE u # t
    BY <1>6, <2>1 DEF InData
  <2>2. CASE u = t /\ f \in DOMAIN data[t]
    BY <1>6, <2>2 DEF InData
  <2>3. CASE u = t /\ f \notin DOMAIN data[t]
    BY <1>4, <1>6, <2>3 DEF InData
  <2> QED
    BY <2>1, <2>2, <2>3
<1>8. TypeOK'
  <2>1. ASSUME NEW u \in DOMAIN data
        PROVE  /\ DOMAIN data'[u] \subseteq Range(Fields)
               /\ \A f \in DOMAIN data'[u] : data'[u][f] \in Seq(Packets)
    <3>1. /\ DOMAIN data[u] \subseteq Range(Fields)
          /\ \A f \in DOMAIN data[u] : data[u][f] \in Seq(Packets)
      BY DEF IInv, TypeOK
    <3>2. k \in Range(Fields)
      BY <1>3, FieldsAre
    <3>3. CASE u # t
      BY <1>6, <3>1, <3>3
    <3>4. CASE u = t
      BY <1>4, <1>6, <3>1, <3>2, <3>4
    <3> QED
      BY <3>3, <3>4
  <2> QED
    BY <1>1, <1>2, <1>6, <2>1 DEF IInv, TypeOK
<1>9. Held'
  BY <1>1, <1>2, <1>3, <1>6, <1>7 DEF IInv, Held, Holds, k, t
<1>10. Halves' /\ Keyed'
  BY <1>1, <1>2, <1>6, <1>7 DEF IInv, Halves, Keyed, Holds
<1> QED
  BY <1>1, <1>7, <1>8, <1>9, <1>10, RoomKeeps DEF IInv

LEMMA PushKeeps ==
  ASSUME IInv, Push
  PROVE  IInv'
<1> DEFINE p == hand.packet
           t == hand.second
           k == Fields[hand.field]
           table == data[t]
           longer == Append(table[k], p)
<1>1. /\ hand \in Hand /\ p \in Packets /\ hand.field \in {1, 2}
      /\ thread = "pushing" /\ t \in DOMAIN data /\ k \in DOMAIN table
      /\ k = IF hand.field = 1 THEN "fractional_loss" ELSE "jitter"
  BY FieldsAre DEF Push, Goto, IInv, TypeOK, Held, Hand
<1>2. /\ UNCHANGED <<keys, blank, received, mainVars>>
      /\ thread' = IF hand.field = 2 THEN "checking" ELSE "assigning"
      /\ hand' = [hand EXCEPT !.field = IF hand.field = 2 THEN @ ELSE @ + 1]
      /\ data' = [data EXCEPT ![t] = [table EXCEPT ![k] = longer]]
  BY FieldsAre DEF Push, Goto
<1>3. UNCHANGED <<running, socket, due, main, row, report>>
  BY <1>2 DEF mainVars
<1>4. hand' \in Hand /\ hand'.packet = p /\ hand'.second = t /\ hand'.field = 2
  BY <1>1, <1>2, FieldsAre DEF Hand
<1>5. table[k] \in Seq(Packets) /\ longer \in Seq(Packets) /\ Range(longer) = Range(table[k]) \cup {p}
  <2>1. table[k] \in Seq(Packets)
    BY <1>1 DEF IInv, TypeOK
  <2> QED
    BY <1>1, <2>1, Appended
<1> HIDE DEF longer, k, t, p
<1>6. /\ DOMAIN data' = DOMAIN data
      /\ \A u \in DOMAIN data : u # t => data'[u] = data[u]
      /\ DOMAIN data'[t] = DOMAIN data[t]
      /\ data'[t][k] = longer
      /\ \A f \in DOMAIN data[t] : f # k => data'[t][f] = data[t][f]
  BY <1>1, <1>2
<1>7. ASSUME NEW q, NEW u, NEW f
      PROVE  InData(q, u, f)' <=> InData(q, u, f) \/ (q = p /\ u = t /\ f = k)
  <2>1. CASE u # t
    BY <1>6, <2>1 DEF InData
  <2>2. CASE u = t /\ f # k
    BY <1>6, <2>2 DEF InData
  <2>3. CASE u = t /\ f = k
    BY <1>1, <1>5, <1>6, <2>3 DEF InData
  <2> QED
    BY <2>1, <2>2, <2>3
<1>8. TypeOK'
  <2>1. ASSUME NEW u \in DOMAIN data
        PROVE  /\ DOMAIN data'[u] \subseteq Range(Fields)
               /\ \A f \in DOMAIN data'[u] : data'[u][f] \in Seq(Packets)
    <3>1. /\ DOMAIN data[u] \subseteq Range(Fields)
          /\ \A f \in DOMAIN data[u] : data[u][f] \in Seq(Packets)
      BY DEF IInv, TypeOK
    <3>2. CASE u # t
      BY <1>6, <3>1, <3>2
    <3>3. CASE u = t
      BY <1>5, <1>6, <3>1, <3>3
    <3> QED
      BY <3>2, <3>3
  <2> QED
    BY <1>2, <1>3, <1>4, <1>6, <2>1 DEF IInv, TypeOK
<1>9. Holds /\ p \in received /\ (hand.field = 2 => InData(p, t, "fractional_loss"))
  BY <1>1 DEF IInv, Held, Holds, p, t
<1>10. Held'
  <2>1. thread' # "pushing" /\ thread' # "entering" /\ t \in DOMAIN data'
    BY <1>1, <1>2, <1>6
  <2>2. ASSUME NEW q, NEW u, q = p, u = t
        PROVE  InData(q, u, "fractional_loss")'
    BY <1>1, <1>7, <1>9, <2>2
  <2>3. /\ "fractional_loss" \in DOMAIN data'[t]
        /\ p \in Range(data'[t]["fractional_loss"])
    BY <2>2 DEF InData
  <2> QED
    BY <1>2, <1>4, <1>9, <2>1, <2>3 DEF Held, Holds, InData
<1>11. Fresh'
  BY <1>2, <1>7, <1>9 DEF IInv, Fresh
<1>12. Halves'
  <2> SUFFICES ASSUME NEW q, NEW u
               PROVE  \/ InData(q, u, "fractional_loss")' <=> InData(q, u, "jitter")'
                      \/ q = hand'.packet /\ u = hand'.second /\ hand'.field = 2 /\ Holds'
    BY DEF Halves
  <2>1. \/ InData(q, u, "fractional_loss") <=> InData(q, u, "jitter")
        \/ q = p /\ u = t /\ hand.field = 2
    BY DEF IInv, Halves, p, t
  <2>2. CASE ~(q = p /\ u = t)
    BY <1>7, <2>1, <2>2
  <2>3. CASE q = p /\ u = t /\ hand.field = 1
    BY <1>2, <1>4, <2>3 DEF Holds
  <2>4. CASE q = p /\ u = t /\ hand.field = 2
    BY <1>1, <1>7, <1>9, <2>4
  <2> QED
    BY <1>1, <2>2, <2>3, <2>4
<1>13. Keyed'
  BY <1>2, <1>6 DEF IInv, Keyed
<1>14. Late'
  <2>1. Recorded = {q \in received : \E u : Whole(q, u)}
    BY RecordedIs DEF IInv
  <2>2. Recorded' \subseteq Recorded \cup {p}
    <3>1. Recorded' = {q \in received' : \E u : Whole(q, u)'}
      BY <1>8, RecordedNext
    <3>2. ASSUME NEW q, NEW u, q # p, Whole(q, u)'
          PROVE  Whole(q, u)
      BY <1>7, <3>2 DEF Whole
    <3> QED
      BY <1>2, <2>1, <3>1, <3>2
  <2> QED
    BY <1>2, <1>3, <1>4, <2>2 DEF IInv, Late, p
<1>15. Grows
  BY <1>7 DEF Grows, p
<1> QED
  BY <1>2, <1>4, <1>8, <1>10, <1>11, <1>12, <1>13, <1>14, <1>15, MainStays DEF IInv, p
-----------------------------------------------------------------------------
(* Steps of the worker's thread *)

LEMMA ThreadStays ==
  ASSUME IInv, UNCHANGED listenerVars
  PROVE  /\ UNCHANGED <<thread, hand, data, keys, blank, received>>
         /\ \A p, t, f : InData(p, t, f)' <=> InData(p, t, f)
         /\ Recorded' = Recorded
         /\ Held' /\ Fresh' /\ Halves' /\ Keyed'
<1>1. UNCHANGED <<thread, hand, data, keys, blank, received>>
  BY DEF listenerVars
<1>2. \A p, t, f : InData(p, t, f)' <=> InData(p, t, f)
  BY <1>1 DEF InData
<1>3. Recorded' = Recorded
  BY <1>1 DEF Recorded
<1>4. Fresh' /\ Keyed'
  BY <1>1, <1>2 DEF IInv, Fresh, Keyed
<1>5. Held'
  BY <1>1 DEF IInv, Held, Holds, InData
<1>6. Halves'
  BY <1>1, <1>2 DEF IInv, Halves, Holds
<1> QED
  BY <1>1, <1>2, <1>3, <1>4, <1>5, <1>6

LEMMA StopKeeps ==
  ASSUME IInv, Stop
  PROVE  IInv'
<1>1. /\ main = "loading" /\ main' = "closing" /\ running' = FALSE /\ due' = Recorded
      /\ UNCHANGED listenerVars /\ UNCHANGED <<socket, row, report>>
  BY DEF Stop
<1>2. /\ UNCHANGED <<thread, hand, data, keys, blank, received>>
      /\ \A p, t, f : InData(p, t, f)' <=> InData(p, t, f)
      /\ Recorded' = Recorded
      /\ Held' /\ Fresh' /\ Halves' /\ Keyed'
  BY <1>1, ThreadStays
<1>3. TypeOK'
  BY <1>1, <1>2 DEF IInv, TypeOK, Recorded
<1>4. Late' /\ Phases' /\ RowFaithful' /\ NothingLost'
  BY <1>1, <1>2 DEF IInv, Late, Phases, RowFaithful, NothingLost
<1>5. TornInHand'
  BY <1>1, <1>2 DEF IInv, TornInHand
<1>6. Kept'
  <2>1. ASSUME NEW p \in Recorded
        PROVE  \E t : KeptIn(p, t)'
    <3>1. PICK t : Whole(p, t)
      BY RecordedIs DEF IInv
    <3> QED
      BY <1>1, <1>2, <3>1 DEF KeptIn, Whole
  <2> QED
    BY <1>1, <2>1 DEF Kept
<1> QED
  BY <1>2, <1>3, <1>4, <1>5, <1>6 DEF IInv

LEMMA CloseKeeps ==
  ASSUME IInv, Close
  PROVE  IInv'
<1>1. /\ main = "closing" /\ main' \in {"iterating", "skipped"} /\ socket' = "closed"
      /\ UNCHANGED listenerVars /\ UNCHANGED <<running, due, row, report>>
      /\ Len(row) = 0 /\ Len(report) = 0
  BY DEF Close, IInv, Phases
<1>2. /\ UNCHANGED <<thread, hand, data, keys, blank, received>>
      /\ \A p, t, f : InData(p, t, f)' <=> InData(p, t, f)
      /\ Recorded' = Recorded
      /\ Held' /\ Fresh' /\ Halves' /\ Keyed'
  BY <1>1, ThreadStays
<1>3. TypeOK'
  BY <1>1, <1>2 DEF IInv, TypeOK
<1>4. Late'
  BY <1>1, <1>2 DEF IInv, Late
<1>5. Len(keys) \in Nat
  BY LenProperties DEF IInv, TypeOK
<1>6. Phases' /\ NothingLost'
  BY <1>1, <1>2, <1>5 DEF Phases, NothingLost
<1>7. \A k \in 1..0 : FALSE
  OBVIOUS
<1>8. RowFaithful' /\ TornInHand'
  BY <1>1, <1>7 DEF RowFaithful, TornInHand
<1>9. Kept'
  <2>1. ASSUME NEW p, NEW t, KeptIn(p, t)
        PROVE  KeptIn(p, t)'
    BY <1>1, <1>2, <1>7, <2>1 DEF KeptIn, Whole
  <2> QED
    BY <1>1, <2>1 DEF IInv, Kept
<1> QED
  BY <1>2, <1>3, <1>4, <1>6, <1>8, <1>9 DEF IInv

LEMMA ReadKeeps ==
  ASSUME IInv, Read
  PROVE  IInv'
<1> DEFINE n == Len(row) + 1
           t == keys[Len(report) + 1]
           k == Reads[n]
<1>1. /\ main = "iterating" /\ Len(report) < Len(keys) /\ Len(row) < 6
      /\ UNCHANGED listenerVars /\ UNCHANGED <<running, socket, due, report>>
      /\ \/ row' = Append(row, data[t][k]) /\ k \in DOMAIN data[t] /\ main' = main
         \/ main' = "raised" /\ row' = row
  BY ReadsAre DEF Read, Current
<1>2. /\ UNCHANGED <<thread, hand, data, keys, blank, received>>
      /\ \A p, u, f : InData(p, u, f)' <=> InData(p, u, f)
      /\ Recorded' = Recorded
      /\ Held' /\ Fresh' /\ Halves' /\ Keyed'
  BY <1>1, ThreadStays
<1>3. /\ row \in Seq(Seq(Packets)) /\ report \in Seq([time : Seconds, reads : [1..6 -> Seq(Packets)]])
      /\ keys \in Seq(Seconds)
  BY ReadsAre DEF IInv, TypeOK
<1>4. Len(row) \in Nat /\ Len(report) \in Nat /\ Len(keys) \in Nat
  BY <1>3, LenProperties
<1>5. n \in 1..6 /\ Len(report) + 1 \in 1..Len(keys)
  BY <1>1, <1>4
<1>6. t \in DOMAIN data
  BY <1>5 DEF IInv, Keyed
<1>7. Late'
  BY <1>1, <1>2 DEF IInv, Late
<1>8. TornInHand'
  BY <1>1, <1>2 DEF IInv, TornInHand
<1>9. NothingLost'
  BY <1>1 DEF NothingLost
<1>10. CASE main' = "raised" /\ row' = row
  <2>1. TypeOK'
    BY <1>1, <1>2, <1>10 DEF IInv, TypeOK
  <2>2. Phases' /\ RowFaithful'
    BY <1>1, <1>2, <1>10 DEF IInv, Phases, RowFaithful
  <2>3. Kept'
    <3>1. ASSUME NEW p, NEW u, KeptIn(p, u)
          PROVE  KeptIn(p, u)'
      BY <1>2, <1>10, <3>1 DEF KeptIn, Whole
    <3> QED
      BY <1>1, <3>1 DEF IInv, Kept
  <2> QED
    BY <1>2, <1>7, <1>8, <1>9, <2>1, <2>2, <2>3 DEF IInv
<1>11. CASE row' = Append(row, data[t][k]) /\ k \in DOMAIN data[t] /\ main' = main
  <2>1. data[t][k] \in Seq(Packets)
    BY <1>6, <1>11 DEF IInv, TypeOK
  <2>2. /\ row' \in Seq(Seq(Packets)) /\ Len(row') = n
        /\ \A m \in 1..Len(row) : row'[m] = row[m]
        /\ row'[n] = data[t][k]
    BY <1>3, <1>11, <2>1, Appended
  <2>3. \A m \in 1..n : m \in 1..Len(row) \/ m = n
    BY <1>4
  <2>4. TypeOK'
    <3>1. n <= Len(Reads)
      BY <1>5, ReadsAre
    <3> QED
      BY <1>1, <1>2, <1>11, <2>2, <3>1 DEF IInv, TypeOK
  <2>5. Phases'
    BY <1>1, <1>2, <1>11 DEF IInv, Phases
  <2>6. \A p : p \in Range(row'[n]) <=> InData(p, t, k)
    BY <1>6, <1>11, <2>2 DEF InData
  <2>7. RowFaithful'
    <3>1. ASSUME NEW m \in 1..n, NEW p \in Packets \ {hand.packet}
          PROVE  p \in Range(row'[m]) <=> InData(p, t, Reads[m])
      <4>1. CASE m = n
        BY <2>6, <4>1
      <4>2. CASE m \in 1..Len(row)
        BY <1>1, <2>2, <4>2 DEF IInv, RowFaithful
      <4> QED
        BY <2>3, <4>1, <4>2
    <3> HIDE DEF n, k
    <3>2. /\ hand' = hand /\ keys' = keys /\ report' = report
          /\ \A p, u, f : InData(p, u, f)' <=> InData(p, u, f)
      BY <1>1, <1>2
    <3> QED
      BY <2>2, <3>1, <3>2 DEF RowFaithful
  <2>8. Kept'
    <3>1. ASSUME NEW p, NEW u, KeptIn(p, u)
          PROVE  KeptIn(p, u)'
      <4>1. Whole(p, u) /\ Whole(p, u)'
        BY <1>2, <3>1 DEF KeptIn, Whole
      <4>2. \A i \in 1..Len(report) : keys[i] = u => \A m \in 1..6 : p \in Range(report[i].reads[m])
        BY <1>1, <3>1 DEF KeptIn
      <4>3. ASSUME t = u, NEW m \in 1..n
            PROVE  p \in Range(row'[m])
        <5>1. CASE m = n
          <6>1. InData(p, t, k)
            BY <1>5, <4>1, <4>3, ReadsAre DEF Whole
          <6> QED
            BY <2>6, <5>1, <6>1
        <5>2. CASE m \in 1..Len(row)
          <6>1. Len(row) # 0
            BY <5>2
          <6> QED
            BY <1>1, <2>2, <3>1, <4>3, <5>2, <6>1 DEF KeptIn
        <5> QED
          BY <2>3, <5>1, <5>2
      <4> HIDE DEF n, k
      <4> QED
        BY <1>1, <1>2, <2>2, <4>1, <4>2, <4>3 DEF KeptIn
    <3> QED
      BY <1>1, <3>1 DEF IInv, Kept
  <2> QED
    BY <1>2, <1>7, <1>8, <1>9, <2>4, <2>5, <2>7, <2>8 DEF IInv
<1> QED
  BY <1>1, <1>10, <1>11

LEMMA EndRowKeeps ==
  ASSUME IInv, EndRow
  PROVE  IInv'
<1> DEFINE t   == keys[Len(report) + 1]
           new == [time |-> t, reads |-> row]
           n   == Len(report) + 1
<1>1. /\ main = "iterating" /\ main' = main /\ Len(row) = 6
      /\ report' = Append(report, new) /\ row' = <<>>
      /\ UNCHANGED listenerVars /\ UNCHANGED <<running, socket, due>>
  BY ReadsAre DEF EndRow, Current
<1>2. /\ UNCHANGED <<thread, hand, data, keys, blank, received>>
      /\ \A p, u, f : InData(p, u, f)' <=> InData(p, u, f)
      /\ Recorded' = Recorded
      /\ Held' /\ Fresh' /\ Halves' /\ Keyed'
  BY <1>1, ThreadStays
<1>3. /\ row \in Seq(Seq(Packets)) /\ report \in Seq([time : Seconds, reads : [1..6 -> Seq(Packets)]])
      /\ keys \in Seq(Seconds)
  BY ReadsAre DEF IInv, TypeOK
<1>4. Len(report) \in Nat /\ Len(keys) \in Nat /\ Len(report) < Len(keys)
  <2>1. Len(report) < Len(keys)
    BY <1>1 DEF IInv, Phases
  <2> QED
    BY <1>3, <2>1, LenProperties
<1>5. DOMAIN row = 1..6 /\ row \in [1..6 -> Seq(Packets)]
  <2>1. /\ DOMAIN row = 1..Len(row) /\ row \in [1..Len(row) -> Seq(Packets)]
    BY <1>3, LenProperties
  <2> QED
    BY <1>1, <2>1
<1>6. t \in Seconds
  <2>1. n \in 1..Len(keys)
    BY <1>4
  <2> QED
    BY <1>3, <2>1, ElementOfSeq
<1>7. new \in [time : Seconds, reads : [1..6 -> Seq(Packets)]] /\ new.reads = row
  BY <1>5, <1>6
<1> HIDE DEF new
<1>8. /\ report' \in Seq([time : Seconds, reads : [1..6 -> Seq(Packets)]])
      /\ Len(report') = n
      /\ \A i \in 1..Len(report) : report'[i] = report[i]
      /\ report'[n] = new
  BY <1>1, <1>3, <1>7, Appended
<1>9. \A i \in 1..n : i \in 1..Len(report) \/ i = n
  BY <1>4
<1>10. row' \in Seq(Seq(Packets)) /\ Len(row') = 0
  BY <1>1, NoneIn
<1>11. TypeOK'
  BY <1>1, <1>2, <1>8, <1>10, ReadsAre DEF IInv, TypeOK
<1>12. Late'
  BY <1>1, <1>2 DEF IInv, Late
<1>13. Phases'
  BY <1>1, <1>2, <1>4, <1>8, <1>10 DEF IInv, Phases
<1>14. NothingLost'
  BY <1>1 DEF NothingLost
<1>15. \A m \in 1..0 : FALSE
  OBVIOUS
<1>16. RowFaithful'
  BY <1>10, <1>15 DEF RowFaithful
<1>17. TornInHand'
  <2>1. Torn(new) \subseteq {hand.packet}
    <3>1. ASSUME NEW p \in Packets, p # hand.packet
          PROVE  \/ \A m \in 1..6 : p \in Range(row[m])
                 \/ \A m \in 1..6 : p \notin Range(row[m])
      <4>1. InData(p, t, "fractional_loss") <=> InData(p, t, "jitter")
        BY <3>1 DEF IInv, Halves
      <4>2. \A m \in 1..6 : p \in Range(row[m]) <=> InData(p, t, Reads[m])
        BY <1>1, <3>1 DEF IInv, RowFaithful
      <4> QED
        BY <4>1, <4>2, ReadsAre
    <3> QED
      BY <1>5, <1>7, <3>1 DEF Torn
  <2>2. ASSUME NEW i \in 1..n
        PROVE  Torn(report'[i]) \subseteq {hand.packet}
    BY <1>8, <1>9, <2>1 DEF IInv, TornInHand
  <2> QED
    BY <1>2, <1>8, <2>2 DEF TornInHand
<1>18. Kept'
  <2>1. ASSUME NEW p, NEW u, KeptIn(p, u)
        PROVE  KeptIn(p, u)'
    <3>1. Whole(p, u)'
      BY <1>2, <2>1 DEF KeptIn, Whole
    <3>2. ASSUME NEW i \in 1..n, keys[i] = u, NEW m \in 1..6
          PROVE  p \in Range(report'[i].reads[m])
      <4>1. CASE i \in 1..Len(report)
        BY <1>1, <1>8, <2>1, <3>2, <4>1 DEF KeptIn
      <4>2. CASE i = n
        BY <1>1, <1>7, <1>8, <2>1, <3>2, <4>2 DEF KeptIn
      <4> QED
        BY <1>9, <4>1, <4>2
    <3> QED
      BY <1>2, <1>8, <1>10, <3>1, <3>2 DEF KeptIn
  <2> QED
    BY <1>1, <2>1 DEF IInv, Kept
<1> QED
  BY <1>2, <1>11, <1>12, <1>13, <1>14, <1>16, <1>17, <1>18 DEF IInv

LEMMA FinishKeeps ==
  ASSUME IInv, Finish
  PROVE  IInv'
<1>1. /\ main = "iterating" /\ main' = "done" /\ Len(report) = Len(keys)
      /\ UNCHANGED listenerVars /\ UNCHANGED <<running, socket, due, row, report>>
  BY DEF Finish
<1>2. /\ UNCHANGED <<thread, hand, data, keys, blank, received>>
      /\ \A p, u, f : InData(p, u, f)' <=> InData(p, u, f)
      /\ Recorded' = Recorded
      /\ Held' /\ Fresh' /\ Halves' /\ Keyed'
  BY <1>1, ThreadStays
<1>3. TypeOK'
  BY <1>1, <1>2 DEF IInv, TypeOK
<1>4. Late' /\ Phases' /\ RowFaithful' /\ TornInHand'
  BY <1>1, <1>2 DEF IInv, Late, Phases, RowFaithful, TornInHand
<1>5. Kept'
  <2>1. ASSUME NEW p, NEW u, KeptIn(p, u)
        PROVE  KeptIn(p, u)'
    BY <1>1, <1>2, <2>1 DEF KeptIn, Whole
  <2> QED
    BY <1>1, <2>1 DEF IInv, Kept
<1>6. NothingLost'
  <2>1. report \in Seq([time : Seconds, reads : [1..6 -> Seq(Packets)]])
    BY ReadsAre DEF IInv, TypeOK
  <2>2. DOMAIN report = 1..Len(report)
    BY <2>1, LenProperties
  <2>3. ASSUME NEW p \in due
        PROVE  \E i \in DOMAIN report : \A k \in DOMAIN Reads : p \in Range(report[i].reads[k])
    <3>1. PICK u : KeptIn(p, u)
      BY <1>1 DEF IInv, Kept
    <3>2. u \in DOMAIN data
      BY <3>1 DEF KeptIn, Whole, InData
    <3>3. PICK i \in 1..Len(keys) : keys[i] = u
      BY <3>2 DEF IInv, Keyed
    <3>4. i \in 1..Len(report)
      BY <1>1, <3>3
    <3> QED
      BY <1>1, <2>2, <3>1, <3>3, <3>4, ReadsAre DEF KeptIn
  <2> QED
    BY <1>1, <2>3 DEF NothingLost
<1> QED
  BY <1>2, <1>3, <1>4, <1>5, <1>6 DEF IInv
-----------------------------------------------------------------------------
(* The invariant, and the theorems *)

LEMMA Start == Init => IInv
<1> SUFFICES ASSUME Init PROVE IInv
  OBVIOUS
<1>1. /\ DOMAIN data = {} /\ Len(keys) = 0 /\ Len(row) = 0 /\ Len(report) = 0
      /\ keys \in Seq(Seconds) /\ row \in Seq(Seq(Packets))
      /\ report \in Seq([time : Seconds, reads : [1..Len(Reads) -> Seq(Packets)]])
  BY NoneIn DEF Init
<1>2. TypeOK
  BY <1>1, ReadsAre DEF Init, TypeOK
<1>3. \A p, t, f : ~InData(p, t, f)
  BY <1>1 DEF InData
<1>4. \A k \in 1..0 : FALSE
  OBVIOUS
<1>5. Held /\ Fresh /\ Halves /\ Keyed
  BY <1>1, <1>3, <1>4 DEF Init, Held, Holds, Fresh, Halves, Keyed
<1>6. Late /\ Phases /\ RowFaithful /\ TornInHand /\ Kept /\ NothingLost
  BY <1>1, <1>4 DEF Init, Late, Phases, RowFaithful, TornInHand, Kept, NothingLost
<1> QED
  BY <1>2, <1>5, <1>6 DEF IInv

LEMMA Inductive == IInv /\ [Next]_vars => IInv'
<1> SUFFICES ASSUME IInv, [Next]_vars PROVE IInv'
  OBVIOUS
<1>1. CASE Check
  BY <1>1, MovesKeep DEF Check, Goto, Holds
<1>2. CASE Nothing
  BY <1>2, MovesKeep DEF Nothing, Goto, Holds
<1>3. CASE Receive
  BY <1>3, ReceiveKeeps
<1>4. CASE Break
  BY <1>4, MovesKeep DEF Break, Goto, Holds
<1>5. CASE Enter
  BY <1>5, EnterKeeps
<1>6. CASE Assign
  BY <1>6, AssignKeeps
<1>7. CASE Push
  BY <1>7, PushKeeps
<1>8. CASE Stop
  BY <1>8, StopKeeps
<1>9. CASE Close
  BY <1>9, CloseKeeps
<1>10. CASE Read
  BY <1>10, ReadKeeps
<1>11. CASE EndRow
  BY <1>11, EndRowKeeps
<1>12. CASE Finish
  BY <1>12, FinishKeeps
<1>13. CASE UNCHANGED vars
  <2>1. UNCHANGED listenerVars /\ UNCHANGED mainVars
    BY <1>13 DEF vars
  <2>2. /\ UNCHANGED <<thread, hand, data, keys, blank, received>>
        /\ \A p, t, f : InData(p, t, f)' <=> InData(p, t, f)
        /\ Recorded' = Recorded
        /\ Held' /\ Fresh' /\ Halves' /\ Keyed'
    BY <2>1, ThreadStays
  <2>3. UNCHANGED <<running, socket, due, main, row, report>>
    BY <2>1 DEF mainVars
  <2>4. TypeOK' /\ Late'
    BY <2>2, <2>3 DEF IInv, TypeOK, Late
  <2>5. Phases' /\ RowFaithful' /\ TornInHand' /\ Kept' /\ NothingLost'
    BY <2>1, <2>2, MainStays DEF Grows
  <2> QED
    BY <2>2, <2>4, <2>5 DEF IInv
<1> QED
  BY <1>1, <1>2, <1>3, <1>4, <1>5, <1>6, <1>7, <1>8, <1>9, <1>10, <1>11, <1>12, <1>13
     DEF Next, ThreadStep, MainStep

LEMMA Invariant == Spec => []IInv
  BY Start, Inductive, PTL DEF Spec

LEMMA AtMostOne ==
  ASSUME NEW a, NEW S, S \subseteq {a}
  PROVE  Cardinality(S) <= 1
<1>1. S = {} \/ S = {a}
  OBVIOUS
<1>2. Cardinality({}) = 0 /\ Cardinality({a}) = 1
  BY FS_EmptySet, FS_Singleton
<1> QED
  BY <1>1, <1>2

(* Every variable of the listener and of the thread that stops it keeps    *)
(* its type; no report has a row with a figure missing.                    *)
THEOREM TypeCorrect == Spec => []TypeOK
<1>1. IInv => TypeOK
  BY DEF IInv
<1> QED
  BY <1>1, Invariant, PTL

(* At most one packet of a report is counted in some figures of its second *)
(* and not in others, although the worker does not wait for the thread.    *)
THEOREM OnePacketIsTorn == Spec => []OneTornPacket
<1>1. IInv => OneTornPacket
  <2> SUFFICES ASSUME IInv PROVE OneTornPacket
    OBVIOUS
  <2>1. report \in Seq([time : Seconds, reads : [1..Len(Reads) -> Seq(Packets)]])
    BY DEF IInv, TypeOK
  <2>2. DOMAIN report = 1..Len(report)
    BY <2>1, LenProperties
  <2>3. UNION {Torn(report[i]) : i \in DOMAIN report} \subseteq {hand.packet}
    BY <2>2 DEF IInv, TornInHand
  <2> QED
    BY <2>3, AtMostOne DEF OneTornPacket
<1> QED
  BY <1>1, Invariant, PTL

(* A packet that was in the hash when the listener was stopped is in every *)
(* figure of a row of the report.                                          *)
THEOREM NothingIsLost == Spec => []NothingLost
<1>1. IInv => NothingLost
  BY DEF IInv
<1> QED
  BY <1>1, Invariant, PTL

(* A listener that was stopped puts at most one more packet into the hash. *)
THEOREM OnePacketIsLate == Spec => []OneLatePacket
<1>1. IInv => OneLatePacket
  <2> SUFFICES ASSUME IInv, main # "loading" PROVE Cardinality(Recorded \ due) <= 1
    BY DEF OneLatePacket
  <2>1. Recorded \ due \subseteq {hand.packet}
    BY DEF IInv, Late
  <2> QED
    BY <2>1, AtMostOne
<1> QED
  BY <1>1, Invariant, PTL
=============================================================================
