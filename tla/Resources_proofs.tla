-------------------------- MODULE Resources_proofs --------------------------
(***************************************************************************)
(* Theorems of Resources, for any number of web processes, runs, names and *)
(* requests.                                                               *)
(*                                                                         *)
(* The inductive invariant adds to the three properties what a request     *)
(* knows: what is left to save is well formed, an update is about a row of *)
(* its kind and user (its id is never given out again), and a validation   *)
(* that no write put out of date still holds.                              *)
(***************************************************************************)
EXTENDS Resources, SequenceTheorems, TLAPS

(* Only scenarios have a direction. *)
Directed == {row \in Row : row.receiver => row.kind = "scenario"}

Saves == [to : 0..MaxRows, row : Directed, renames : BOOLEAN]

Ops == {"none", "create", "copy", "update"}

Requests == [op : Ops, saves : Seq(Saves),
             checked : BOOLEAN, outdated : BOOLEAN, alert : BOOLEAN,
             registration : 0..MaxRows, again : Seq(Saves)]

(* A registration scenario without a scenario. *)
Stray(row) == row.registration /\ row.owner = 0

(* Only the first of the two saves of a create, or the one it tries again, *)
(* is about a registration without a scenario.                             *)
Shaped(q) ==
  /\ q \in Requests
  /\ Len(q.saves) + Len(q.again) <= 2
  /\ Len(q.again) # 0 => q.op = "create" /\ Len(q.saves) = 1
  /\ q.checked => Len(q.saves) # 0
  /\ q.registration # 0 => q.op = "create"
  /\ q.op = "create" => \A k \in 1..Len(q.saves) : q.saves[k].to = 0
  /\ q.op = "create" => \A k \in 1..Len(q.again) : q.again[k].to = 0
  /\ \A k \in 1..Len(q.saves) :
       q.saves[k].to = 0 /\ Stray(q.saves[k].row) =>
         k = 1 /\ q.op = "create" /\ Len(q.saves) = 2

(* The row of an update has not changed its kind or its user. *)
Related(s, table, last) ==
  /\ s.to <= last
  /\ s.to \in DOMAIN table => s.row.kind = table[s.to].kind /\ s.row.user = table[s.to].user

Kindred(q, table, last) ==
  /\ \A k \in 1..Len(q.saves) : Related(q.saves[k], table, last)
  /\ \A k \in 1..Len(q.again) : Related(q.again[k], table, last)

Types ==
  /\ DOMAIN rows \subseteq 1..lastId
  /\ \A i \in DOMAIN rows : rows[i] \in Directed
  /\ lastId \in 0..MaxRows
  /\ asked \in 0..MaxRequests
  /\ runs \in [Runs -> [profile : 0..MaxRows, scenario : 0..MaxRows, receiver : 0..MaxRows]]
  /\ raced \subseteq Ids
  /\ strays \subseteq Ids

Asked == /\ req \in [Web -> Requests]
         /\ \A w \in Web : Shaped(req[w]) /\ Kindred(req[w], rows, lastId)

(* A validation that is not out of date still holds. *)
Current == \A w \in Web : req[w].checked /\ ~req[w].outdated => ~Taken(req[w].saves[1])

IInv == Types /\ Asked /\ Current /\ UniqueNames /\ StraysRefused
-----------------------------------------------------------------------------
(* Sequences of saves *)

LEMMA HeadAndTail ==
  ASSUME NEW S, NEW s \in Seq(S), s # <<>>
  PROVE  /\ Head(s) = s[1] /\ s[1] \in S
         /\ Len(s) \in Nat \ {0}
         /\ Tail(s) \in Seq(S)
         /\ Len(Tail(s)) = Len(s) - 1
         /\ \A k \in 1..Len(s) - 1 : Tail(s)[k] = s[k + 1]
  BY HeadTailProperties, EmptySeq, LenProperties, ElementOfSeq

LEMMA Emptied ==
  ASSUME NEW S, NEW s \in Seq(S)
  PROVE  s = <<>> <=> Len(s) = 0
  BY EmptySeq

LEMMA OneAndOne ==
  ASSUME NEW S, NEW a \in S, NEW b \in S
  PROVE  <<a>> \o <<b>> = <<a, b>>
<1> DEFINE s == <<a>>
           t == <<b>>
           u == <<a, b>>
<1>1. /\ s \in Seq(S) /\ Len(s) = 1 /\ s[1] = a
      /\ t \in Seq(S) /\ Len(t) = 1 /\ t[1] = b
      /\ u \in Seq(S) /\ Len(u) = 2 /\ u[1] = a /\ u[2] = b
  OBVIOUS
<1> HIDE DEF s, t, u
<1>2. /\ s \o t \in Seq(S) /\ Len(s \o t) = 2
      /\ \A k \in 1..2 : (s \o t)[k] = IF k <= 1 THEN s[k] ELSE t[k - 1]
  BY <1>1, ConcatProperties
<1>3. s \o t = u
  BY <1>1, <1>2, SeqEqual
<1> QED
  BY <1>3 DEF s, t, u

(* What a create tries again is told its scenario. *)
Told(again, i) == [k \in DOMAIN again |-> [again[k] EXCEPT !.row.owner = i]]

LEMMA Adopted ==
  ASSUME NEW s \in Saves, NEW i \in 1..MaxRows
  PROVE  /\ [s EXCEPT !.row.owner = i] \in Saves
         /\ [s EXCEPT !.row.owner = i].to = s.to
         /\ [s EXCEPT !.row.owner = i].row.kind = s.row.kind
         /\ [s EXCEPT !.row.owner = i].row.user = s.row.user
         /\ [s EXCEPT !.row.owner = i].row.owner = i
<1> DEFINE row == [s.row EXCEPT !.owner = i]
<1>1. s.row \in Row /\ (s.row.receiver => s.row.kind = "scenario")
  BY DEF Saves, Directed
<1>2. i \in 0..MaxRows
  BY BoundsAssumption
<1>3. /\ row \in Row /\ row.receiver = s.row.receiver /\ row.kind = s.row.kind
      /\ row.user = s.row.user /\ row.owner = i
  BY <1>1, <1>2 DEF Row
<1>4. row \in Directed
  BY <1>1, <1>3 DEF Directed
<1>5. [s EXCEPT !.row.owner = i] = [s EXCEPT !.row = row]
  BY DEF Saves
<1>6. /\ [s EXCEPT !.row = row] \in Saves
      /\ [s EXCEPT !.row = row].to = s.to
      /\ [s EXCEPT !.row = row].row = row
  BY <1>4 DEF Saves
<1> HIDE DEF row
<1> QED
  BY <1>3, <1>5, <1>6

LEMMA ToldIs ==
  ASSUME NEW again \in Seq(Saves), NEW i \in 1..MaxRows
  PROVE  /\ Told(again, i) \in Seq(Saves)
         /\ Len(Told(again, i)) = Len(again)
         /\ \A k \in 1..Len(again) : /\ Told(again, i)[k].to = again[k].to
                                     /\ Told(again, i)[k].row.kind = again[k].row.kind
                                     /\ Told(again, i)[k].row.user = again[k].row.user
                                     /\ Told(again, i)[k].row.owner = i
<1>1. DOMAIN again = 1..Len(again) /\ Len(again) \in Nat
  BY LenProperties
<1>2. \A k \in 1..Len(again) : again[k] \in Saves
  BY ElementOfSeq
<1>3. \A k \in 1..Len(again) : [again[k] EXCEPT !.row.owner = i] \in Saves
  BY <1>2, Adopted
<1>4. Told(again, i) \in [1..Len(again) -> Saves]
  BY <1>1, <1>3 DEF Told
<1>5. Told(again, i) \in Seq(Saves) /\ Len(Told(again, i)) = Len(again)
  BY <1>1, <1>4
<1>6. \A k \in 1..Len(again) : Told(again, i)[k] = [again[k] EXCEPT !.row.owner = i]
  BY <1>1 DEF Told
<1>7. ASSUME NEW k \in 1..Len(again)
      PROVE  /\ Told(again, i)[k].to = again[k].to
             /\ Told(again, i)[k].row.kind = again[k].row.kind
             /\ Told(again, i)[k].row.user = again[k].row.user
             /\ Told(again, i)[k].row.owner = i
  <2>1. again[k] \in Saves
    BY <1>2
  <2>2. Told(again, i)[k] = [again[k] EXCEPT !.row.owner = i]
    BY <1>6
  <2> QED
    BY SMTT(40), <2>1, <2>2, Adopted
<1> QED
  BY <1>5, <1>7
-----------------------------------------------------------------------------
(* What requests ask for *)

LEMMA NewRowIs ==
  ASSUME NEW kind \in Kinds, NEW name \in Names, NEW receiver \in BOOLEAN,
         NEW registration \in BOOLEAN, receiver => kind = "scenario"
  PROVE  /\ NewRow(kind, name, receiver, registration) \in Directed
         /\ NewRow(kind, name, receiver, registration).owner = 0
         /\ NewRow(kind, name, receiver, registration).registration = registration
  BY BoundsAssumption DEF NewRow, Directed, Row

LEMMA SaveIs ==
  ASSUME NEW to \in 0..MaxRows, NEW row \in Directed
  PROVE  Save(to, row) \in Saves /\ Save(to, row).to = to /\ Save(to, row).row = row
  BY DEF Save, Saves

LEMMA NewRelates ==
  ASSUME Types, NEW s, s.to = 0
  PROVE  Related(s, rows, lastId)
  BY DEF Types, Related

LEMMA AskingIs ==
  ASSUME NEW op \in Ops, NEW saves \in Seq(Saves)
  PROVE  /\ Asking(op, saves) \in Requests
         /\ Asking(op, saves).op = op
         /\ Asking(op, saves).saves = saves
         /\ Asking(op, saves).checked = FALSE
         /\ Asking(op, saves).outdated = FALSE
         /\ Asking(op, saves).registration = 0
         /\ Len(Asking(op, saves).again) = 0
<1>1. <<>> \in Seq(Saves) /\ Len(<<>>) = 0
  OBVIOUS
<1>2. 0 \in 0..MaxRows
  BY BoundsAssumption
<1> DEFINE none == <<>>
<1>3. Asking(op, saves) = [op |-> op, saves |-> saves, checked |-> FALSE, outdated |-> FALSE,
                           alert |-> FALSE, registration |-> 0, again |-> none]
  BY DEF Asking
<1>4. none \in Seq(Saves)
  BY <1>1
<1> HIDE DEF none
<1>5. Asking(op, saves) \in Requests
  BY <1>2, <1>3, <1>4 DEF Requests
<1>6. /\ Asking(op, saves).op = op
      /\ Asking(op, saves).saves = saves
      /\ Asking(op, saves).checked = FALSE
      /\ Asking(op, saves).outdated = FALSE
      /\ Asking(op, saves).registration = 0
      /\ Asking(op, saves).again = none
  BY <1>3
<1> QED
  BY <1>1, <1>5, <1>6 DEF none

LEMMA NewSave ==
  ASSUME NEW row \in Directed
  PROVE  Save(0, row) \in Saves /\ Save(0, row).to = 0 /\ Save(0, row).row = row
<1>1. 0 \in 0..MaxRows
  BY BoundsAssumption
<1> QED
  BY <1>1, SaveIs

LEMMA OneSave ==
  ASSUME NEW op \in Ops, NEW s \in Saves,
         op = "create" => s.to = 0, s.to # 0 \/ ~Stray(s.row),
         NEW table, NEW last, Related(s, table, last)
  PROVE  LET q == Asking(op, <<s>>) IN
         Shaped(q) /\ Kindred(q, table, last) /\ ~q.checked
<1> DEFINE all == <<s>>
           q   == Asking(op, all)
<1>1. all \in Seq(Saves)
  OBVIOUS
<1>2. /\ Len(all) = 1 
      /\ all[1] = s
  OBVIOUS
<1> HIDE DEF all
<1>4. /\ q \in Requests
      /\ q.op = op /\ q.saves = all /\ q.checked = FALSE /\ q.registration = 0 /\ Len(q.again) = 0
  BY ZenonT(40), <1>1, AskingIs
<1> HIDE DEF q
<1>5. Len(q.saves) = 1 /\ q.saves[1] = s
  BY <1>2, <1>4
<1>6. \A k \in 1..Len(q.saves) : k = 1
  BY <1>5
<1>7. Shaped(q)
  BY <1>4, <1>5, <1>6 DEF Shaped
<1>8. Kindred(q, table, last)
  BY <1>4, <1>5, <1>6 DEF Kindred
<1> QED
  BY <1>4, <1>7, <1>8 DEF q, all

LEMMA TwoSaves ==
  ASSUME NEW op \in Ops, NEW s \in Saves, NEW t \in Saves,
         op = "create" => s.to = 0 /\ t.to = 0,
         op = "create" \/ s.to # 0, t.to # 0 \/ ~Stray(t.row),
         NEW table, NEW last, Related(s, table, last), Related(t, table, last)
  PROVE  LET q == Asking(op, <<s, t>>) IN
         Shaped(q) /\ Kindred(q, table, last) /\ ~q.checked
<1> DEFINE all == <<s, t>>
           q   == Asking(op, all)
<1>1. all \in Seq(Saves)
  OBVIOUS
<1>2. /\ Len(all) = 2 
      /\ all[1] = s /\ all[2] = t
  OBVIOUS
<1> HIDE DEF all
<1>4. /\ q \in Requests
      /\ q.op = op /\ q.saves = all /\ q.checked = FALSE /\ q.registration = 0 /\ Len(q.again) = 0
  BY <1>1, AskingIs
<1> HIDE DEF q
<1>5. Len(q.saves) = 2 /\ q.saves[1] = s /\ q.saves[2] = t
  BY <1>2, <1>4
<1>6. \A k \in 1..Len(q.saves) : k = 1 \/ k = 2
  BY <1>5
<1>7. Shaped(q)
  BY <1>4, <1>5, <1>6 DEF Shaped
<1>8. Kindred(q, table, last)
  BY <1>4, <1>5, <1>6 DEF Kindred
<1> QED
  BY <1>4, <1>7, <1>8 DEF q, all

(* A request but for what it says, and for being out of date. *)
Alias(q, r) ==
  /\ r \in Requests
  /\ r.op = q.op /\ r.saves = q.saves /\ r.checked = q.checked
  /\ r.registration = q.registration /\ r.again = q.again

LEMMA AliasIs ==
  ASSUME NEW q, Shaped(q), NEW r, Alias(q, r), NEW table, NEW last, Kindred(q, table, last)
  PROVE  Shaped(r) /\ Kindred(r, table, last)
  BY DEF Alias, Shaped, Kindred

LEMMA SaysIs ==
  ASSUME NEW q, Shaped(q), ~q.checked, NEW alert \in BOOLEAN,
         NEW table, NEW last, Kindred(q, table, last)
  PROVE  LET r == [q EXCEPT !.alert = alert] IN
         Shaped(r) /\ Kindred(r, table, last) /\ ~r.checked
<1> DEFINE r == [q EXCEPT !.alert = alert]
<1>1. q \in Requests
  BY DEF Shaped
<1>2. Alias(q, r)
  BY <1>1 DEF Alias, Requests
<1> HIDE DEF r
<1>3. Shaped(r) /\ Kindred(r, table, last) /\ ~r.checked
  BY <1>2, AliasIs DEF Alias
<1> QED
  BY <1>3 DEF r

(* A request that comes in is well formed, and changes nothing else. *)
Comes(w) ==
  /\ \E q : /\ Shaped(q) /\ Kindred(q, rows, lastId) /\ ~q.checked
            /\ IsIdle(w) /\ asked < MaxRequests /\ asked' = asked + 1
            /\ req' = [req EXCEPT ![w] = q]
  /\ UNCHANGED <<rows, lastId, runs, raced, strays>>

LEMMA CreateComes ==
  ASSUME Types, NEW w \in Web, NEW kind \in Kinds, NEW name \in Names, NEW receiver \in BOOLEAN,
         Create(w, kind, name, receiver)
  PROVE  Comes(w)
<1> DEFINE row == NewRow(kind, name, receiver, FALSE)
           s   == Save(0, row)
           q   == Asking("create", <<s>>)
<1>1. /\ row \in Directed /\ row.owner = 0 /\ row.registration = FALSE
  BY NewRowIs DEF Create
<1>2. s \in Saves /\ s.to = 0 /\ s.row = row
  BY <1>1, NewSave
<1>3. Related(s, rows, lastId)
  BY <1>2, NewRelates
<1>4. ~Stray(s.row)
  BY <1>1, <1>2 DEF Stray
<1>5. Shaped(q) /\ Kindred(q, rows, lastId) /\ ~q.checked
  <2> HIDE DEF s, row
  <2>1. "create" \in Ops
    BY DEF Ops
  <2> QED
    BY <1>2, <1>3, <1>4, <2>1, OneSave
<1>6. /\ Request(w, q)
      /\ UNCHANGED <<rows, lastId, runs, raced, strays>>
  BY DEF Create
<1> HIDE DEF q
<1> QED
  BY <1>5, <1>6 DEF Comes, Request

LEMMA RegistrationComes ==
  ASSUME Types, NEW w \in Web, NEW name \in Names, NEW regName \in Names,
         CreateWithRegistration(w, name, regName)
  PROVE  Comes(w)
<1> DEFINE r == NewRow("scenario", regName, FALSE, TRUE)
           v == NewRow("scenario", name, TRUE, FALSE)
           s == Save(0, r)
           t == Save(0, v)
           q == Asking("create", <<s, t>>)
<1>1. /\ r \in Directed
      /\ v \in Directed /\ v.registration = FALSE
  BY NewRowIs DEF CreateWithRegistration
<1>2. s \in Saves /\ s.to = 0 /\ t \in Saves /\ t.to = 0 /\ t.row = v
  BY <1>1, NewSave
<1>3. Related(s, rows, lastId) /\ Related(t, rows, lastId)
  BY <1>2, NewRelates
<1>4. ~Stray(t.row)
  BY <1>1, <1>2 DEF Stray
<1>5. Shaped(q) /\ Kindred(q, rows, lastId) /\ ~q.checked
  <2> HIDE DEF s, t, r, v
  <2>1. "create" \in Ops
    BY DEF Ops
  <2> QED
    BY <1>2, <1>3, <1>4, <2>1, TwoSaves
<1>6. /\ Request(w, q)
      /\ UNCHANGED <<rows, lastId, runs, raced, strays>>
  BY DEF CreateWithRegistration
<1> HIDE DEF q
<1> QED
  BY <1>5, <1>6 DEF Comes, Request

LEMMA CopyComes ==
  ASSUME Types, NEW w \in Web, NEW i \in Ids, Copy(w, i)
  PROVE  Comes(w)
<1> DEFINE row == NewRow(rows[i].kind, CopyOf[rows[i].name], FALSE, FALSE)
           s   == Save(0, row)
           q   == Asking("copy", <<s>>)
<1>1. rows[i].kind \in Kinds /\ CopyOf[rows[i].name] \in Names
  BY NamesAssumption DEF Copy, Types, Directed, Row
<1>2. row \in Directed /\ row.registration = FALSE
  BY <1>1, NewRowIs
<1>3. s \in Saves /\ s.to = 0 /\ s.row = row
  BY <1>2, NewSave
<1>4. Related(s, rows, lastId) /\ ~Stray(s.row)
  BY <1>2, <1>3, NewRelates DEF Stray
<1>5. Shaped(q) /\ Kindred(q, rows, lastId) /\ ~q.checked
  <2> HIDE DEF s, row
  <2>1. "copy" \in Ops
    BY DEF Ops
  <2> QED
    BY <1>3, <1>4, <2>1, OneSave
<1>6. /\ Request(w, q)
      /\ UNCHANGED <<rows, lastId, runs, raced, strays>>
  BY DEF Copy
<1> HIDE DEF q
<1> QED
  BY <1>5, <1>6 DEF Comes, Request

LEMMA UpdateComes ==
  ASSUME Types, NEW w \in Web, NEW i \in Ids, NEW name \in Names, NEW regName \in Names,
         Update(w, i, name, regName)
  PROVE  Comes(w)
<1> DEFINE row   == [rows[i] EXCEPT !.name = name]
           s     == Save(i, row)
           alert == rows[i].kind = "scenario" /\ ~Writable(i)
           plain == Asking("update", <<s>>)
           one   == [plain EXCEPT !.alert = alert]
<1>1. /\ i \in DOMAIN rows /\ rows[i] \in Directed
      /\ i \in 0..MaxRows /\ i # 0 /\ i <= lastId
  BY BoundsAssumption DEF Types, Update
<1>2. row \in Directed /\ row.kind = rows[i].kind /\ row.user = rows[i].user
  BY <1>1 DEF Directed, Row
<1> HIDE DEF row
<1>3. s \in Saves /\ s.to = i /\ s.row = row
  BY <1>1, <1>2, SaveIs
<1>4. s.to # 0 /\ Related(s, rows, lastId)
  BY <1>1, <1>2, <1>3 DEF Related
<1>5. "update" \in Ops /\ "update" # "create"
  BY DEF Ops
<1>6. UNCHANGED <<rows, lastId, runs, raced, strays>>
  BY DEF Update
<1>7. CASE ~rows[i].receiver
  <2>1. Request(w, one)
    <3>1. <<s>> \o <<>> = <<s>>
      OBVIOUS
    <3>2. Request(w, [Asking("update", <<s>> \o <<>>) EXCEPT !.alert = alert])
      BY <1>7 DEF Update, row
    <3> QED
      BY <3>1, <3>2
  <2> HIDE DEF s
  <2>2. Shaped(plain) /\ Kindred(plain, rows, lastId) /\ ~plain.checked
    BY <1>3, <1>4, <1>5, OneSave
  <2>3. alert \in BOOLEAN
    OBVIOUS
  <2> HIDE DEF plain, alert
  <2>4. Shaped(one) /\ Kindred(one, rows, lastId) /\ ~one.checked
    BY <2>2, <2>3, SaysIs
  <2> HIDE DEF one
  <2> QED
    BY <1>6, <2>1, <2>4 DEF Comes, Request
<1>8. CASE rows[i].receiver
  <2>1. PICK save \in RegistrationSaves(i, regName) :
          Request(w, [Asking("update", <<s>> \o <<save>>) EXCEPT !.alert = alert])
    BY <1>8 DEF Update, row
  <2> DEFINE both == Asking("update", <<s, save>>)
             two  == [both EXCEPT !.alert = alert]
             own == {j \in DOMAIN rows : rows[j].owner = i}
  <2>2. /\ save \in Saves /\ Related(save, rows, lastId)
        /\ save.to # 0 \/ ~Stray(save.row)
    <3>1. CASE own = {}
      <4> DEFINE r   == NewRow("scenario", regName, FALSE, TRUE)
                 new == [r EXCEPT !.user = "nobody", !.owner = i]
      <4>1. "scenario" \in Kinds
        BY <1>1, <1>8 DEF Directed, Row
      <4>2. r \in Directed /\ r.registration
        BY <4>1, NewRowIs
      <4>3. save = Save(0, new)
        BY <3>1 DEF RegistrationSaves
      <4> HIDE DEF r
      <4>4. new \in Directed /\ new.owner = i
        BY <1>1, <4>2 DEF Directed, Row
      <4> HIDE DEF new
      <4>5. save \in Saves /\ save.to = 0 /\ save.row = new
        BY <4>3, <4>4, NewSave
      <4> QED
        BY <1>1, <4>4, <4>5, NewRelates DEF Stray
    <3>2. CASE own # {}
      <4>1. PICK j \in own : save = Save(j, [rows[j] EXCEPT !.name = regName])
        BY <3>2 DEF RegistrationSaves
      <4> DEFINE new == [rows[j] EXCEPT !.name = regName]
      <4>2. /\ j \in DOMAIN rows /\ rows[j] \in Directed
            /\ j \in 0..MaxRows /\ j # 0 /\ j <= lastId
        BY <4>1, BoundsAssumption DEF Types
      <4>3. new \in Directed /\ new.kind = rows[j].kind /\ new.user = rows[j].user
        BY <4>2 DEF Directed, Row
      <4>4. save = Save(j, new)
        BY <4>1
      <4> HIDE DEF new
      <4>5. save \in Saves /\ save.to = j /\ save.row = new
        BY <4>2, <4>3, <4>4, SaveIs
      <4> QED
        BY <4>2, <4>3, <4>5 DEF Related
    <3> QED
      BY <3>1, <3>2
  <2> HIDE DEF s
  <2>3. Shaped(both) /\ Kindred(both, rows, lastId) /\ ~both.checked
    BY <1>3, <1>4, <1>5, <2>2, TwoSaves
  <2>4. Request(w, two)
    <3>1. <<s>> \o <<save>> = <<s, save>>
      BY <1>3, <2>2, OneAndOne
    <3> QED
      BY <2>1, <3>1
  <2>5. alert \in BOOLEAN
    OBVIOUS
  <2> HIDE DEF both, alert
  <2>6. Shaped(two) /\ Kindred(two, rows, lastId) /\ ~two.checked
    BY <2>3, <2>5, SaysIs
  <2> HIDE DEF two
  <2> QED
    BY <1>6, <2>4, <2>6 DEF Comes, Request
<1> QED
  BY <1>7, <1>8
-----------------------------------------------------------------------------
(* What a write leaves alone *)

(* No row changes its kind or its user, and ids are not given out again. *)
Continues ==
  /\ lastId' >= lastId
  /\ \A i \in DOMAIN rows' : i <= lastId =>
       /\ i \in DOMAIN rows
       /\ rows'[i].kind = rows[i].kind
       /\ rows'[i].user = rows[i].user

LEMMA KindredContinues ==
  ASSUME Types, Types', Continues, NEW q, Shaped(q), Kindred(q, rows, lastId)
  PROVE  Kindred(q, rows', lastId')
<1>1. ASSUME NEW s \in Saves, Related(s, rows, lastId)
      PROVE  Related(s, rows', lastId')
  BY <1>1 DEF Related, Continues, Types, Saves
<1>2. /\ q.saves \in Seq(Saves) /\ q.again \in Seq(Saves)
  BY DEF Shaped, Requests
<1>3. /\ \A k \in 1..Len(q.saves) : q.saves[k] \in Saves
      /\ \A k \in 1..Len(q.again) : q.again[k] \in Saves
  BY <1>2, ElementOfSeq
<1> QED
  BY <1>1, <1>3 DEF Kindred

-----------------------------------------------------------------------------
(* What a write does to the requests *)

LEMMA IdleIs ==
  /\ Idle \in Requests
  /\ Len(Idle.saves) = 0 /\ Len(Idle.again) = 0
  /\ Idle.op = "none" /\ ~Idle.checked /\ Idle.registration = 0
<1> DEFINE none == <<>>
<1>1. none \in Seq(Saves) /\ Len(none) = 0
  OBVIOUS
<1>2. "none" \in Ops
  BY DEF Ops
<1>3. Idle = Asking("none", none)
  BY DEF Idle
<1> HIDE DEF none
<1> QED
  BY <1>1, <1>2, <1>3, AskingIs

LEMMA IdleIsShaped ==
  ASSUME NEW table, NEW last
  PROVE  Shaped(Idle) /\ Kindred(Idle, table, last)
<1>1. "none" # "create"
  OBVIOUS
<1> QED
  BY <1>1, IdleIs DEF Shaped, Kindred

LEMMA GoesIs ==
  ASSUME NEW w \in Web, req[w] \in Requests, NEW rest \in Seq(Saves), NEW j \in 0..MaxRows
  PROVE  /\ Goes(w, rest, j) \in Requests
         /\ Len(Goes(w, rest, j).again) = 0
         /\ ~Goes(w, rest, j).checked
         /\ Len(rest) = 0 => Goes(w, rest, j) = Idle
         /\ Len(rest) # 0 => /\ Goes(w, rest, j).op = req[w].op
                             /\ Goes(w, rest, j).saves = rest
                             /\ Goes(w, rest, j).registration = j
<1>1. rest = <<>> <=> Len(rest) = 0
  BY Emptied
<1>2. CASE Len(rest) = 0
  BY <1>1, <1>2, IdleIs DEF Goes
<1>3. CASE Len(rest) # 0
  <2> DEFINE q == Asking(req[w].op, rest)
  <2>1. Goes(w, rest, j) = [q EXCEPT !.alert = req[w].alert, !.registration = j]
    BY <1>1, <1>3 DEF Goes
  <2>2. req[w].op \in Ops /\ req[w].alert \in BOOLEAN
    BY DEF Requests
  <2>3. /\ q \in Requests /\ q.op = req[w].op /\ q.saves = rest /\ q.checked = FALSE
        /\ Len(q.again) = 0
    BY <2>2, AskingIs
  <2> HIDE DEF q
  <2> QED
    BY <1>3, <2>1, <2>2, <2>3 DEF Requests
<1> QED
  BY <1>2, <1>3

LEMMA OutdateIs ==
  ASSUME NEW w \in Web, NEW q \in [Web -> Requests]
  PROVE  /\ Outdate(w, q) \in [Web -> Requests]
         /\ \A v \in Web : /\ Alias(q[v], Outdate(w, q)[v])
                           /\ v # w /\ q[v].checked => Outdate(w, q)[v].outdated
<1>1. ASSUME NEW v \in Web
      PROVE  /\ Outdate(w, q)[v] = [q[v] EXCEPT !.outdated = @ \/ (v # w /\ q[v].checked)]
             /\ q[v] \in Requests
  BY DEF Outdate
<1>2. ASSUME NEW v \in Web
      PROVE  /\ Alias(q[v], Outdate(w, q)[v])
             /\ v # w /\ q[v].checked => Outdate(w, q)[v].outdated
  BY ZenonT(40), <1>1 DEF Alias, Requests
<1>3. Outdate(w, q) \in [Web -> Requests]
  BY <1>2 DEF Outdate, Alias
<1> QED
  BY <1>2, <1>3

(* Asked, from what it says of the requests of the next state. *)
LEMMA AskedNext ==
  ASSUME req' \in [Web -> Requests],
         \A v \in Web : Shaped(req'[v]) /\ Kindred(req'[v], rows', lastId')
  PROVE  Asked'
BY DEF Asked, Shaped, Kindred, Related, Requests

LEMMA AfterWrite ==
  ASSUME Types, Types', Asked, Continues, NEW w \in Web,
         NEW g, Shaped(g), ~g.checked, Kindred(g, rows', lastId'),
         req' = Outdate(w, [req EXCEPT ![w] = g])
  PROVE  /\ Asked'
         /\ Current'
         /\ \A v \in Web \ {w} : req'[v].registration = req[v].registration
         /\ req'[w].registration = g.registration
<1> DEFINE q == [req EXCEPT ![w] = g]
<1>1. g \in Requests
  BY DEF Shaped
<1>2. /\ q \in [Web -> Requests]
      /\ q[w] = g /\ \A v \in Web \ {w} : q[v] = req[v]
  BY <1>1 DEF Asked
<1>3. req' = Outdate(w, q)
  OBVIOUS
<1> HIDE DEF q
<1>4. /\ req' \in [Web -> Requests]
      /\ \A v \in Web : /\ Alias(q[v], req'[v])
                        /\ v # w /\ q[v].checked => req'[v].outdated
  BY <1>2, <1>3, OutdateIs
<1>5. ASSUME NEW v \in Web
      PROVE  Shaped(q[v]) /\ Kindred(q[v], rows', lastId')
  <2>1. CASE v = w
    BY <1>2, <2>1
  <2>2. CASE v # w
    BY <1>2, <2>2, KindredContinues DEF Asked
  <2> QED
    BY <2>1, <2>2
<1>6. \A v \in Web : Shaped(req'[v]) /\ Kindred(req'[v], rows', lastId')
  BY <1>4, <1>5, AliasIs
<1>7. Asked'
  BY <1>4, <1>6, AskedNext
<1>8. Current'
  BY <1>2, <1>4 DEF Current, Alias
<1> QED
  BY ZenonT(40), <1>2, <1>4, <1>7, <1>8 DEF Alias
-----------------------------------------------------------------------------
(* Requests and runs keep the invariant *)

LEMMA ComesKeeps ==
  ASSUME IInv, NEW w \in Web, Comes(w)
  PROVE  IInv'
<1>1. PICK q : /\ Shaped(q) /\ Kindred(q, rows, lastId) /\ ~q.checked
               /\ IsIdle(w) /\ asked < MaxRequests /\ asked' = asked + 1
               /\ req' = [req EXCEPT ![w] = q]
  BY DEF Comes
<1>2. UNCHANGED <<rows, lastId, runs, raced, strays>>
  BY DEF Comes
<1>3. /\ req \in [Web -> Requests]
      /\ req' \in [Web -> Requests]
      /\ req'[w] = q /\ \A v \in Web \ {w} : req'[v] = req[v]
  BY <1>1 DEF IInv, Asked, Shaped
<1>4. Types'
  BY <1>1, <1>2, BoundsAssumption DEF IInv, Types, Ids
<1>5. Asked'
  <2>1. ASSUME NEW v \in Web
        PROVE  Shaped(req'[v]) /\ Kindred(req'[v], rows, lastId)
    BY <1>1, <1>3 DEF IInv, Asked
  <2> QED
    BY <1>2, <1>3, <2>1, AskedNext
<1>6. Current'
  BY <1>1, <1>2, <1>3 DEF IInv, Current, Taken
<1>7. UniqueNames'
  BY <1>2 DEF IInv, UniqueNames
<1>8. StraysRefused'
  <2>1. req[w].registration = 0
    BY <1>1, IdleIs DEF IsIdle
  <2>2. 0 \notin DOMAIN rows
    BY BoundsAssumption DEF IInv, Types
  <2> QED
    BY <1>2, <1>3, <2>1, <2>2 DEF IInv, StraysRefused
<1> QED
  BY <1>4, <1>5, <1>6, <1>7, <1>8 DEF IInv

(* What only chooses or frees rows for a run leaves the rest as it is. *)
LEMMA Chooses ==
  ASSUME IInv, Types', UNCHANGED <<rows, lastId, asked, req, raced, strays>>
  PROVE  IInv'
<1>1. Asked'
  BY ZenonT(40) DEF IInv, Asked, Shaped, Kindred, Related, Requests
<1>2. Current' /\ UniqueNames' /\ StraysRefused'
  BY DEF IInv, Current, UniqueNames, StraysRefused, Taken
<1> QED
  BY <1>1, <1>2 DEF IInv

LEMMA CreateRunKeeps ==
  ASSUME IInv, NEW r \in Runs, CreateRun(r)
  PROVE  IInv'
<1>1. UNCHANGED <<rows, lastId, asked, req, raced, strays>>
  BY DEF CreateRun
<1>2. PICK p \in OfKind("profile"), s \in OfKind("scenario") \cup {0},
           v \in OfKind("scenario") \cup {0} :
       runs' = [runs EXCEPT ![r] = [profile |-> p, scenario |-> s, receiver |-> v]]
  BY DEF CreateRun
<1>3. p \in 0..MaxRows /\ s \in 0..MaxRows /\ v \in 0..MaxRows
  BY BoundsAssumption DEF IInv, Types, OfKind
<1>4. Types'
  BY <1>1, <1>2, <1>3 DEF IInv, Types, Ids
<1> QED
  BY <1>1, <1>4, Chooses

LEMMA DestroyRunKeeps ==
  ASSUME IInv, NEW r \in Runs, DestroyRun(r)
  PROVE  IInv'
<1>1. UNCHANGED <<rows, lastId, asked, req, raced, strays>>
  BY DEF DestroyRun
<1>2. /\ runs \in [Runs -> [profile : 0..MaxRows, scenario : 0..MaxRows, receiver : 0..MaxRows]]
      /\ NoRun \in [profile : 0..MaxRows, scenario : 0..MaxRows, receiver : 0..MaxRows]
      /\ runs' = [runs EXCEPT ![r] = NoRun]
  BY BoundsAssumption DEF IInv, Types, DestroyRun, NoRun
<1>3. Types'
  BY <1>1, <1>2 DEF IInv, Types, Ids
<1> QED
  BY <1>1, <1>3, Chooses
-----------------------------------------------------------------------------
(* Validations and writes keep the invariant *)

(* A step of one request that writes no row. *)
LEMMA StepKeeps ==
  ASSUME IInv, NEW w \in Web, NEW g, Shaped(g), Kindred(g, rows, lastId),
         g.checked /\ ~g.outdated => ~Taken(g.saves[1]),
         req' = [req EXCEPT ![w] = g],
         UNCHANGED <<rows, lastId, runs, asked, raced>>,
         strays' \subseteq Ids, strays \subseteq strays',
         g.registration = req[w].registration \/ {req[w].registration} \ {0} \subseteq strays'
  PROVE  IInv'
<1>1. /\ req \in [Web -> Requests] /\ req' \in [Web -> Requests]
      /\ req'[w] = g /\ \A v \in Web \ {w} : req'[v] = req[v]
  BY DEF IInv, Asked, Shaped
<1>2. Types'
  BY DEF IInv, Types, Ids
<1>3. Asked'
  <2>1. ASSUME NEW v \in Web
        PROVE  Shaped(req'[v]) /\ Kindred(req'[v], rows, lastId)
    BY <1>1 DEF IInv, Asked
  <2> QED
    BY <1>1, <2>1, AskedNext
<1>4. Current'
  BY <1>1 DEF IInv, Current, Taken
<1>5. UniqueNames'
  BY DEF IInv, UniqueNames
<1>6. StraysRefused'
  <2>1. 0 \notin DOMAIN rows
    BY BoundsAssumption DEF IInv, Types
  <2> QED
    BY <1>1, <2>1 DEF IInv, StraysRefused
<1> QED
  BY <1>2, <1>3, <1>4, <1>5, <1>6 DEF IInv

LEMMA ValidateKeeps ==
  ASSUME IInv, NEW w \in Web, Validate(w)
  PROVE  IInv'
<1> DEFINE g == [req[w] EXCEPT !.checked = TRUE, !.outdated = FALSE]
<1>1. /\ req[w] \in Requests /\ Shaped(req[w]) /\ Kindred(req[w], rows, lastId)
  BY DEF IInv, Asked
<1>2. /\ g \in Requests
      /\ g.op = req[w].op /\ g.saves = req[w].saves /\ g.again = req[w].again
      /\ g.registration = req[w].registration
  BY <1>1 DEF Requests
<1>3. req' = [req EXCEPT ![w] = g]
  BY DEF Validate, IInv, Asked, Requests
<1> HIDE DEF g
<1>4. req[w].saves \in Seq(Saves) /\ req[w].saves # <<>> /\ ~Taken(Head(req[w].saves))
  BY <1>1 DEF Requests, Validate
<1>5. Head(req[w].saves) = req[w].saves[1] /\ Len(req[w].saves) # 0
  BY <1>4, HeadAndTail
<1>6. Shaped(g) /\ Kindred(g, rows, lastId)
  BY <1>1, <1>2, <1>5 DEF Shaped, Kindred
<1>7. ~Taken(g.saves[1])
  BY <1>2, <1>4, <1>5
<1>8. /\ UNCHANGED <<rows, lastId, runs, asked, raced, strays>>
      /\ strays \subseteq Ids
  BY DEF Validate, IInv, Types
<1> QED
  BY <1>2, <1>3, <1>6, <1>7, <1>8, StepKeeps

LEMMA RefuseKeeps ==
  ASSUME IInv, NEW w \in Web, Refuse(w)
  PROVE  IInv'
<1>1. /\ req[w] \in Requests /\ Shaped(req[w]) /\ Kindred(req[w], rows, lastId)
      /\ ~req[w].checked
  BY DEF IInv, Asked, Refuse
<1>2. /\ UNCHANGED <<rows, lastId, runs, asked, raced>>
      /\ strays' = strays \cup ({req[w].registration} \ {0})
      /\ strays' \subseteq Ids
  BY <1>1 DEF Refuse, IInv, Types, Requests, Ids
<1>3. CASE ~SavesAhead(w)
  <2>1. req' = [req EXCEPT ![w] = Idle]
    BY <1>3 DEF Refuse
  <2> QED
    BY <1>2, <2>1, IdleIs, IdleIsShaped, StepKeeps
<1>4. CASE SavesAhead(w)
  <2> DEFINE saves == req[w].saves
             rest  == Tail(saves)
             again == <<Head(saves)>>
             g     == [req[w] EXCEPT !.saves = rest, !.again = again]
  <2>1. saves \in Seq(Saves) /\ Len(saves) = 2 /\ req[w].op = "create" /\ saves # <<>>
    BY <1>1, <1>4 DEF Requests, SavesAhead, Refuse
  <2>2. /\ saves[1] \in Saves
        /\ rest \in Seq(Saves) /\ Len(rest) = 1 /\ rest[1] = saves[2]
    BY <2>1, HeadAndTail
  <2>3. again \in Seq(Saves) /\ Len(again) = 1 /\ again[1] = saves[1]
    <3>1. Head(saves) = saves[1]
      BY <2>1, HeadAndTail
    <3> QED
      BY <2>2, <3>1
  <2>4. req' = [req EXCEPT ![w] = g]
    BY <1>4 DEF Refuse
  <2> HIDE DEF rest, again
  <2>5. /\ g \in Requests /\ g.op = "create" /\ g.saves = rest /\ g.again = again
        /\ g.registration = req[w].registration /\ ~g.checked
    BY <1>1, <2>1, <2>2, <2>3 DEF Requests
  <2> HIDE DEF g
  <2>6. saves[1].to = 0 /\ saves[2].to = 0 /\ ~Stray(saves[2].row)
    BY <1>1, <2>1 DEF Shaped
  <2>7. /\ \A k \in 1..Len(g.saves) : k = 1
        /\ \A k \in 1..Len(g.again) : k = 1
    <3>1. Len(g.saves) = 1 /\ Len(g.again) = 1
      BY <2>2, <2>3, <2>5
    <3> QED
      BY <3>1
  <2>8. Shaped(g)
    BY <2>2, <2>3, <2>5, <2>6, <2>7 DEF Shaped
  <2>9. Related(saves[1], rows, lastId) /\ Related(saves[2], rows, lastId)
    BY <1>1, <2>1 DEF Kindred
  <2>10. Kindred(g, rows, lastId)
    BY <2>2, <2>3, <2>5, <2>7, <2>9 DEF Kindred
  <2> QED
    BY <1>2, <2>4, <2>5, <2>8, <2>10, StepKeeps
<1> QED
  BY <1>3, <1>4

LEMMA DestroyKeeps ==
  ASSUME IInv, NEW i \in Ids, Destroy(i)
  PROVE  IInv'
<1>1. /\ UNCHANGED <<lastId, runs, asked, req, raced, strays>>
      /\ DOMAIN rows' = DOMAIN rows \ {i}
      /\ \A j \in DOMAIN rows' : rows'[j] = rows[j]
  BY DEF Destroy
<1>2. lastId \in Nat /\ lastId' \in Nat
  BY <1>1, BoundsAssumption DEF IInv, Types
<1>3. Types'
  BY <1>1 DEF IInv, Types, Ids
<1>4. Continues
  BY <1>1, <1>2 DEF Continues
<1>5. Asked'
  <2>1. ASSUME NEW v \in Web
        PROVE  Shaped(req[v]) /\ Kindred(req[v], rows', lastId')
    BY <1>3, <1>4, KindredContinues DEF IInv, Asked
  <2> QED
    BY <1>1, <2>1, AskedNext DEF IInv, Asked
<1>6. Current'
  BY <1>1 DEF IInv, Current, Taken
<1>7. UniqueNames' /\ StraysRefused'
  BY <1>1 DEF IInv, UniqueNames, StraysRefused
<1> QED
  BY <1>3, <1>5, <1>6, <1>7 DEF IInv

(* What is left of a request after a write is well formed. *)
LEMMA RestIsShaped ==
  ASSUME NEW w \in Web, req[w] \in Requests, NEW rest \in Seq(Saves), NEW j \in 0..MaxRows,
         NEW table, NEW last,
         Len(rest) <= 2,
         j # 0 => req[w].op = "create",
         \A k \in 1..Len(rest) : /\ Related(rest[k], table, last)
                                 /\ req[w].op = "create" => rest[k].to = 0
                                 /\ rest[k].to # 0 \/ ~Stray(rest[k].row)
  PROVE  LET g == Goes(w, rest, j) IN
         /\ Shaped(g) /\ Kindred(g, table, last) /\ ~g.checked
         /\ Len(rest) = 0 => g.registration = 0
         /\ Len(rest) # 0 => g.registration = j
<1> DEFINE g == Goes(w, rest, j)
<1>1. /\ g \in Requests /\ Len(g.again) = 0 /\ ~g.checked
      /\ Len(rest) = 0 => g = Idle
      /\ Len(rest) # 0 => g.op = req[w].op /\ g.saves = rest /\ g.registration = j
  BY GoesIs
<1> HIDE DEF g
<1>2. /\ Shaped(g) /\ Kindred(g, table, last)
      /\ Len(rest) = 0 => g.registration = 0
  <2>1. CASE Len(rest) = 0
    BY <1>1, <2>1, IdleIs, IdleIsShaped
  <2>2. CASE Len(rest) # 0
    <3>1. g.op = req[w].op /\ g.saves = rest /\ g.registration = j
      BY <1>1, <2>2
    <3>2. Shaped(g)
      BY <1>1, <3>1 DEF Shaped
    <3>3. Kindred(g, table, last)
      BY <1>1, <3>1 DEF Kindred
    <3> QED
      BY <2>2, <3>2, <3>3
  <2> QED
    BY <2>1, <2>2
<1> QED
  BY <1>1, <1>2 DEF g

LEMMA WriteUpdateKeeps ==
  ASSUME IInv, NEW w \in Web, Len(req[w].saves) # 0, WriteUpdate(w)
  PROVE  IInv'
<1> DEFINE q    == req[w]
           save == q.saves[1]
           rest == Tail(q.saves)
           g    == Goes(w, rest, 0)
<1>1. /\ q \in Requests /\ Shaped(q) /\ Kindred(q, rows, lastId)
      /\ req \in [Web -> Requests]
  BY DEF IInv, Asked
<1>2. /\ q.saves \in Seq(Saves) /\ Head(q.saves) = save /\ save \in Saves
      /\ Len(q.saves) \in Nat \ {0}
      /\ rest \in Seq(Saves) /\ Len(rest) = Len(q.saves) - 1
      /\ \A k \in 1..Len(rest) : rest[k] = q.saves[k + 1]
  <2>1. q.saves \in Seq(Saves) /\ q.saves # <<>>
    BY <1>1, Emptied DEF Requests
  <2> QED
    BY <2>1, HeadAndTail
<1>3. /\ q.checked
      /\ save.to # 0
      /\ rows' = IF save.renames /\ save.to \in DOMAIN rows
                 THEN [rows EXCEPT ![save.to].name = save.row.name] ELSE rows
      /\ raced' = Raced(w, save.to)
      /\ req' = Outdate(w, [req EXCEPT ![w] = g])
      /\ UNCHANGED <<lastId, runs, asked, strays>>
  BY <1>2 DEF WriteUpdate
<1>4. Related(save, rows, lastId)
  BY <1>1, <1>2 DEF Kindred
<1>5. q.op # "create" /\ q.registration = 0
  BY <1>1, <1>2, <1>3 DEF Shaped
<1> HIDE DEF rest
<1>6. Shaped(g) /\ Kindred(g, rows, lastId) /\ ~g.checked /\ g.registration = 0
  <2>1. 0 \in 0..MaxRows /\ req[w] \in Requests /\ rest \in Seq(Saves)
    BY <1>1, <1>2, BoundsAssumption
  <2>2. Len(rest) <= 2
    <3> DEFINE left == Len(q.saves)
               more == Len(q.again)
    <3>1. more \in Nat
      BY <1>1, LenProperties DEF Requests
    <3>2. left + more <= 2
      BY <1>1 DEF Shaped
    <3>3. Len(rest) = left - 1 /\ left \in Nat
      BY <1>2
    <3> HIDE DEF left, more
    <3> QED
      BY <3>1, <3>2, <3>3
  <2>3. \A k \in 1..Len(rest) : rest[k] = q.saves[k + 1] /\ k + 1 \in 1..Len(q.saves)
    BY <1>2
  <2>4. \A k \in 1..Len(rest) : Related(rest[k], rows, lastId)
    BY <1>1, <2>3 DEF Kindred
  <2>5. \A k \in 1..Len(rest) : rest[k].to # 0 \/ ~Stray(rest[k].row)
    BY <1>1, <1>5, <2>3 DEF Shaped
  <2> QED
    BY <1>5, <2>1, <2>2, <2>4, <2>5, RestIsShaped
<1> HIDE DEF g
<1>7. /\ DOMAIN rows' = DOMAIN rows
      /\ \A i \in DOMAIN rows :
           /\ rows[i] \in Directed /\ rows'[i] \in Directed
           /\ rows'[i].kind = rows[i].kind /\ rows'[i].user = rows[i].user
           /\ rows'[i].owner = rows[i].owner
           /\ rows'[i].registration = rows[i].registration
           /\ rows'[i].name # rows[i].name => i = save.to
           /\ \/ rows'[i] = rows[i]
              \/ i = save.to /\ rows'[i].name = save.row.name
  <2>1. save.row.name \in Names
    BY <1>2 DEF Saves, Directed, Row
  <2>2. \A i \in DOMAIN rows : rows[i] \in Directed
    BY DEF IInv, Types
  <2>3. CASE rows' = rows
    BY <2>2, <2>3
  <2>4. CASE save.to \in DOMAIN rows /\ rows' = [rows EXCEPT ![save.to].name = save.row.name]
    BY <2>1, <2>2, <2>4 DEF Directed, Row
  <2> QED
    BY <1>3, <2>3, <2>4
<1>8. raced \subseteq raced' /\ raced' \subseteq raced \cup {save.to}
  BY <1>3 DEF Raced
<1>9. save.to \in Ids
  BY <1>2, <1>3 DEF Saves, Ids
<1>11. Types'
  BY <1>3, <1>7, <1>8, <1>9 DEF IInv, Types, Ids
<1>12. Continues
  <2>1. lastId \in Nat
    BY BoundsAssumption DEF IInv, Types
  <2>2. lastId' = lastId
    BY <1>3
  <2>3. /\ DOMAIN rows' = DOMAIN rows
        /\ \A i \in DOMAIN rows : rows'[i].kind = rows[i].kind /\ rows'[i].user = rows[i].user
    BY <1>7
  <2> QED
    BY <2>1, <2>2, <2>3 DEF Continues
<1>13. /\ Asked' /\ Current'
       /\ \A v \in Web \ {w} : req'[v].registration = req[v].registration
       /\ req'[w].registration = 0
  <2>1. Kindred(g, rows', lastId')
    BY <1>6, <1>11, <1>12, KindredContinues DEF IInv
  <2> QED
    BY <1>3, <1>6, <1>11, <1>12, <2>1, AfterWrite DEF IInv
<1>14. UniqueNames'
  <2> SUFFICES ASSUME NEW i \in DOMAIN rows, NEW j \in DOMAIN rows,
                      i # j, Alike(rows'[i], rows'[j])
               PROVE  i \in raced' \/ j \in raced'
    BY <1>7 DEF UniqueNames, Alike
  <2>1. CASE rows'[i] = rows[i] /\ rows'[j] = rows[j]
    BY <1>8, <2>1 DEF IInv, UniqueNames
  <2>2. CASE \/ i = save.to /\ rows'[i].name = save.row.name
             \/ j = save.to /\ rows'[j].name = save.row.name
    <3>1. Taken(save)
      BY SMTT(40), <1>4, <1>7, <2>2 DEF Taken, Alike, Related
    <3>2. req[w].outdated
      BY <1>3, <3>1 DEF IInv, Current
    <3> QED
      BY <1>3, <2>2, <3>2 DEF Raced
  <2> QED
    BY <1>7, <2>1, <2>2
<1>16. StraysRefused'
  <2>1. 0 \notin DOMAIN rows
    BY BoundsAssumption DEF IInv, Types
  <2>2. ASSUME NEW i \in DOMAIN rows, rows'[i].registration, rows'[i].owner = 0, i \notin strays
        PROVE  \E v \in Web : req'[v].registration = i
    <3>1. PICK v \in Web : req[v].registration = i
      BY <1>7, <2>2 DEF IInv, StraysRefused
    <3>2. v # w
      BY <1>5, <2>1, <3>1
    <3> QED
      BY <1>13, <3>1, <3>2
  <2> QED
    BY <1>3, <1>7, <2>2 DEF StraysRefused
<1> QED
  BY <1>11, <1>13, <1>14, <1>16 DEF IInv

(* What is left after an insert is one save at most: the second one of the *)
(* request, or the one it tries again.                                     *)
LEMMA OneIsLeft ==
  ASSUME NEW saves \in Seq(Saves), NEW again \in Seq(Saves), NEW i \in 1..MaxRows,
         Len(saves) # 0, Len(saves) + Len(again) <= 2
  PROVE  LET rest == Tail(saves) \o Told(again, i) IN
         /\ rest \in Seq(Saves)
         /\ Len(rest) = 0 \/ Len(rest) = 1
         /\ Len(saves) = 2 => Len(rest) = 1
         /\ Len(rest) = 1 => \/ Len(saves) = 2 /\ rest[1] = saves[2]
                             \/ /\ Len(again) = 1 /\ rest[1].to = again[1].to
                                /\ rest[1].row.kind = again[1].row.kind
                                /\ rest[1].row.user = again[1].row.user
                                /\ rest[1].row.owner = i
<1> DEFINE tail == Tail(saves)
           told == Told(again, i)
           rest == tail \o told
<1>1. /\ Len(saves) \in Nat \ {0}
      /\ tail \in Seq(Saves) /\ Len(tail) = Len(saves) - 1
      /\ \A k \in 1..Len(saves) - 1 : tail[k] = saves[k + 1]
  BY Emptied, HeadAndTail
<1>2. /\ told \in Seq(Saves) /\ Len(told) = Len(again) /\ Len(again) \in Nat
      /\ \A k \in 1..Len(again) : /\ told[k].to = again[k].to
                                  /\ told[k].row.kind = again[k].row.kind
                                  /\ told[k].row.user = again[k].row.user
                                  /\ told[k].row.owner = i
  BY ToldIs, LenProperties
<1> HIDE DEF tail, told
<1>3. /\ rest \in Seq(Saves) /\ Len(rest) = Len(tail) + Len(told)
      /\ \A k \in 1..Len(tail) + Len(told) :
           rest[k] = IF k <= Len(tail) THEN tail[k] ELSE told[k - Len(tail)]
  BY <1>1, <1>2, ConcatProperties
<1> HIDE DEF rest
<1>4. Len(rest) = 0 \/ Len(rest) = 1
  BY <1>1, <1>2, <1>3
<1>5. Len(saves) = 2 => Len(rest) = 1
  BY <1>1, <1>2, <1>3
<1>6. ASSUME Len(rest) = 1
      PROVE  \/ Len(saves) = 2 /\ rest[1] = saves[2]
             \/ Len(again) = 1 /\ rest[1] = told[1]
  BY <1>1, <1>2, <1>3, <1>6
<1> QED
  BY <1>2, <1>3, <1>4, <1>5, <1>6 DEF rest, tail, told

LEMMA WriteInsertKeeps ==
  ASSUME IInv, NEW w \in Web, Len(req[w].saves) # 0, WriteInsert(w)
  PROVE  IInv'
<1> DEFINE q     == req[w]
           saves == q.saves
           save  == saves[1]
           again == q.again
           i     == lastId + 1
           j     == q.registration
           rest  == Tail(saves) \o Told(again, i)
           next  == IF SavesAhead(w) THEN i ELSE 0
           g     == Goes(w, rest, next)
           attach == j \in DOMAIN rows /\ ~Taken(Save(j, rows[j]))
<1>1. /\ q \in Requests /\ Shaped(q) /\ Kindred(q, rows, lastId)
      /\ req \in [Web -> Requests]
  BY DEF IInv, Asked
<1>2. /\ saves \in Seq(Saves) /\ again \in Seq(Saves) /\ j \in 0..MaxRows
      /\ Len(saves) # 0 /\ Len(saves) + Len(again) <= 2
  BY <1>1 DEF Shaped, Requests
<1>3. Head(saves) = save /\ save \in Saves /\ Len(saves) \in Nat \ {0}
  <2>1. saves # <<>>
    BY <1>2, Emptied
  <2> QED
    BY <1>2, <2>1, HeadAndTail
<1>4. /\ q.checked
      /\ save.to = 0
      /\ i <= MaxRows
      /\ lastId' = i
      /\ rows' = [k \in DOMAIN rows \cup {i} |->
                    IF k = i THEN save.row
                    ELSE IF k = j /\ attach THEN Attached(i, j)
                    ELSE rows[k]]
      /\ strays' = strays \cup (IF j # 0 /\ ~attach THEN {j} ELSE {})
      /\ raced' = Raced(w, i)
      /\ req' = Outdate(w, [req EXCEPT ![w] = g])
      /\ UNCHANGED <<runs, asked>>
  BY <1>3 DEF WriteInsert, Told
<1> HIDE DEF rest
<1>5. /\ lastId \in Nat /\ i \in 1..MaxRows /\ i \in Ids /\ i \in 0..MaxRows
      /\ DOMAIN rows \subseteq 1..lastId /\ i \notin DOMAIN rows /\ 0 \notin DOMAIN rows
  BY <1>4, BoundsAssumption DEF IInv, Types, Ids
<1>6. /\ rest \in Seq(Saves)
      /\ Len(rest) = 0 \/ Len(rest) = 1
      /\ Len(saves) = 2 => Len(rest) = 1
      /\ Len(rest) = 1 => \/ Len(saves) = 2 /\ rest[1] = saves[2]
                          \/ /\ Len(again) = 1 /\ rest[1].to = again[1].to
                             /\ rest[1].row.kind = again[1].row.kind
                             /\ rest[1].row.user = again[1].row.user
                             /\ rest[1].row.owner = i
  BY <1>2, <1>5, OneIsLeft DEF rest
<1> HIDE DEF g
<1>7. /\ DOMAIN rows' = DOMAIN rows \cup {i}
      /\ rows'[i] = save.row
      /\ \A k \in DOMAIN rows : rows'[k] = IF k = j /\ attach THEN Attached(i, j) ELSE rows[k]
  BY <1>4, <1>5
<1> HIDE DEF attach, i
<1>8. \A k \in DOMAIN rows :
        /\ rows[k] \in Directed /\ rows'[k] \in Directed
        /\ rows'[k].kind = rows[k].kind /\ rows'[k].user = rows[k].user
        /\ rows'[k].name = rows[k].name /\ rows'[k].registration = rows[k].registration
        /\ IF k = j /\ attach THEN rows'[k].owner = i ELSE rows'[k] = rows[k]
  <2> SUFFICES ASSUME NEW k \in DOMAIN rows
               PROVE  /\ rows[k] \in Directed /\ rows'[k] \in Directed
                      /\ rows'[k].kind = rows[k].kind /\ rows'[k].user = rows[k].user
                      /\ rows'[k].name = rows[k].name
                      /\ rows'[k].registration = rows[k].registration
                      /\ IF k = j /\ attach THEN rows'[k].owner = i ELSE rows'[k] = rows[k]
    OBVIOUS
  <2>1. rows[k] \in Directed
    BY DEF IInv, Types
  <2>2. CASE k = j /\ attach
    <3>1. rows'[k] = [rows[k] EXCEPT !.owner = i]
      BY <1>7, <2>2 DEF Attached
    <3> QED
      BY <1>5, <2>1, <2>2, <3>1 DEF Directed, Row
  <2>3. CASE ~(k = j /\ attach)
    BY <1>7, <2>1, <2>3
  <2> QED
    BY <2>2, <2>3
<1>9. save.row \in Directed
  BY <1>3 DEF Saves
<1>10. raced \subseteq raced' /\ raced' \subseteq raced \cup {i}
  BY <1>4 DEF Raced
<1>12. strays' \subseteq Ids
  <2>1. j \in 0..MaxRows
    BY <1>1 DEF Requests
  <2>2. strays' \subseteq strays \cup (IF j # 0 THEN {j} ELSE {})
    BY <1>4
  <2>3. strays \subseteq 1..MaxRows
    BY DEF IInv, Types, Ids
  <2> QED
    BY <2>1, <2>2, <2>3 DEF Ids
<1>13. Types'
  <2>1. lastId' \in 0..MaxRows /\ DOMAIN rows' \subseteq 1..lastId'
    BY <1>4, <1>5, <1>7 DEF i
  <2>2. \A k \in DOMAIN rows' : rows'[k] \in Directed
    BY <1>7, <1>8, <1>9
  <2>3. raced' \subseteq Ids
    BY <1>5, <1>10 DEF IInv, Types
  <2> QED
    BY <1>4, <1>12, <2>1, <2>2, <2>3 DEF IInv, Types, Ids
<1>14. Continues
  <2>1. lastId' >= lastId /\ ~(i <= lastId)
    BY <1>4, <1>5 DEF i
  <2> QED
    BY <1>7, <1>8, <2>1 DEF Continues
<1>15. next \in 0..MaxRows /\ (next # 0 => q.op = "create")
  BY <1>5, BoundsAssumption DEF SavesAhead
<1>16. Stray(save.row) => next = i /\ Len(rest) = 1
  BY <1>1, <1>3, <1>4, <1>6 DEF Shaped, SavesAhead
<1> HIDE DEF next
<1>17. /\ Shaped(g) /\ Kindred(g, rows', lastId') /\ ~g.checked
       /\ Len(rest) # 0 => g.registration = next
  <2>1. Kindred(q, rows', lastId')
    BY <1>1, <1>13, <1>14, KindredContinues DEF IInv
  <2>2. CASE Len(rest) = 0
    <3>1. \A k \in 1..Len(rest) : FALSE
      BY <2>2
    <3>2. Len(rest) <= 2
      BY <2>2
    <3> QED
      BY <1>1, <1>6, <1>15, <3>1, <3>2, RestIsShaped DEF g
  <2>3. CASE Len(rest) = 1
    <3>1. (\A k \in 1..Len(rest) : k = 1) /\ Len(rest) <= 2
      BY <2>3
    <3>2. /\ Related(rest[1], rows', lastId')
          /\ q.op = "create" => rest[1].to = 0
          /\ rest[1].to # 0 \/ ~Stray(rest[1].row)
      <4>1. CASE Len(saves) = 2 /\ rest[1] = saves[2]
        <5>1. /\ Related(saves[2], rows', lastId')
              /\ q.op = "create" => saves[2].to = 0
              /\ saves[2].to # 0 \/ ~Stray(saves[2].row)
          BY <1>1, <2>1, <4>1 DEF Shaped, Kindred
        <5> QED
          BY <4>1, <5>1
      <4>2. CASE /\ Len(again) = 1 /\ rest[1].to = again[1].to
                 /\ rest[1].row.kind = again[1].row.kind
                 /\ rest[1].row.user = again[1].row.user
                 /\ rest[1].row.owner = i
        <5>1. /\ Related(again[1], rows', lastId')
              /\ q.op = "create" => again[1].to = 0
          BY <1>1, <2>1, <4>2 DEF Shaped, Kindred
        <5>2. Related(rest[1], rows', lastId')
          BY <4>2, <5>1 DEF Related
        <5>3. ~Stray(rest[1].row)
          BY <1>5, <4>2 DEF Stray
        <5> QED
          BY <4>2, <5>1, <5>2, <5>3
      <4> QED
        BY <1>6, <2>3, <4>1, <4>2
    <3> QED
      BY SMTT(40), <1>1, <1>6, <1>15, <3>1, <3>2, RestIsShaped DEF g
  <2> QED
    BY <1>6, <2>2, <2>3
<1>18. /\ Asked' /\ Current'
       /\ \A v \in Web \ {w} : req'[v].registration = req[v].registration
       /\ req'[w].registration = g.registration
  BY <1>4, <1>13, <1>14, <1>17, AfterWrite DEF IInv
<1>19. UniqueNames'
  <2>1. ASSUME NEW k \in DOMAIN rows, Alike(save.row, rows'[k])
        PROVE  i \in raced'
    <3>1. Alike(rows[k], save.row)
      <4>1. /\ rows'[k].kind = rows[k].kind
            /\ rows'[k].user = rows[k].user
            /\ rows'[k].name = rows[k].name
        BY <1>8
      <4> QED
        BY <2>1, <4>1 DEF Alike
    <3>2. k # save.to
      BY <1>4, <1>5
    <3>3. Taken(save)
      BY <3>1, <3>2 DEF Taken
    <3>4. req[w].outdated
      BY <1>4, <3>3 DEF IInv, Current
    <3> QED
      BY <1>4, <3>4 DEF Raced
  <2>2. ASSUME NEW k \in DOMAIN rows, NEW l \in DOMAIN rows, k # l, Alike(rows'[k], rows'[l])
        PROVE  k \in raced' \/ l \in raced'
    <3>1. Alike(rows[k], rows[l])
      BY <1>8, <2>2 DEF Alike
    <3> QED
      BY <1>10, <2>2, <3>1 DEF IInv, UniqueNames
  <2> SUFFICES ASSUME NEW k \in DOMAIN rows \cup {i}, NEW l \in DOMAIN rows \cup {i},
                      k # l, Alike(rows'[k], rows'[l])
               PROVE  k \in raced' \/ l \in raced'
    BY <1>7 DEF UniqueNames, Alike
  <2>3. CASE k = i
    BY <1>7, <2>1, <2>3
  <2>4. CASE l = i
    <3>1. Alike(save.row, rows'[k])
      BY <1>7, <2>4 DEF Alike
    <3> QED
      BY <2>1, <2>4, <3>1
  <2> QED
    BY <2>2, <2>3, <2>4
<1>21. StraysRefused'
  <2> SUFFICES ASSUME NEW k \in DOMAIN rows \cup {i},
                      rows'[k].registration, rows'[k].owner = 0, k \notin strays'
               PROVE  \E v \in Web : req'[v].registration = k
    BY <1>7 DEF StraysRefused
  <2>1. CASE k = i
    BY <1>7, <1>16, <1>17, <1>18, <2>1 DEF Stray
  <2>2. CASE k # i
    <3>1. ~(k = j /\ attach) /\ rows'[k] = rows[k] /\ k \in DOMAIN rows
      BY <1>5, <1>8, <2>2
    <3>2. k \notin strays
      BY <1>4
    <3>3. PICK v \in Web : req[v].registration = k
      BY <3>1, <3>2 DEF IInv, StraysRefused
    <3>4. CASE v = w
      BY <1>4, <1>5, <3>1, <3>3, <3>4
    <3>5. CASE v # w
      BY <1>18, <3>3, <3>5
    <3> QED
      BY <3>4, <3>5
  <2> QED
    BY <2>1, <2>2
<1> QED
  BY <1>13, <1>18, <1>19, <1>21 DEF IInv
-----------------------------------------------------------------------------
(* The invariant, and the theorems *)

LEMMA Start == Init => IInv
<1> SUFFICES ASSUME Init PROVE IInv
  OBVIOUS
<1>1. 0 \in Nat /\ MaxRows \in Nat /\ MaxRequests \in Nat /\ DOMAIN rows = {}
  BY BoundsAssumption DEF Init
<1>2. NoRun \in [profile : 0..MaxRows, scenario : 0..MaxRows, receiver : 0..MaxRows]
  BY <1>1 DEF NoRun
<1>3. Types
  BY <1>1, <1>2 DEF Init, Types
<1>4. Asked /\ Current
  BY IdleIs, IdleIsShaped DEF Init, Asked, Current
<1>5. UniqueNames /\ StraysRefused
  BY <1>1 DEF Init, UniqueNames, StraysRefused
<1> QED
  BY <1>3, <1>4, <1>5 DEF IInv

LEMMA Inductive == IInv /\ [Next]_vars => IInv'
<1> SUFFICES ASSUME IInv, [Next]_vars PROVE IInv'
  OBVIOUS
<1>1. ASSUME NEW w \in Web, NEW k \in Kinds, NEW n \in Names, NEW v \in BOOLEAN, Create(w, k, n, v)
      PROVE  IInv'
  BY <1>1, CreateComes, ComesKeeps DEF IInv
<1>2. ASSUME NEW w \in Web, NEW n \in Names, NEW m \in Names, CreateWithRegistration(w, n, m)
      PROVE  IInv'
  BY <1>2, RegistrationComes, ComesKeeps DEF IInv
<1>3. ASSUME NEW w \in Web, NEW i \in Ids, NEW n \in Names, NEW m \in Names, Update(w, i, n, m)
      PROVE  IInv'
  BY <1>3, UpdateComes, ComesKeeps DEF IInv
<1>4. ASSUME NEW w \in Web, NEW i \in Ids, Copy(w, i)
      PROVE  IInv'
  BY <1>4, CopyComes, ComesKeeps DEF IInv
<1>7. ASSUME NEW w \in Web, Validate(w)
      PROVE  IInv'
  BY <1>7, ValidateKeeps
<1>8. ASSUME NEW w \in Web, Refuse(w)
      PROVE  IInv'
  BY <1>8, RefuseKeeps
<1>9. ASSUME NEW w \in Web, req[w].saves # <<>>, WriteUpdate(w) \/ WriteInsert(w)
      PROVE  IInv'
  <2>1. req[w].saves \in Seq(Saves)
    BY DEF IInv, Asked, Requests
  <2>2. Len(req[w].saves) # 0
    BY <1>9, <2>1, Emptied
  <2> QED
    BY <1>9, <2>2, WriteUpdateKeeps, WriteInsertKeeps
<1>10. ASSUME NEW i \in Ids, Destroy(i)
       PROVE  IInv'
  BY <1>10, DestroyKeeps
<1>11. ASSUME NEW r \in Runs, CreateRun(r) \/ DestroyRun(r)
       PROVE  IInv'
  BY <1>11, CreateRunKeeps, DestroyRunKeeps
<1>12. CASE UNCHANGED vars
  <2>1. Types'
    BY <1>12 DEF vars, IInv, Types
  <2> QED
    BY <1>12, <2>1, Chooses DEF vars
<1> QED
  BY <1>1, <1>2, <1>3, <1>4, <1>7, <1>8, <1>9, <1>10, <1>11, <1>12 DEF Next

LEMMA Invariant == Spec => []IInv
  BY Start, Inductive, PTL DEF Spec

(* Ids are given out once, requests stay within their bounds, and a        *)
(* request has something to save as long as it counts as validated.        *)
THEOREM TypeCorrect == Spec => []TypeOK
<1>1. IInv => TypeOK
  <2> SUFFICES ASSUME IInv PROVE TypeOK
    OBVIOUS
  <2>1. ASSUME NEW w \in Web
        PROVE  /\ req[w].registration \in 0..MaxRows
               /\ req[w].checked => req[w].saves # <<>>
               /\ Len(req[w].saves) <= 2
    <3> DEFINE left == Len(req[w].saves)
               more == Len(req[w].again)
    <3>1. /\ Shaped(req[w]) /\ req[w].saves \in Seq(Saves) /\ req[w].again \in Seq(Saves)
          /\ req[w].registration \in 0..MaxRows
      BY DEF IInv, Asked, Requests
    <3>2. left \in Nat /\ more \in Nat
      BY <3>1, LenProperties
    <3>3. left + more <= 2 /\ (req[w].checked => left # 0)
      BY <3>1 DEF Shaped
    <3>4. req[w].checked => req[w].saves # <<>>
      BY <3>1, <3>3, Emptied
    <3> HIDE DEF left, more
    <3>5. left <= 2
      BY <3>2, <3>3
    <3> QED
      BY <3>1, <3>4, <3>5 DEF left
  <2>2. \A i \in DOMAIN rows : rows[i] \in Row
    BY DEF IInv, Types, Directed
  <2> QED
    BY <2>1, <2>2 DEF IInv, Types, TypeOK
<1> QED
  BY <1>1, Invariant, PTL

(* Two rows of a user share a name only if one of them was written after a *)
(* validation that another write had put out of date, however many         *)
(* processes save at a time.                                               *)
THEOREM NamesAreUnique == Spec => []UniqueNames
<1>1. IInv => UniqueNames
  BY DEF IInv
<1> QED
  BY <1>1, Invariant, PTL

(* A registration scenario that belongs to no scenario, and that no        *)
(* request is about to tell its scenario, is one that create gave up.      *)
THEOREM RegistrationsAreTold == Spec => []StraysRefused
<1>1. IInv => StraysRefused
  BY DEF IInv
<1> QED
  BY <1>1, Invariant, PTL
=============================================================================
