----------------------------- MODULE Resources -----------------------------
(***************************************************************************)
(* Profiles, scenarios and targets, which test runs share: web processes   *)
(* that create, copy, edit and delete them, and runs that are created and  *)
(* deleted meanwhile.                                                      *)
(*                                                                         *)
(* A save is a validation, which reads the table, and a write; no index of *)
(* the table backs the validation up.  A receiver scenario is saved with a *)
(* registration scenario of its own.                                       *)
(***************************************************************************)
EXTENDS Naturals, Sequences

CONSTANTS
  Web,      \* web processes, one request each
  Runs,     \* test runs that may be created
  Names,    \* what rows may be called
  CopyOf,   \* the name a copy gets: the one of the row, with (Copy)
  Kinds,    \* the tables of the instance
  MaxRows,     \* bound on the rows ever written
  MaxRequests  \* bound on the requests that save something

ASSUME KindsAssumption == Kinds \subseteq {"profile", "scenario", "target"}
ASSUME NamesAssumption == CopyOf \in [DOMAIN CopyOf -> Names] /\ DOMAIN CopyOf \subseteq Names
ASSUME BoundsAssumption == MaxRows \in Nat /\ MaxRequests \in Nat

VARIABLES
  rows,    \* the tables: rows by id
  lastId,  \* the last id given out
  runs,    \* the rows each test run has
  asked,   \* how many requests there were
  req,     \* the saves each web process has still to do
  raced,   \* history: rows written after their validation was out of date
  strays   \* history: registration scenarios whose scenario was then refused

vars == <<rows, lastId, runs, asked, req, raced, strays>>

Ids == 1..MaxRows

(* user_id, which one action forgets, and scenario_id. *)
Row == [kind : Kinds, name : Names, user : {"user", "nobody"}, owner : 0..MaxRows,
        receiver : BOOLEAN, registration : BOOLEAN]

NoRun == [profile |-> 0, scenario |-> 0, receiver |-> 0]

(* to: the row to update, 0 to insert one; an update writes the columns    *)
(* that differ from the row it loaded.                                     *)
Save(to, row) ==
  [to |-> to, row |-> row, renames |-> to # 0 /\ row.name # rows[to].name]

(* alert: the answer says already that the row cannot be edited;           *)
(* registration: the row of a registration scenario saved ahead of its     *)
(* scenario, 0 if there is none; again: its save, if that was refused      *)
Asking(op, saves) == [op |-> op, saves |-> saves, checked |-> FALSE, outdated |-> FALSE,
                      alert |-> FALSE, registration |-> 0, again |-> <<>>]

Idle == Asking("none", <<>>)

Init ==
  /\ rows = <<>>
  /\ lastId = 0
  /\ runs = [r \in Runs |-> NoRun]
  /\ asked = 0
  /\ req = [w \in Web |-> Idle]
  /\ raced = {} /\ strays = {}

IsIdle(w) == req[w] = Idle

Request(w, request) ==
  /\ IsIdle(w)
  /\ asked < MaxRequests
  /\ asked' = asked + 1
  /\ req' = [req EXCEPT ![w] = request]

NewRow(kind, name, receiver, registration) ==
  [kind |-> kind, name |-> name, user |-> "user", owner |-> 0,
   receiver |-> receiver, registration |-> registration]

(* writable? counts the runs of a row, which for a scenario are the ones   *)
(* that send it, not the ones that receive with it.                        *)
Writable(i) == \A r \in Runs : i \notin {runs[r].profile, runs[r].scenario}
-----------------------------------------------------------------------------
(* Requests *)

(* create, from the form of new. *)
Create(w, kind, name, receiver) ==
  /\ receiver => kind = "scenario"
  /\ Request(w, Asking("create", <<Save(0, NewRow(kind, name, receiver, FALSE))>>))
  /\ UNCHANGED <<rows, lastId, runs, raced, strays>>

(* scenarios#create with a registration: that one is saved first.          *)
CreateWithRegistration(w, name, regName) ==
  /\ "scenario" \in Kinds
  /\ Request(w, Asking("create", <<Save(0, NewRow("scenario", regName, FALSE, TRUE)),
                                   Save(0, NewRow("scenario", name, TRUE, FALSE))>>))
  /\ UNCHANGED <<rows, lastId, runs, raced, strays>>

(* duplicate: not the direction of a scenario. *)
Copy(w, i) ==
  /\ i \in DOMAIN rows
  /\ rows[i].kind # "target"
  /\ rows[i].name \in DOMAIN CopyOf
  /\ Request(w, Asking("copy",
                   <<Save(0, NewRow(rows[i].kind, CopyOf[rows[i].name], FALSE, FALSE))>>))
  /\ UNCHANGED <<rows, lastId, runs, raced, strays>>

(* The registration of a scenario, or a new one, which belongs to nobody.  *)
RegistrationSaves(i, regName) ==
  LET own == {j \in DOMAIN rows : rows[j].owner = i}
      new == [NewRow("scenario", regName, FALSE, TRUE) EXCEPT !.user = "nobody", !.owner = i]
  IN IF own = {} THEN {Save(0, new)}
     ELSE {Save(j, [rows[j] EXCEPT !.name = regName]) : j \in own}

(* update, of any row, whether its form was open or not.  Profiles and     *)
(* targets do not look at the runs; scenarios do, redirect with an alert,  *)
(* and go on to save: there is no return.                                  *)
Update(w, i, name, regName) ==
  /\ i \in DOMAIN rows
  /\ \E saves \in IF rows[i].receiver
                  THEN {<<save>> : save \in RegistrationSaves(i, regName)} ELSE {<<>>} :
       Request(w, [Asking("update", <<Save(i, [rows[i] EXCEPT !.name = name])>> \o saves)
                     EXCEPT !.alert = rows[i].kind = "scenario" /\ ~Writable(i)])
  /\ UNCHANGED <<rows, lastId, runs, raced, strays>>

Destroy(i) ==
  /\ i \in DOMAIN rows
  /\ rows' = [j \in DOMAIN rows \ {i} |-> rows[j]]
  /\ UNCHANGED <<lastId, runs, asked, req, raced, strays>>

OfKind(kind) == {i \in DOMAIN rows : rows[i].kind = kind}

(* A run needs a profile and one of the scenarios, each of its direction.  *)
CreateRun(r) ==
  /\ runs[r] = NoRun
  /\ \E p \in OfKind("profile"), s, v \in OfKind("scenario") \cup {0} :
       /\ s # 0 \/ v # 0
       /\ s # 0 => ~rows[s].receiver
       /\ v # 0 => rows[v].receiver
       /\ runs' = [runs EXCEPT ![r] = [profile |-> p, scenario |-> s, receiver |-> v]]
  /\ UNCHANGED <<rows, lastId, asked, req, raced, strays>>

DestroyRun(r) ==
  /\ runs[r] # NoRun
  /\ runs' = [runs EXCEPT ![r] = NoRun]
  /\ UNCHANGED <<rows, lastId, asked, req, raced, strays>>
-----------------------------------------------------------------------------
(* Saves *)

Alike(row, other) == /\ row.kind = other.kind
                     /\ row.name = other.name
                     /\ row.user = other.user

(* Variant: a row that is renamed is compared with no other. *)
TakenByNew(save) ==
  save.to = 0 /\ \E i \in DOMAIN rows : Alike(rows[i], save.row)

(* validates_uniqueness_of :name, scope: :user_id *)
Taken(save) ==
  \E i \in DOMAIN rows \ {save.to} : Alike(rows[i], save.row)

(* The first of the two saves of a scenario with a registration. *)
SavesAhead(w) == req[w].op = "create" /\ Len(req[w].saves) = 2

Validate(w) ==
  /\ req[w].saves # <<>>
  /\ ~req[w].checked
  /\ ~Taken(Head(req[w].saves))
  /\ req' = [req EXCEPT ![w].checked = TRUE, ![w].outdated = FALSE]
  /\ UNCHANGED <<rows, lastId, runs, asked, raced, strays>>

(* The name is taken, or something else of the row is not valid: the       *)
(* scenario of a refused registration is saved all the same, everything    *)
(* else goes back to its form.                                             *)
Refuse(w) ==
  /\ req[w].saves # <<>>
  /\ ~req[w].checked
  /\ req' = [req EXCEPT ![w] =
       IF SavesAhead(w)
       THEN [req[w] EXCEPT !.saves = Tail(@), !.again = <<Head(req[w].saves)>>]
       ELSE Idle]
  /\ strays' = strays \cup ({req[w].registration} \ {0})
  /\ UNCHANGED <<rows, lastId, runs, asked, raced>>

(* Variant: the next save counts as validated. *)
GoesOn(w, rest, registration) ==
  [req[w] EXCEPT !.saves = rest, !.registration = registration]

(* After a write: the saves that are left, and then the answer.            *)
Goes(w, rest, registration) ==
  IF rest = <<>> THEN Idle
  ELSE [Asking(req[w].op, rest) EXCEPT !.alert = req[w].alert, !.registration = registration]

(* Every other request that validated before this write. *)
Outdate(w, q) == [v \in Web |-> [q[v] EXCEPT !.outdated = @ \/ (v # w /\ q[v].checked)]]

Raced(w, i) == IF req[w].outdated THEN raced \cup {i} ELSE raced

(* An UPDATE; of a row that is gone it writes nothing, and says nothing.   *)
WriteUpdate(w) ==
  LET save == Head(req[w].saves)
      rest == Tail(req[w].saves)
  IN /\ req[w].checked
     /\ save.to # 0
     /\ rows' = IF save.renames /\ save.to \in DOMAIN rows
                THEN [rows EXCEPT ![save.to].name = save.row.name] ELSE rows
     /\ raced' = Raced(w, save.to)
     /\ req' = Outdate(w, [req EXCEPT ![w] = Goes(w, rest, 0)])
     /\ UNCHANGED <<lastId, runs, asked, strays>>

(* Variant: the registration is not told its scenario. *)
Unattached(i, j) == rows[j]

(* The registration gets the id of its scenario. *)
Attached(i, j) == [rows[j] EXCEPT !.owner = i]

(* An INSERT.  With it a registration that was saved ahead is saved once   *)
(* more, and left as it is if its name was taken meanwhile; one that was   *)
(* refused is tried again.                                                 *)
WriteInsert(w) ==
  LET save == Head(req[w].saves)
      i    == lastId + 1
      j    == req[w].registration
      rest == Tail(req[w].saves)
              \o [k \in DOMAIN req[w].again |-> [req[w].again[k] EXCEPT !.row.owner = i]]
  IN /\ req[w].checked
     /\ save.to = 0
     /\ i <= MaxRows
     /\ lastId' = i
     /\ LET attach == j \in DOMAIN rows /\ ~Taken(Save(j, rows[j])) IN
        /\ rows' = [k \in DOMAIN rows \cup {i} |->
                      IF k = i THEN save.row
                      ELSE IF k = j /\ attach THEN Attached(i, j)
                      ELSE rows[k]]
        /\ strays' = strays \cup (IF j # 0 /\ ~attach THEN {j} ELSE {})
     /\ raced' = Raced(w, i)
     /\ req' = Outdate(w, [req EXCEPT ![w] = Goes(w, rest, IF SavesAhead(w) THEN i ELSE 0)])
     /\ UNCHANGED <<runs, asked>>

Next ==
  \/ \E w \in Web :
       \/ \E k \in Kinds, n \in Names, v \in BOOLEAN : Create(w, k, n, v)
       \/ \E n, m \in Names : \/ CreateWithRegistration(w, n, m)
                              \/ \E i \in Ids : Update(w, i, n, m)
       \/ \E i \in Ids : Copy(w, i)
       \/ Validate(w) \/ Refuse(w)
       \/ req[w].saves # <<>> /\ (WriteUpdate(w) \/ WriteInsert(w))
  \/ \E i \in Ids : Destroy(i)
  \/ \E r \in Runs : CreateRun(r) \/ DestroyRun(r)

Spec == Init /\ [][Next]_vars
-----------------------------------------------------------------------------
(* Properties *)

TypeOK ==
  /\ DOMAIN rows \subseteq 1..lastId
  /\ \A i \in DOMAIN rows : rows[i] \in Row
  /\ lastId \in 0..MaxRows
  /\ asked \in 0..MaxRequests
  /\ runs \in [Runs -> [profile : 0..MaxRows, scenario : 0..MaxRows, receiver : 0..MaxRows]]
  /\ \A w \in Web : /\ req[w].registration \in 0..MaxRows
                    /\ req[w].checked => req[w].saves # <<>>
                    /\ Len(req[w].saves) <= 2
  /\ raced \subseteq Ids
  /\ strays \subseteq Ids

(* `should not accept the same name twice' (spec/models/profile_spec.rb):  *)
(* two rows of a user have one name only if one was written after a        *)
(* validation that another write had put out of date.                      *)
UniqueNames ==
  \A i, j \in DOMAIN rows :
    i # j /\ Alike(rows[i], rows[j]) => i \in raced \/ j \in raced

(* A registration scenario without a scenario was saved ahead of one that  *)
(* was then refused, or lost its name in between (scenarios_controller.rb, *)
(* 62-70).                                                                 *)
StraysRefused ==
  \A i \in DOMAIN rows :
    rows[i].registration /\ rows[i].owner = 0 =>
      i \in strays \/ \E w \in Web : req[w].registration = i

(* `Cannot edit a scenario that has already been used in a Test Run'       *)
(* (scenarios_controller.rb, 84): an update that says so saves nothing.    *)
AlertedSaveNothing ==
  [][\A w \in Web : req[w].alert /\ req'[w].saves # req[w].saves => rows' = rows]_vars
=============================================================================
