---------------------------- MODULE TestRunForm ----------------------------
(***************************************************************************)
(* The form of a test run in the browser (test_runs.js.coffee.erb): its    *)
(* selects of shared rows, the modals that create a row without leaving    *)
(* the form, and the requests that fill selects and details again.         *)
(*                                                                         *)
(* Requests are served and answered in any order.  Every handler asks      *)
(* current_caller, a global, which select an answer is for.                *)
(***************************************************************************)
EXTENDS Naturals, FiniteSets, FiniteSetsExt, Sequences, SequencesExt

CONSTANTS
  Names,     \* the selects of the instance
  First,     \* the rows that exist when the form is loaded
  MaxRows,   \* bound on the rows of a table
  MaxXhr,    \* bound on the requests under way
  MaxUpset,  \* bound on the kinds of disturbances in one behaviour
  PerPage,   \* how many rows an index of profiles or targets returns
  None       \* no modal, no caller

AllNames == {"scenario", "receiver_scenario", "profile", "target"}

ASSUME NamesAssumption == Names \subseteq AllNames
ASSUME BoundsAssumption == {MaxRows, MaxXhr, MaxUpset} \subseteq Nat
ASSUME PerPageAssumption == PerPage \in Nat \ {0}
ASSUME NoneAssumption == None \notin AllNames

(* getFormName: the two selects of scenarios share a modal and a table.    *)
FormName(name) == IF name = "receiver_scenario" THEN "scenario" ELSE name

Tables == {FormName(name) : name \in Names}

Rows == [table : Tables, id : 1..MaxRows, receiver : BOOLEAN]

(* The tables have a primary key. *)
ASSUME FirstAssumption ==
  /\ First \subseteq Rows
  /\ \A r, s \in First : r.table = s.table /\ r.id = s.id => r = s

NoneMade == [name |-> None, row |-> None]

(* What a select may show besides a row. *)
Blank  == [value |-> ""]
Create == [value |-> "__create"]
NonRows == {Blank, Create}

(* The requests.  A form that is sent has status 0 until it is served; an  *)
(* answer of 201 brings the row.                                           *)
PostRequests == [kind : {"post"}, table : Tables, status : {0, 201, 422},
                 row : Rows \cup {Blank}, receiver : BOOLEAN]
ListRequests == [kind : {"list"}, table : Tables, type : Names,
                 served : BOOLEAN, data : SUBSET Rows]
ShowRequests == [kind : {"show"}, name : Names, id : 1..MaxRows]
Requests == PostRequests \cup ListRequests \cup ShowRequests

VARIABLES
  rows,      \* the database
  options,   \* what each select offers, Create aside
  value,     \* what each select has
  display,   \* the row whose details are shown beside each select, or Blank
  caller,    \* window.current_caller
  modal,     \* the modal on the page, or None
  fading,    \* that modal was dismissed and is not hidden yet
  receiver,  \* the hidden field scenario_receiver
  errors,    \* the modals that show errors
  xhr,       \* the requests under way, in the order they were sent
  made,      \* history: the last row created, and the select it was for
  upset      \* history: what may come between an answer and its select

formVars == <<options, value, display, caller, modal, fading, receiver, errors>>
vars     == <<rows, formVars, xhr, made, upset>>

(* hasty:    the user went on while a post or a list was under way         *)
(* others:   someone else created a row meanwhile                          *)
(* failed:   a request was lost                                            *)
(* overtaken: details were answered before ones asked earlier, or were     *)
(*           asked for a value the select no longer has                    *)
(* emptied:  a list came without rows, and left the details as they were   *)
Upsets == {"hasty", "others", "failed", "overtaken", "emptied"}

OfKind(row, name) ==
  /\ row.table = FormName(name)
  /\ row.table = "scenario" => (row.receiver <=> name = "receiver_scenario")

Kind(name) == {row \in rows : OfKind(row, name)}

Posts  == {i \in DOMAIN xhr : xhr[i].kind = "post"}
Lists  == {i \in DOMAIN xhr : xhr[i].kind = "list"}
ShowsOf(name) == {i \in DOMAIN xhr : xhr[i].kind = "show" /\ xhr[i].name = name}

(* showScenario, showProfile, showTarget: the value of an option is the id *)
(* of its row, and the table asked is the select's.  Nothing is asked for  *)
(* a blank.                                                                *)
ShowOf(name, id) == [kind |-> "show", name |-> name, id |-> id]

Shows(name, v) == IF v = Blank THEN <<>> ELSE <<ShowOf(name, v.id)>>

(* A new form, or the form of a run that has rows already; the details of  *)
(* those are asked for on load.                                            *)
Init ==
  /\ rows = First
  /\ options = [n \in Names |-> {r \in First : OfKind(r, n)} \cup {Blank}]
  /\ value \in {v \in [Names -> First \cup {Blank}] : \A n \in Names : v[n] \in options[n]}
  /\ display = [n \in Names |-> Blank]
  /\ xhr \in SetToSeqs({ShowOf(n, value[n].id) : n \in {m \in Names : value[m] # Blank}})
  /\ caller = None
  /\ modal = None
  /\ fading = FALSE
  /\ receiver = FALSE
  /\ errors = {}
  /\ made = NoneMade
  /\ upset = {}
-----------------------------------------------------------------------------
Upset(why, happens) == IF happens THEN {why} ELSE {}

(* The handlers of a change of a select. *)
Select(name, v) ==
  /\ modal = None
  /\ v \in options[name] \cup {Create}
  /\ v # value[name]
  /\ Len(xhr) < MaxXhr
  /\ value' = [value EXCEPT ![name] = v]
  /\ caller' = name
  /\ made' = IF made.name = name THEN NoneMade ELSE made
  /\ upset' = upset \cup Upset("hasty", Posts \cup Lists # {})
                    \cup Upset("overtaken", v \in NonRows /\ ShowsOf(name) # {})
  /\ IF v = Create
     THEN /\ modal' = FormName(name)
          /\ receiver' = IF FormName(name) = "scenario" THEN name = "receiver_scenario"
                         ELSE receiver
     ELSE UNCHANGED <<modal, receiver>>
  /\ IF v \in NonRows
     THEN display' = [display EXCEPT ![name] = Blank] /\ UNCHANGED xhr
     ELSE xhr' = xhr \o Shows(name, v) /\ UNCHANGED display
  /\ UNCHANGED <<rows, options, fading, errors>>

(* The form of the modal is sent; nothing keeps it from being sent twice.  *)
Submit ==
  /\ modal # None
  /\ ~fading
  /\ Len(xhr) < MaxXhr
  /\ xhr' = Append(xhr, [kind |-> "post", table |-> modal, status |-> 0, row |-> Blank,
                         receiver |-> (modal = "scenario" /\ receiver)])
  /\ upset' = upset \cup Upset("hasty", Posts \cup Lists # {})
  /\ UNCHANGED <<rows, formVars, made>>

Dismiss ==
  /\ modal # None
  /\ ~fading
  /\ fading' = TRUE
  /\ UNCHANGED <<rows, options, value, display, caller, modal, receiver, errors,
                 xhr, made, upset>>

(* Variant: a select is bound to the modal of its own name, and there is   *)
(* none for receivers.                                                     *)
ResetNamed(name) ==
  IF value[name] = Create /\ modal = name THEN Blank ELSE value[name]

(* resetSelectBox *)
Reset(name) == IF value[name] = Create THEN Blank ELSE value[name]

(* hidden: every select was bound to every modal. *)
Hidden ==
  /\ fading
  /\ fading' = FALSE
  /\ modal' = None
  /\ errors' = {}
  /\ value' = [n \in Names |-> Reset(n)]
  /\ UNCHANGED <<rows, options, display, caller, receiver, xhr, made, upset>>
-----------------------------------------------------------------------------
(* The server *)

NextId(table) == Max({r.id : r \in {s \in rows : s.table = table}} \cup {0}) + 1

NewRow(table, recv) == [table |-> table, id |-> NextId(table), receiver |-> recv]

(* create: 201 with the row, or 422. *)
ServePost(i) ==
  /\ i \in Posts
  /\ xhr[i].status = 0
  /\ \/ LET row == NewRow(xhr[i].table, xhr[i].receiver) IN
        /\ row.id <= MaxRows
        /\ rows' = rows \cup {row}
        /\ xhr' = [xhr EXCEPT ![i].status = 201, ![i].row = row]
     \/ /\ xhr' = [xhr EXCEPT ![i].status = 422]
        /\ UNCHANGED rows
  /\ UNCHANGED <<formVars, made, upset>>

(* index: scenarios by type, all of them; a page of the others, in no      *)
(* order.                                                                  *)
Listed(table, type) ==
  LET all == {r \in rows : r.table = table} IN
  IF table = "scenario"
  THEN {IF type \in {"scenario", "receiver_scenario"} THEN Kind(type) ELSE all}
  ELSE {s \in SUBSET all : Cardinality(s) = Min({PerPage, Cardinality(all)})}

ServeList(i) ==
  /\ i \in Lists
  /\ ~xhr[i].served
  /\ \E data \in Listed(xhr[i].table, xhr[i].type) :
       xhr' = [xhr EXCEPT ![i].served = TRUE, ![i].data = data]
  /\ UNCHANGED <<rows, formVars, made, upset>>

(* Another user, or another tab. *)
CreateElsewhere ==
  /\ \E t \in Tables, recv \in BOOLEAN :
       /\ recv => t = "scenario"
       /\ NextId(t) <= MaxRows
       /\ rows' = rows \cup {NewRow(t, recv)}
  /\ upset' = upset \cup {"others"}
  /\ UNCHANGED <<formVars, xhr, made>>

(* The network, or a session that expired: no handler but a log. *)
Fail(i) ==
  /\ i \in DOMAIN xhr
  /\ xhr' = RemoveAt(xhr, i)
  /\ upset' = upset \cup {"failed"}
  /\ UNCHANGED <<rows, formVars, made>>
-----------------------------------------------------------------------------
(* Variant: the list is asked for the table of the form only. *)
ListOf(table) == [kind |-> "list", table |-> table, type |-> table,
                  served |-> FALSE, data |-> {}]

(* reloadOptions asks with the type of the caller. *)
ListFor(table) == [kind |-> "list", table |-> table, type |-> caller,
                   served |-> FALSE, data |-> {}]

(* ajax:complete of the modal, with 201; the one of scenarios has a        *)
(* handler of each select.                                                 *)
Created(i) ==
  LET table == xhr[i].table
      names == {n \in Names : FormName(n) = table}
      lists == [k \in 1..Cardinality(names) |-> ListFor(table)]
  IN /\ i \in Posts
     /\ xhr[i].status = 201
     /\ xhr' = RemoveAt(xhr, i) \o lists
     /\ fading' = (fading \/ modal = table)
     /\ made' = IF OfKind(xhr[i].row, caller) THEN [name |-> caller, row |-> xhr[i].row] ELSE made
     /\ UNCHANGED <<rows, options, value, display, caller, modal, receiver, errors, upset>>

(* ajax:complete with 422: attachErrors, if the form is the caller's.      *)
Refused(i) ==
  /\ i \in Posts
  /\ xhr[i].status = 422
  /\ xhr' = RemoveAt(xhr, i)
  /\ errors' = IF FormName(caller) = xhr[i].table THEN errors \cup {xhr[i].table} ELSE errors
  /\ UNCHANGED <<rows, options, value, display, caller, modal, fading, receiver,
                 made, upset>>

(* Variant: the select shows the first row of the list. *)
Lowest(data) ==
  IF data = {} THEN Blank
  ELSE CHOOSE r \in data : \A s \in data : r.id <= s.id

(* Variant: the id 0 of an empty list is selected as it is. *)
HighestOrZero(data) ==
  IF data = {} THEN [table |-> FormName(caller), id |-> 0, receiver |-> FALSE]
  ELSE CHOOSE r \in data : \A s \in data : s.id <= r.id

(* val(highest_id), which selects nothing in an empty list. *)
Highest(data) ==
  IF data = {} THEN Blank
  ELSE CHOOSE r \in data : \A s \in data : s.id <= r.id

(* reloadOptions: the list goes to the select that is the caller by now.   *)
Reloaded(i) ==
  LET data == xhr[i].data
      v    == Highest(data)
  IN /\ i \in Lists
     /\ xhr[i].served
     /\ options' = [options EXCEPT ![caller] = data]
     /\ value' = [value EXCEPT ![caller] = v]
     /\ xhr' = RemoveAt(xhr, i) \o Shows(caller, v)
     /\ upset' = upset \cup Upset("emptied", data = {})
     /\ UNCHANGED <<rows, display, caller, modal, fading, receiver, errors, made>>

(* The row of the select's table that has the id, of senders and receivers *)
(* alike, if there is one.                                                 *)
Found(i) == {r \in rows : r.table = FormName(xhr[i].name) /\ r.id = xhr[i].id}

(* Variant: details of a row, beside the select that is the caller. *)
ShownForCaller(i, row) == [display EXCEPT ![caller] = row]

(* The details of a row, beside the select they were asked for. *)
ShownFor(i, row) == [display EXCEPT ![xhr[i].name] = row]

(* They come; without such a row nothing handles the answer, and the old   *)
(* details stay.                                                           *)
Details(i) ==
  /\ i \in DOMAIN xhr
  /\ xhr[i].kind = "show"
  /\ \/ \E row \in Found(i) : display' = ShownFor(i, row)
     \/ Found(i) = {} /\ UNCHANGED display
  /\ xhr' = RemoveAt(xhr, i)
  /\ upset' = upset \cup Upset("overtaken", \E j \in ShowsOf(xhr[i].name) : j < i)
  /\ UNCHANGED <<rows, options, value, caller, modal, fading, receiver, errors, made>>

Step ==
  \/ \E n \in Names : \E v \in options[n] \cup {Create} : Select(n, v)
  \/ Submit
  \/ Dismiss
  \/ Hidden
  \/ \E i \in DOMAIN xhr : \/ ServePost(i) \/ ServeList(i) \/ Fail(i)
                           \/ Created(i) \/ Refused(i) \/ Reloaded(i) \/ Details(i)
  \/ CreateElsewhere

(* An empty list is not counted: it is nobody's doing. *)
Next == Step /\ Cardinality(upset' \ {"emptied"}) <= MaxUpset

Spec == Init /\ [][Next]_vars
-----------------------------------------------------------------------------
(* Properties *)

TypeOK ==
  /\ rows \subseteq Rows
  /\ options \in [Names -> SUBSET (rows \cup {Blank})]
  /\ value \in [Names -> rows \cup NonRows]
  /\ \A n \in Names : value[n] \in options[n] \cup NonRows
  /\ display \in [Names -> rows \cup {Blank}]
  /\ made = NoneMade \/ made \in [name : Names, row : rows]
  /\ caller \in Names \cup {None}
  /\ modal \in Tables \cup {None}
  /\ fading \in BOOLEAN
  /\ receiver \in BOOLEAN
  /\ errors \subseteq Tables
  /\ xhr \in Seq(Requests)
  /\ upset \subseteq Upsets

(* A select is at `Create new...' only under its own modal: whatever       *)
(* closes the modal, or replaces the select's list under it, leaves no     *)
(* select behind that would send `__create' as an id.                      *)
CreatesInModal ==
  \A n \in Names : value[n] = Create => modal = FormName(n) /\ caller = n

(* For a user who lets a post and its list come before going on, a select  *)
(* offers rows of its own table, senders and receivers apart.              *)
OwnKind ==
  "hasty" \notin upset =>
    \A n \in Names : options[n] \ {Blank} \subseteq Kind(n)

(* ... and a row created through a select ends up selected, if nobody else *)
(* creates one, and a table of profiles or targets fits one page.          *)
CreatedSelected ==
  /\ xhr = <<>>
  /\ upset \cap {"hasty", "others", "failed"} = {}
  /\ made # NoneMade
  => \/ value[made.name] = made.row
     \/ /\ made.row.table # "scenario"
        /\ Cardinality({r \in rows : r.table = made.row.table}) > PerPage

(* Once nothing is under way, the details beside a select are those of the *)
(* row it has: each answer finds the select it was asked for, although the *)
(* caller is another by then, and the id names the same row in the table   *)
(* asked.  A select that a late list gave rows of another table has no     *)
(* such row: it shows the row of its own table with that id, or old        *)
(* details (test_runs.js.coffee.erb, 59-67 and 131-185).                   *)
DetailsMatch ==
  /\ xhr = <<>>
  /\ upset \cap {"overtaken", "failed", "emptied"} = {}
  => \A n \in Names : IF value[n] \in NonRows THEN display[n] = Blank
                      ELSE value[n].table = FormName(n) => display[n] = value[n]
=============================================================================
