------------------------ MODULE TestRunForm_proofs ------------------------
(***************************************************************************)
(* Theorems of TestRunForm, for any selects, any rows to begin with and    *)
(* any bounds.                                                             *)
(*                                                                         *)
(* The five properties look at the selects.  The inductive invariant says  *)
(* what the requests under way will do to them: which rows an answer may   *)
(* carry, which select current_caller will name when it comes, and which   *)
(* details come last.                                                      *)
(***************************************************************************)
EXTENDS TestRunForm, FiniteSetTheorems, SequenceTheorems, TLAPS

Sent == {xhr[k] : k \in DOMAIN xhr}

(* An answer carries rows of the database, and the answer to a post or to  *)
(* a list is for a select.                                                 *)
Answerable(r) ==
  /\ r.kind = "post" => caller \in Names /\ (r.status = 201 => r.row \in rows)
  /\ r.kind = "list" => caller \in Names /\ r.data \subseteq rows

Answers == \A r \in Sent : Answerable(r)

(* The primary key of a table. *)
Keys == \A r, s \in rows : r.table = s.table /\ r.id = s.id => r = s

(* Such a row is for the select. *)
Directed(table, recv, name) ==
  /\ table = FormName(name)
  /\ table = "scenario" => (recv <=> name = "receiver_scenario")

(* A modal on the page is the caller's, and so is its hidden field. *)
Modal == modal # None => Directed(modal, receiver, caller)

Basics == TypeOK /\ Answers /\ Keys /\ Modal /\ CreatesInModal

(* For a user who waits, what is under way is for the caller. *)
CallersOwn(r) ==
  /\ r.kind = "post" => /\ Directed(r.table, r.receiver, caller)
                        /\ r.status = 201 => OfKind(r.row, caller)
  /\ r.kind = "list" => /\ r.table = FormName(caller)
                        /\ r.type = caller
                        /\ r.data \subseteq Kind(caller)

ForCaller == "hasty" \notin upset => \A r \in Sent : CallersOwn(r)

(* ... and one post is under way, or lists are. *)
OneAtATime == "hasty" \notin upset => \A i \in Posts : Posts \cup Lists = {i}

(* While nobody else creates a row, the one a post brings is the newest of *)
(* its table; while its lists are under way it is the row made last, and   *)
(* the lists that are served have it, or their page is too short.  When    *)
(* they are in, the select has it.                                         *)
Alone == upset \cap {"hasty", "others", "failed"} = {}

Newest(row) == \A r \in rows : r.table = row.table => r.id <= row.id

Overflow(row) ==
  /\ row.table # "scenario"
  /\ Cardinality({r \in rows : r.table = row.table}) > PerPage

Brings(r) ==
  /\ r.kind = "post" /\ r.status = 201 => Newest(r.row)
  /\ r.kind = "list" => /\ made # NoneMade
                        /\ made.name = caller
                        /\ Newest(made.row)
                        /\ r.served => made.row \in r.data \/ Overflow(made.row)

Coming == Alone => \A r \in Sent : Brings(r)

MadeIsKind == made # NoneMade => OfKind(made.row, made.name)

Arrived ==
  Alone /\ Lists = {} /\ made # NoneMade =>
    value[made.name] = made.row \/ Overflow(made.row)

Latest == Coming /\ MadeIsKind /\ Arrived

(* The last details asked for beside a select are of the row it has. *)
InOrder == upset \cap {"overtaken", "failed", "emptied"} = {}

Settled(n) ==
  IF value[n] \in NonRows THEN display[n] = Blank
  ELSE value[n].table = FormName(n) => display[n] = value[n]

(* What is asked for is the id of the row that is selected. *)
AsksFor(n, i) == value[n] \notin NonRows /\ xhr[i].id = value[n].id

LastShown ==
  InOrder => \A n \in Names :
    /\ ShowsOf(n) = {} => Settled(n)
    /\ \A i \in ShowsOf(n) : (\A j \in ShowsOf(n) : j <= i) => AsksFor(n, i)

IInv == Basics /\ ForCaller /\ OwnKind /\ OneAtATime /\ Latest /\ LastShown
-----------------------------------------------------------------------------
(* Names, rows and requests. *)

LEMMA FormNameType ==
  ASSUME NEW n \in Names
  PROVE  FormName(n) \in Tables /\ FormName(n) \in AllNames /\ FormName(n) # None
BY NamesAssumption, NoneAssumption DEF FormName, Tables, AllNames

LEMMA NotARow == Blank \notin Rows /\ Create \notin Rows /\ Blank # Create /\ None \notin Names
<1>1. Blank \notin Rows /\ Create \notin Rows
  BY DEF Blank, Create, Rows
<1>2. Blank # Create
  BY DEF Blank, Create
<1> QED BY <1>1, <1>2, NamesAssumption, NoneAssumption

LEMMA RequestTypes ==
  ASSUME NEW r \in Requests
  PROVE  /\ r.kind = "post" => r \in PostRequests
         /\ r.kind = "list" => r \in ListRequests
         /\ r.kind = "show" => r \in ShowRequests
         /\ r.kind \in {"post", "list", "show"}
BY DEF Requests, PostRequests, ListRequests, ShowRequests

LEMMA KindOfRequest ==
  ASSUME NEW r
  PROVE  /\ r \in PostRequests => r \in Requests /\ r.kind = "post"
         /\ r \in ListRequests => r \in Requests /\ r.kind = "list"
         /\ r \in ShowRequests => r \in Requests /\ r.kind = "show"
BY DEF Requests, PostRequests, ListRequests, ShowRequests

(* What an answer does to the sequence of requests. *)

(* One is replaced. *)
LEMMA Replaced ==
  ASSUME NEW s \in Seq(Requests), NEW i \in DOMAIN s, NEW r \in Requests
  PROVE  LET t == [s EXCEPT ![i] = r] IN
         /\ t \in Seq(Requests)
         /\ DOMAIN t = DOMAIN s
         /\ t[i] = r
         /\ \A j \in DOMAIN s : j # i => t[j] = s[j]
BY ExceptSeq, LenProperties

(* One is removed, others are sent.  Before: the index an element had.      *)
Before(k, i) == IF k < i THEN k ELSE k + 1

LEMMA Removed ==
  ASSUME NEW s \in Seq(Requests), NEW i \in DOMAIN s, NEW more \in Seq(Requests)
  PROVE  LET t == RemoveAt(s, i) \o more IN
         /\ t \in Seq(Requests)
         /\ Len(t) = Len(s) - 1 + Len(more)
         /\ \A k \in 1 .. Len(s) - 1 : t[k] = s[Before(k, i)]
         /\ \A k \in 1 .. Len(more) : t[Len(s) - 1 + k] = more[k]
<1> DEFINE a == SubSeq(s, 1, i - 1)
           b == SubSeq(s, i + 1, Len(s))
<1>1. i \in 1 .. Len(s) /\ Len(s) \in Nat
  BY LenProperties
<1>2. /\ a \in Seq(Requests) /\ Len(a) = i - 1
      /\ \A k \in 1 .. i - 1 : a[k] = s[k]
  <2>1. \A k \in 1 .. i - 1 : s[k] \in Requests
    BY <1>1, ElementOfSeq
  <2> QED BY <1>1, <2>1, SubSeqProperties
<1>3. /\ b \in Seq(Requests) /\ Len(b) = Len(s) - i
      /\ \A k \in 1 .. Len(s) - i : b[k] = s[i + k]
  <2>1. \A k \in i + 1 .. Len(s) : s[k] \in Requests
    BY <1>1, ElementOfSeq
  <2> QED BY <1>1, <2>1, SubSeqProperties
<1> HIDE DEF a, b
<1> DEFINE ab == a \o b
<1>4. /\ ab \in Seq(Requests)
      /\ Len(ab) = Len(s) - 1
      /\ \A k \in 1 .. Len(s) - 1 : ab[k] = s[Before(k, i)]
  <2>1. /\ ab \in Seq(Requests)
        /\ Len(ab) = Len(a) + Len(b)
        /\ \A k \in 1 .. Len(a) + Len(b) : ab[k] = IF k <= Len(a) THEN a[k] ELSE b[k - Len(a)]
    BY <1>2, <1>3, ConcatProperties
  <2> HIDE DEF ab
  <2>2. Len(ab) = Len(s) - 1
    BY <1>1, <1>2, <1>3, <2>1
  <2>3. ASSUME NEW k \in 1 .. Len(s) - 1 PROVE ab[k] = s[Before(k, i)]
    <3>1. CASE k < i
      <4>1. k \in 1 .. Len(a) + Len(b) /\ k <= Len(a) /\ k \in 1 .. i - 1
        BY <1>1, <1>2, <1>3, <3>1
      <4>2. ab[k] = a[k] /\ a[k] = s[k]
        BY <1>2, <2>1, <4>1
      <4> QED BY <3>1, <4>2 DEF Before
    <3>2. CASE ~ (k < i)
      <4>1. ab[k] = b[k - (i - 1)]
        <5>1. i \in Nat /\ k \in Nat /\ Len(a) = i - 1 /\ Len(b) = Len(s) - i
          BY <1>1, <1>2, <1>3
        <5>2. k \in 1 .. Len(a) + Len(b)
          BY <1>1, <5>1
        <5>3. ~ (k <= Len(a)) /\ k - Len(a) = k - (i - 1)
          BY <3>2, <5>1
        <5> QED BY <2>1, <5>2, <5>3
      <4>2. b[k - (i - 1)] = s[i + (k - (i - 1))]
        <5>1. k - (i - 1) \in 1 .. Len(s) - i
          BY <1>1, <3>2
        <5> QED BY <1>3, <5>1
      <4>3. i + (k - (i - 1)) = k + 1
        BY <1>1
      <4> QED BY <3>2, <4>1, <4>2, <4>3 DEF Before
    <3> QED BY <3>1, <3>2
  <2> QED BY <2>1, <2>2, <2>3
<1>5. RemoveAt(s, i) = ab
  BY DEF RemoveAt, ab, a, b
<1> HIDE DEF ab
<1> DEFINE t == ab \o more
<1>6. /\ t \in Seq(Requests)
      /\ Len(t) = Len(ab) + Len(more)
      /\ \A k \in 1 .. Len(ab) + Len(more) : t[k] = IF k <= Len(ab) THEN ab[k] ELSE more[k - Len(ab)]
  BY <1>4, ConcatProperties
<1>7. Len(more) \in Nat
  BY LenProperties
<1> HIDE DEF t
<1>8. \A k \in 1 .. Len(s) - 1 : t[k] = s[Before(k, i)]
  <2> SUFFICES ASSUME NEW k \in 1 .. Len(s) - 1 PROVE t[k] = s[Before(k, i)]
    OBVIOUS
  <2>1. k \in 1 .. Len(ab) + Len(more) /\ k <= Len(ab)
    BY <1>1, <1>4, <1>7
  <2> QED BY <1>4, <1>6, <2>1
<1>9. ASSUME NEW k \in 1 .. Len(more) PROVE t[Len(s) - 1 + k] = more[k]
  <2>1. t[Len(s) - 1 + k] = more[(Len(s) - 1 + k) - (Len(s) - 1)]
    BY <1>1, <1>4, <1>6, <1>7
  <2>2. (Len(s) - 1 + k) - (Len(s) - 1) = k
    BY <1>1
  <2> QED BY <2>1, <2>2
<1> QED BY <1>4, <1>5, <1>6, <1>8, <1>9 DEF t

(* Rows: their ids, the next one, and the highest of a list. *)

LEMMA MaxExists ==
  ASSUME NEW S \in SUBSET Nat, IsFiniteSet(S), S # {}
  PROVE  \E x \in S : \A y \in S : y <= x
<1> DEFINE Above(x) == {y \in S : x < y}
           T == {Above(x) : x \in S}
           R == StrictSubsetOrdering(S)
<1>1. IsWellFoundedOn(R, SUBSET S)
  BY FS_StrictSubsetOrderingWellFounded, FS_FiniteSubsetsOfFinite
<1>2. T \subseteq SUBSET S /\ T # {}
  OBVIOUS
<1>3. PICK U \in T : \A V \in T : ~ (<<V, U>> \in R)
  <2> HIDE DEF T, R
  <2> QED BY <1>1, <1>2, WFMin
<1>4. PICK x \in S : U = Above(x)
  BY <1>3
<1>5. ASSUME NEW y \in S, x < y PROVE FALSE
  <2>0. y \in Nat /\ x \in Nat
    OBVIOUS
  <2>1. Above(y) \in T /\ Above(y) \subseteq S /\ U \subseteq S
    BY <1>4
  <2>2. Above(y) \subseteq U /\ y \in U /\ y \notin Above(y)
    <3>1. \A z \in Above(y) : z \in Nat /\ y < z
      OBVIOUS
    <3>2. \A z \in Above(y) : x < z
      BY <2>0, <3>1, <1>5
    <3>3. Above(y) \subseteq Above(x)
      BY <3>2
    <3>4. y \in Above(x)
      BY <1>5
    <3>5. y \notin Above(y)
      BY <2>0
    <3> QED BY <3>3, <3>4, <3>5, <1>4
  <2>3. <<Above(y), U>> \in R
    BY <2>1, <2>2 DEF StrictSubsetOrdering
  <2> QED BY <1>3, <2>1, <2>3
<1>6. \A y \in S : y \in Nat /\ ~ (x < y)
  BY <1>5
<1> QED BY <1>6

LEMMA IdsFinite ==
  ASSUME NEW S \in SUBSET 0 .. MaxRows
  PROVE  S \subseteq Nat /\ IsFiniteSet(S)
<1>1. MaxRows \in Nat
  BY BoundsAssumption
<1>2. IsFiniteSet(0 .. MaxRows)
  BY <1>1, FS_Interval
<1>3. IsFiniteSet(S)
  BY <1>2, FS_Subset
<1> QED BY <1>1, <1>3

LEMMA MaxOfIds ==
  ASSUME NEW S \in SUBSET 0 .. MaxRows, S # {}
  PROVE  Max(S) \in S /\ \A y \in S : y <= Max(S)
<1>1. \E x \in S : \A y \in S : x >= y
  BY IdsFinite, MaxExists
<1> QED BY <1>1 DEF Max

LEMMA RowType ==
  ASSUME NEW r \in Rows
  PROVE  r.table \in Tables /\ r.id \in 1 .. MaxRows /\ r.id \in Nat /\ r.receiver \in BOOLEAN
BY BoundsAssumption DEF Rows

(* A new row has an id above those of its table. *)
LEMMA NextIdIsNew ==
  ASSUME rows \subseteq Rows, NEW t \in Tables
  PROVE  /\ NextId(t) \in Nat \ {0}
         /\ \A r \in rows : r.table = t => r.id < NextId(t)
<1> DEFINE S == {r.id : r \in {s \in rows : s.table = t}} \cup {0}
<1>1. S \in SUBSET 0 .. MaxRows /\ S # {}
  BY RowType, BoundsAssumption
<1>2. Max(S) \in 0 .. MaxRows /\ \A y \in S : y <= Max(S)
  <2> HIDE DEF S
  <2> QED BY <1>1, MaxOfIds
<1>3. NextId(t) = Max(S) + 1
  BY DEF NextId
<1>4. ASSUME NEW r \in rows, r.table = t PROVE r.id \in S /\ r.id \in Nat
  BY <1>4, RowType
<1> HIDE DEF S
<1>5. Max(S) \in Nat
  BY <1>2, BoundsAssumption
<1> QED BY <1>2, <1>3, <1>4, <1>5

LEMMA NewRowType ==
  ASSUME rows \subseteq Rows, NEW t \in Tables, NEW recv \in BOOLEAN, NextId(t) <= MaxRows
  PROVE  /\ NewRow(t, recv) \in Rows
         /\ NewRow(t, recv).table = t
         /\ NewRow(t, recv).receiver = recv
         /\ \A r \in rows : r.table = t => r.id < NewRow(t, recv).id
BY NextIdIsNew, BoundsAssumption DEF NewRow, Rows

LEMMA HighestIsHighest ==
  ASSUME NEW data \in SUBSET Rows, data # {}
  PROVE  Highest(data) \in data /\ \A s \in data : s.id <= Highest(data).id
<1> DEFINE S == {r.id : r \in data}
<1>1. S \in SUBSET 0 .. MaxRows /\ S # {}
  BY RowType, BoundsAssumption
<1>2. \E x \in S : \A y \in S : y <= x
  BY <1>1, MaxOfIds
<1>3. \E r \in data : \A s \in data : s.id <= r.id
  BY <1>2
<1> QED BY <1>3 DEF Highest

LEMMA HighestType ==
  ASSUME NEW data \in SUBSET Rows
  PROVE  /\ data = {} => Highest(data) = Blank
         /\ data # {} => Highest(data) \in data /\ Highest(data) \in Rows
         /\ Highest(data) \in data \cup {Blank}
         /\ Highest(data) # Create
<1>1. CASE data = {}
  BY <1>1, NotARow DEF Highest
<1>2. CASE data # {}
  BY <1>2, HighestIsHighest, NotARow
<1> QED BY <1>1, <1>2

LEMMA AllNamesFinite == IsFiniteSet(AllNames)
<1>1. IsFiniteSet({"scenario"} \cup {"receiver_scenario"})
  BY FS_Singleton, FS_Union
<1>2. IsFiniteSet(({"scenario"} \cup {"receiver_scenario"}) \cup {"profile"})
  BY <1>1, FS_Singleton, FS_Union
<1>3. IsFiniteSet((({"scenario"} \cup {"receiver_scenario"}) \cup {"profile"}) \cup {"target"})
  BY <1>2, FS_Singleton, FS_Union
<1>4. AllNames = (({"scenario"} \cup {"receiver_scenario"}) \cup {"profile"}) \cup {"target"}
  BY DEF AllNames
<1> QED BY <1>3, <1>4

(* There are finitely many rows. *)
LEMMA RowsFinite == IsFiniteSet(Rows)
<1>1. IsFiniteSet(AllNames)
  BY AllNamesFinite
<1>2. IsFiniteSet(Tables)
  <2>1. Tables \subseteq AllNames
    BY FormNameType DEF Tables
  <2> QED BY <1>1, <2>1, FS_Subset
<1>3. IsFiniteSet(1 .. MaxRows)
  BY FS_Interval, BoundsAssumption
<1>4. IsFiniteSet(BOOLEAN)
  <2>1. IsFiniteSet({TRUE} \cup {FALSE})
    BY FS_Singleton, FS_Union
  <2>2. BOOLEAN = {TRUE} \cup {FALSE}
    OBVIOUS
  <2> QED BY <2>1, <2>2
<1> DEFINE P == (Tables \X (1 .. MaxRows)) \X BOOLEAN
           f == [p \in P |-> [table |-> p[1][1], id |-> p[1][2], receiver |-> p[2]]]
<1>5. IsFiniteSet(P)
  BY <1>2, <1>3, <1>4, FS_Product
<1>6. f \in Surjection(P, Rows)
  <2>1. f \in [P -> Rows]
    BY DEF Rows
  <2>2. ASSUME NEW r \in Rows PROVE \E p \in P : f[p] = r
    <3>1. <<<<r.table, r.id>>, r.receiver>> \in P
      BY DEF Rows
    <3>2. f[<<<<r.table, r.id>>, r.receiver>>] = r
      BY <3>1 DEF Rows
    <3> QED BY <3>1, <3>2
  <2> QED BY <2>1, <2>2 DEF Surjection
<1> QED BY <1>5, <1>6, FS_Surjection

(* A page that is too short stays too short. *)
LEMMA OverflowStays ==
  ASSUME NEW old \in SUBSET Rows, NEW new \in SUBSET Rows, old \subseteq new, NEW t,
         Cardinality({r \in old : r.table = t}) > PerPage
  PROVE  Cardinality({r \in new : r.table = t}) > PerPage
<1> DEFINE a == {r \in old : r.table = t}
           b == {r \in new : r.table = t}
<1>1. a \subseteq b /\ b \subseteq Rows
  OBVIOUS
<1>2. IsFiniteSet(b)
  BY <1>1, RowsFinite, FS_Subset
<1>3. IsFiniteSet(a) /\ Cardinality(a) <= Cardinality(b)
  BY <1>1, <1>2, FS_Subset
<1>4. Cardinality(a) \in Nat /\ Cardinality(b) \in Nat
  BY <1>2, <1>3, FS_CardinalityType
<1>5. PerPage \in Nat
  BY PerPageAssumption
<1> HIDE DEF a, b
<1>6. Cardinality(a) > PerPage => Cardinality(b) > PerPage
  BY <1>3, <1>4, <1>5
<1> QED BY <1>6 DEF a, b

(* A page holds every row, or there are too many. *)
LEMMA PageHolds ==
  ASSUME NEW all \in SUBSET Rows, NEW page \in SUBSET all,
         Cardinality(page) = Min({PerPage, Cardinality(all)})
  PROVE  page = all \/ Cardinality(all) > PerPage
<1>1. IsFiniteSet(all)
  BY RowsFinite, FS_Subset
<1>2. Cardinality(all) \in Nat /\ PerPage \in Nat
  BY <1>1, FS_CardinalityType, PerPageAssumption
<1>3. CASE Cardinality(all) <= PerPage
  <2>1. Min({PerPage, Cardinality(all)}) = Cardinality(all)
    <3> DEFINE S == {PerPage, Cardinality(all)}
    <3>1. Cardinality(all) \in S /\ \A y \in S : Cardinality(all) <= y
      BY <1>2, <1>3
    <3>2. ASSUME NEW x \in S, \A y \in S : x <= y PROVE x = Cardinality(all)
      BY <1>2, <1>3, <3>2
    <3> HIDE DEF S
    <3>3. Min(S) = Cardinality(all)
      BY <3>1, <3>2 DEF Min
    <3> QED BY <3>3 DEF S
  <2> QED BY <1>1, <2>1, FS_Subset
<1> QED BY <1>2, <1>3

(* The requests under way after one was sent, replaced or answered. *)

Others(i) == {xhr[j] : j \in DOMAIN xhr \ {i}}

LEMMA SentMore ==
  ASSUME xhr \in Seq(Requests), NEW r \in Requests,
         xhr' = Append(xhr, r) \/ xhr' = xhr \o <<r>>
  PROVE  /\ xhr' \in Seq(Requests)
         /\ Sent' = Sent \cup {r}
         /\ Len(xhr') = Len(xhr) + 1
         /\ \A k \in DOMAIN xhr : xhr'[k] = xhr[k]
         /\ xhr'[Len(xhr) + 1] = r
<1>1. xhr' = Append(xhr, r)
  BY AppendIsConcat
<1>2. /\ xhr' \in Seq(Requests)
      /\ Len(xhr') = Len(xhr) + 1
      /\ \A k \in 1 .. Len(xhr) : xhr'[k] = xhr[k]
      /\ xhr'[Len(xhr) + 1] = r
  BY <1>1, AppendProperties
<1>3. DOMAIN xhr = 1 .. Len(xhr) /\ DOMAIN xhr' = 1 .. Len(xhr) + 1 /\ Len(xhr) \in Nat
  BY <1>2, LenProperties
<1>4. DOMAIN xhr' = DOMAIN xhr \cup {Len(xhr) + 1}
  BY <1>3
<1>5. Sent' = Sent \cup {r}
  BY <1>2, <1>3, <1>4 DEF Sent
<1> QED BY <1>2, <1>3, <1>5

LEMMA SentInstead ==
  ASSUME xhr \in Seq(Requests), NEW i \in DOMAIN xhr, NEW r \in Requests,
         xhr' = [xhr EXCEPT ![i] = r]
  PROVE  xhr' \in Seq(Requests) /\ Sent' = Others(i) \cup {r}
<1>1. /\ xhr' \in Seq(Requests)
      /\ DOMAIN xhr' = DOMAIN xhr
      /\ xhr'[i] = r
      /\ \A j \in DOMAIN xhr : j # i => xhr'[j] = xhr[j]
  BY Replaced
<1> QED BY <1>1 DEF Sent, Others

LEMMA SentLess ==
  ASSUME xhr \in Seq(Requests), NEW i \in DOMAIN xhr, NEW more \in Seq(Requests),
         xhr' = RemoveAt(xhr, i) \o more
  PROVE  xhr' \in Seq(Requests) /\ Sent' = Others(i) \cup {more[k] : k \in DOMAIN more}
<1>1. /\ xhr' \in Seq(Requests)
      /\ Len(xhr') = Len(xhr) - 1 + Len(more)
      /\ \A k \in 1 .. Len(xhr) - 1 : xhr'[k] = xhr[Before(k, i)]
      /\ \A k \in 1 .. Len(more) : xhr'[Len(xhr) - 1 + k] = more[k]
  BY Removed
<1>2. /\ DOMAIN xhr = 1 .. Len(xhr) /\ DOMAIN xhr' = 1 .. Len(xhr')
      /\ DOMAIN more = 1 .. Len(more) /\ Len(xhr) \in Nat /\ Len(more) \in Nat
  BY <1>1, LenProperties
<1>3. ASSUME NEW k \in DOMAIN xhr' PROVE xhr'[k] \in Others(i) \cup {more[j] : j \in DOMAIN more}
  <2>1. CASE k \in 1 .. Len(xhr) - 1
    <3>1. Before(k, i) \in DOMAIN xhr \ {i}
      BY <1>2, <2>1 DEF Before
    <3> QED BY <1>1, <2>1, <3>1 DEF Others
  <2>2. CASE k \notin 1 .. Len(xhr) - 1
    <3>1. PICK j \in 1 .. Len(more) : Len(xhr) - 1 + j = k
      <4>1. k - (Len(xhr) - 1) \in 1 .. Len(more) /\ Len(xhr) - 1 + (k - (Len(xhr) - 1)) = k
        BY <1>1, <1>2, <2>2
      <4> QED BY <4>1
    <3>2. xhr'[k] = more[j] /\ j \in DOMAIN more
      BY <1>1, <1>2, <3>1
    <3> QED BY <3>2
  <2> QED BY <2>1, <2>2
<1>4. ASSUME NEW j \in DOMAIN xhr \ {i} PROVE xhr[j] \in Sent'
  <2>1. CASE j < i
    <3>1. j \in 1 .. Len(xhr) - 1 /\ Before(j, i) = j /\ j \in DOMAIN xhr'
      BY <1>1, <1>2, <2>1 DEF Before
    <3> QED BY <1>1, <3>1 DEF Sent
  <2>2. CASE ~ (j < i)
    <3>1. j - 1 \in 1 .. Len(xhr) - 1 /\ Before(j - 1, i) = j /\ j - 1 \in DOMAIN xhr'
      BY <1>1, <1>2, <2>2 DEF Before
    <3> QED BY <1>1, <3>1 DEF Sent
  <2> QED BY <2>1, <2>2
<1>5. ASSUME NEW j \in DOMAIN more PROVE more[j] \in Sent'
  <2>1. Len(xhr) - 1 + j \in DOMAIN xhr'
    BY <1>1, <1>2
  <2> QED BY <1>1, <1>2, <2>1 DEF Sent
<1>6. Sent' \subseteq Others(i) \cup {more[k] : k \in DOMAIN more}
  BY <1>3 DEF Sent
<1>7. Others(i) \subseteq Sent'
  BY <1>4 DEF Others
<1>8. {more[k] : k \in DOMAIN more} \subseteq Sent'
  BY <1>5
<1> QED BY <1>1, <1>6, <1>7, <1>8

LEMMA SentOneLess ==
  ASSUME xhr \in Seq(Requests), NEW i \in DOMAIN xhr, xhr' = RemoveAt(xhr, i)
  PROVE  xhr' = RemoveAt(xhr, i) \o <<>> /\ xhr' \in Seq(Requests) /\ Sent' = Others(i)
<1>1. RemoveAt(xhr, i) \in Seq(Requests)
  <2>1. <<>> \in Seq(Requests)
    OBVIOUS
  <2>2. i \in 1 .. Len(xhr) /\ Len(xhr) \in Nat
    BY LenProperties
  <2>3. \A k \in 1 .. Len(xhr) : xhr[k] \in Requests
    BY ElementOfSeq
  <2>4. SubSeq(xhr, 1, i - 1) \in Seq(Requests) /\ SubSeq(xhr, i + 1, Len(xhr)) \in Seq(Requests)
    BY <2>2, <2>3, SubSeqProperties
  <2> QED BY <2>4, ConcatProperties DEF RemoveAt
<1>2. xhr' = RemoveAt(xhr, i) \o <<>>
  BY <1>1, ConcatEmptySeq
<1>3. <<>> \in Seq(Requests) /\ {<<>>[k] : k \in DOMAIN <<>>} = {}
  BY EmptySeq
<1>4. xhr' \in Seq(Requests) /\ Sent' = Others(i) \cup {<<>>[k] : k \in DOMAIN <<>>}
  BY <1>2, <1>3, SentLess
<1> QED BY <1>2, <1>3, <1>4

(* What is known of a request, and what the steps do to the requests.      *)

LEMMA IsRequest ==
  ASSUME TypeOK, NEW i \in DOMAIN xhr
  PROVE  xhr[i] \in Requests /\ xhr[i] \in Sent
BY LenProperties, ElementOfSeq DEF TypeOK, Sent

LEMMA PostFacts ==
  ASSUME TypeOK, Answers, NEW i \in Posts
  PROVE  /\ i \in DOMAIN xhr /\ xhr[i] \in PostRequests /\ xhr[i].kind = "post"
         /\ xhr[i].table \in Tables /\ xhr[i].receiver \in BOOLEAN
         /\ caller \in Names
         /\ xhr[i].status = 201 => xhr[i].row \in rows /\ xhr[i].row \in Rows
<1>1. i \in DOMAIN xhr /\ xhr[i].kind = "post"
  BY DEF Posts
<1>2. xhr[i] \in PostRequests /\ Answerable(xhr[i])
  BY <1>1, IsRequest, RequestTypes DEF Answers
<1>3. xhr[i].table \in Tables /\ xhr[i].receiver \in BOOLEAN
  BY <1>2 DEF PostRequests
<1> QED BY <1>1, <1>2, <1>3 DEF Answerable, TypeOK

LEMMA ListFacts ==
  ASSUME TypeOK, Answers, NEW i \in Lists
  PROVE  /\ i \in DOMAIN xhr /\ xhr[i] \in ListRequests /\ xhr[i].kind = "list"
         /\ xhr[i].table \in Tables /\ xhr[i].type \in Names
         /\ caller \in Names
         /\ xhr[i].data \subseteq rows /\ xhr[i].data \subseteq Rows
<1>1. i \in DOMAIN xhr /\ xhr[i].kind = "list"
  BY DEF Lists
<1>2. xhr[i] \in ListRequests /\ Answerable(xhr[i])
  BY <1>1, IsRequest, RequestTypes DEF Answers
<1>3. xhr[i].table \in Tables /\ xhr[i].type \in Names
  BY <1>2 DEF ListRequests
<1> QED BY <1>1, <1>2, <1>3 DEF Answerable, TypeOK

LEMMA ShowFacts ==
  ASSUME TypeOK, Answers, NEW i \in DOMAIN xhr, xhr[i].kind = "show"
  PROVE  /\ xhr[i] \in ShowRequests
         /\ xhr[i].name \in Names
<1>1. xhr[i] \in ShowRequests
  BY IsRequest, RequestTypes
<1>2. xhr[i].name \in Names
  BY <1>1 DEF ShowRequests
<1> QED BY <1>1, <1>2

LEMMA ShowOfType ==
  ASSUME NEW n \in Names, NEW r \in Rows
  PROVE  /\ ShowOf(n, r.id) \in ShowRequests /\ ShowOf(n, r.id) \in Requests
         /\ ShowOf(n, r.id).kind = "show" /\ ShowOf(n, r.id).name = n /\ ShowOf(n, r.id).id = r.id
BY DEF ShowOf, ShowRequests, Requests, Rows

(* A row that is selected is asked for. *)
LEMMA SelectSent ==
  ASSUME TypeOK, NEW n \in Names, NEW v \in options[n] \cup {Create}, Select(n, v)
  PROVE  /\ v \in rows \cup NonRows
         /\ v \in NonRows => xhr' = xhr /\ Sent' = Sent
         /\ v \notin NonRows => /\ v \in rows /\ v \in Rows
                                /\ xhr' = xhr \o <<ShowOf(n, v.id)>>
                                /\ Sent' = Sent \cup {ShowOf(n, v.id)}
         /\ xhr' \in Seq(Requests)
<1>1. v \in rows \cup NonRows
  BY DEF TypeOK, NonRows
<1>2. CASE v \in NonRows
  BY <1>1, <1>2 DEF Select, TypeOK, Sent
<1>3. CASE v \notin NonRows
  <2>1. v \in rows /\ v \in Rows /\ v # Blank
    BY <1>1, <1>3 DEF TypeOK, NonRows
  <2>2. xhr' = xhr \o <<ShowOf(n, v.id)>>
    BY <1>3, <2>1 DEF Select, Shows, ShowOf
  <2>3. Sent' = Sent \cup {ShowOf(n, v.id)} /\ xhr' \in Seq(Requests)
    BY <2>1, <2>2, ShowOfType, SentMore DEF TypeOK
  <2> QED BY <1>3, <2>1, <2>2, <2>3
<1> QED BY <1>1, <1>2, <1>3

NewPost == [kind |-> "post", table |-> modal, status |-> 0, row |-> Blank,
            receiver |-> (modal = "scenario" /\ receiver)]

LEMMA SubmitSent ==
  ASSUME TypeOK, Submit
  PROVE  /\ NewPost \in PostRequests
         /\ xhr' = Append(xhr, NewPost)
         /\ xhr' \in Seq(Requests)
         /\ Sent' = Sent \cup {NewPost}
<1>1. modal \in Tables
  BY DEF Submit, TypeOK
<1>2. (modal = "scenario" /\ receiver) \in BOOLEAN
  OBVIOUS
<1>3. NewPost \in PostRequests
  BY <1>1, <1>2 DEF NewPost, PostRequests
<1>4. xhr' = Append(xhr, NewPost)
  BY DEF Submit, NewPost
<1>5. NewPost \in Requests
  BY <1>3 DEF Requests
<1> QED BY <1>3, <1>4, <1>5, SentMore DEF TypeOK

LEMMA PostMade ==
  ASSUME NEW r \in PostRequests, NEW row \in Rows
  PROVE  [r EXCEPT !.status = 201, !.row = row] \in PostRequests
<1>1. ASSUME NEW q \in PostRequests PROVE [q EXCEPT !.status = 201] \in PostRequests
  BY DEF PostRequests
<1>2. ASSUME NEW q \in PostRequests PROVE [q EXCEPT !.row = row] \in PostRequests
  BY DEF PostRequests
<1>3. [r EXCEPT !.status = 201, !.row = row] = [[r EXCEPT !.status = 201] EXCEPT !.row = row]
  OBVIOUS
<1> QED BY <1>1, <1>2, <1>3

(* The answer of the server to a post: the row is new, or nothing is.      *)
LEMMA ServePostSent ==
  ASSUME TypeOK, Answers, NEW i, ServePost(i)
  PROVE  \E r \in PostRequests :
           /\ r.table = xhr[i].table /\ r.receiver = xhr[i].receiver
           /\ xhr' = [xhr EXCEPT ![i] = r]
           /\ xhr' \in Seq(Requests) /\ Sent' = Others(i) \cup {r}
           /\ \/ /\ NextId(r.table) <= MaxRows
                 /\ r.status = 201 /\ r.row = NewRow(r.table, r.receiver)
                 /\ rows' = rows \cup {r.row}
              \/ r.status = 422 /\ rows' = rows
<1>1. i \in DOMAIN xhr /\ xhr[i] \in PostRequests /\ xhr[i].table \in Tables /\ xhr[i].receiver \in BOOLEAN
  BY PostFacts DEF ServePost
<1> DEFINE t == xhr[i].table
           row == NewRow(t, xhr[i].receiver)
           made201 == [xhr[i] EXCEPT !.status = 201, !.row = row]
           made422 == [xhr[i] EXCEPT !.status = 422]
<1>2. CASE NextId(t) <= MaxRows /\ rows' = rows \cup {row} /\ xhr' = [xhr EXCEPT ![i].status = 201, ![i].row = row]
  <2>1. row \in Rows
    BY <1>1, <1>2, NewRowType DEF TypeOK
  <2> HIDE DEF row
  <2>2. /\ made201 \in PostRequests
        /\ made201.table = xhr[i].table /\ made201.receiver = xhr[i].receiver
        /\ made201.status = 201 /\ made201.row = row
    <3>1. made201 \in PostRequests
      BY <1>1, <2>1, PostMade, Zenon
    <3>2. /\ made201.table = xhr[i].table /\ made201.receiver = xhr[i].receiver
          /\ made201.status = 201 /\ made201.row = row
      BY <1>1 DEF PostRequests
    <3> QED BY <3>1, <3>2
  <2>3. xhr' = [xhr EXCEPT ![i] = made201]
    BY <1>1, <1>2
  <2> HIDE DEF made201
  <2>4. xhr' \in Seq(Requests) /\ Sent' = Others(i) \cup {made201}
    BY <1>1, <2>2, <2>3, KindOfRequest, SentInstead DEF TypeOK
  <2>5. /\ NextId(made201.table) <= MaxRows
        /\ made201.row = NewRow(made201.table, made201.receiver)
        /\ rows' = rows \cup {made201.row}
    BY <1>2, <2>2 DEF row
  <2> QED BY <2>2, <2>3, <2>4, <2>5
<1>3. CASE rows' = rows /\ xhr' = [xhr EXCEPT ![i].status = 422]
  <2>2. /\ made422 \in PostRequests
        /\ made422.table = xhr[i].table /\ made422.receiver = xhr[i].receiver
        /\ made422.status = 422
    BY <1>1, SMTT(40) DEF PostRequests
  <2>3. xhr' = [xhr EXCEPT ![i] = made422]
    BY <1>1, <1>3
  <2> HIDE DEF made422
  <2>4. xhr' \in Seq(Requests) /\ Sent' = Others(i) \cup {made422}
    BY <1>1, <2>2, <2>3, KindOfRequest, SentInstead DEF TypeOK
  <2> QED BY <1>3, <2>2, <2>3, <2>4
<1>4. row.id = NextId(t)
  BY DEF NewRow
<1> QED BY <1>2, <1>3, <1>4 DEF ServePost

(* ... and to a list: rows of the table. *)
LEMMA ListedAreRows ==
  ASSUME NEW t, NEW type, NEW data \in Listed(t, type)
  PROVE  data \subseteq rows
BY DEF Listed, Kind

LEMMA ServeListSent ==
  ASSUME TypeOK, Answers, NEW i, ServeList(i)
  PROVE  \E r \in ListRequests :
           /\ r.table = xhr[i].table /\ r.type = xhr[i].type
           /\ r.served /\ r.data \in Listed(r.table, r.type) /\ r.data \subseteq rows
           /\ xhr' = [xhr EXCEPT ![i] = r]
           /\ xhr' \in Seq(Requests) /\ Sent' = Others(i) \cup {r}
<1>1. i \in DOMAIN xhr /\ xhr[i] \in ListRequests
  BY ListFacts DEF ServeList
<1>2. PICK data \in Listed(xhr[i].table, xhr[i].type) :
        xhr' = [xhr EXCEPT ![i].served = TRUE, ![i].data = data]
  BY DEF ServeList
<1>3. data \subseteq rows /\ data \subseteq Rows
  BY ListedAreRows DEF TypeOK
<1> DEFINE r == [xhr[i] EXCEPT !.served = TRUE, !.data = data]
<1>4. /\ r \in ListRequests
      /\ r.table = xhr[i].table /\ r.type = xhr[i].type
      /\ r.served = TRUE /\ r.data = data
  BY <1>1, <1>3 DEF ListRequests
<1>5. xhr' = [xhr EXCEPT ![i] = r]
  BY <1>1, <1>2
<1> HIDE DEF r
<1>6. xhr' \in Seq(Requests) /\ Sent' = Others(i) \cup {r}
  BY <1>1, <1>4, <1>5, KindOfRequest, SentInstead DEF TypeOK
<1> QED BY <1>3, <1>4, <1>5, <1>6

(* A post that made a row is followed by lists, one for each select of the *)
(* modal.                                                                  *)
SelectsOf(t) == {n \in Names : FormName(n) = t}

ListsFor(t) == [k \in 1 .. Cardinality(SelectsOf(t)) |-> ListFor(t)]

LEMMA ListsForType ==
  ASSUME NEW t \in Tables, caller \in Names
  PROVE  /\ ListsFor(t) \in Seq(Requests)
         /\ DOMAIN ListsFor(t) # {}
         /\ \A k \in DOMAIN ListsFor(t) : ListsFor(t)[k] = ListFor(t)
         /\ ListFor(t) \in ListRequests
<1>1. ListFor(t) \in ListRequests
  BY DEF ListFor, ListRequests
<1>2. IsFiniteSet(SelectsOf(t)) /\ SelectsOf(t) # {}
  <2>1. IsFiniteSet(AllNames)
    BY AllNamesFinite
  <2>2. SelectsOf(t) \subseteq AllNames
    BY NamesAssumption DEF SelectsOf
  <2>3. SelectsOf(t) # {}
    BY DEF SelectsOf, Tables
  <2> QED BY <2>1, <2>2, <2>3, FS_Subset
<1>3. Cardinality(SelectsOf(t)) \in Nat \ {0}
  BY <1>2, FS_CardinalityType, FS_EmptySet
<1>4. ListFor(t) \in Requests
  BY <1>1 DEF Requests
<1> DEFINE n == Cardinality(SelectsOf(t))
           e == ListFor(t)
<1>5. [k \in 1 .. n |-> e] \in Seq(Requests)
  <2> HIDE DEF n, e
  <2>1. n \in Nat /\ e \in Requests
    BY <1>3, <1>4 DEF n, e
  <2> QED BY <2>1
<1>6. 1 \in 1 .. n
  BY <1>3
<1> QED BY <1>1, <1>5, <1>6 DEF ListsFor

LEMMA CreatedSent ==
  ASSUME TypeOK, Answers, NEW i, Created(i)
  PROVE  /\ i \in Posts /\ xhr[i].status = 201
         /\ ListFor(xhr[i].table) \in ListRequests
         /\ xhr' = RemoveAt(xhr, i) \o ListsFor(xhr[i].table)
         /\ xhr' \in Seq(Requests)
         /\ Sent' = Others(i) \cup {ListFor(xhr[i].table)}
<1>1. i \in Posts /\ xhr[i].status = 201
  BY DEF Created
<1>2. i \in DOMAIN xhr /\ xhr[i].table \in Tables /\ caller \in Names
  BY <1>1, PostFacts
<1> DEFINE t == xhr[i].table
<1>3. xhr' = RemoveAt(xhr, i) \o ListsFor(t)
  BY DEF Created, ListsFor, SelectsOf
<1> HIDE DEF t
<1>4. t \in Tables
  BY <1>2 DEF t
<1>5. /\ ListsFor(t) \in Seq(Requests)
      /\ DOMAIN ListsFor(t) # {}
      /\ \A k \in DOMAIN ListsFor(t) : ListsFor(t)[k] = ListFor(t)
      /\ ListFor(t) \in ListRequests
  BY <1>2, <1>4, ListsForType
<1>6. {ListsFor(t)[k] : k \in DOMAIN ListsFor(t)} = {ListFor(t)}
  BY <1>5
<1>7. xhr' \in Seq(Requests) /\ Sent' = Others(i) \cup {ListsFor(t)[k] : k \in DOMAIN ListsFor(t)}
  BY <1>2, <1>3, <1>5, SentLess DEF TypeOK
<1> QED BY <1>1, <1>3, <1>5, <1>6, <1>7 DEF t

(* A list is followed by the details of the row it selects. *)
LEMMA ReloadedSent ==
  ASSUME TypeOK, Answers, NEW i, Reloaded(i)
  PROVE  LET v == Highest(xhr[i].data) IN
         /\ i \in Lists
         /\ xhr' \in Seq(Requests)
         /\ xhr[i].data = {} => v = Blank /\ xhr' = RemoveAt(xhr, i) \o <<>> /\ Sent' = Others(i)
         /\ xhr[i].data # {} => /\ v \in xhr[i].data /\ v \in rows /\ v \in Rows
                                /\ xhr' = RemoveAt(xhr, i) \o <<ShowOf(caller, v.id)>>
                                /\ Sent' = Others(i) \cup {ShowOf(caller, v.id)}
<1> DEFINE v == Highest(xhr[i].data)
<1>1. i \in Lists /\ i \in DOMAIN xhr /\ caller \in Names /\ xhr[i].data \subseteq rows /\ xhr[i].data \subseteq Rows
  BY ListFacts DEF Reloaded
<1>2. xhr' = RemoveAt(xhr, i) \o Shows(caller, v)
  BY DEF Reloaded
<1>3. /\ xhr[i].data = {} => v = Blank
      /\ xhr[i].data # {} => v \in xhr[i].data /\ v \in Rows
  BY <1>1, HighestType
<1> HIDE DEF v
<1>4. CASE v = Blank
  <2>1. xhr' = RemoveAt(xhr, i) \o <<>>
    BY <1>2, <1>4 DEF Shows
  <2>2. <<>> \in Seq(Requests) /\ {<<>>[k] : k \in DOMAIN <<>>} = {}
    BY EmptySeq
  <2>3. xhr' \in Seq(Requests) /\ Sent' = Others(i) \cup {<<>>[k] : k \in DOMAIN <<>>}
    BY <1>1, <2>1, <2>2, SentLess DEF TypeOK
  <2> QED BY <1>1, <1>3, <1>4, <2>1, <2>2, <2>3, NotARow DEF v
<1>5. CASE v # Blank
  <2>1. v \in xhr[i].data /\ v \in Rows /\ v \in rows
    BY <1>1, <1>3, <1>5
  <2>2. xhr' = RemoveAt(xhr, i) \o <<ShowOf(caller, v.id)>>
    BY <1>2, <1>5 DEF Shows, ShowOf
  <2>3. ShowOf(caller, v.id) \in Requests
    BY <1>1, <2>1, ShowOfType
  <2> DEFINE more == <<ShowOf(caller, v.id)>>
  <2>4. more \in Seq(Requests) /\ {more[k] : k \in DOMAIN more} = {ShowOf(caller, v.id)}
    BY <2>3
  <2> HIDE DEF more
  <2>5. xhr' \in Seq(Requests) /\ Sent' = Others(i) \cup {more[k] : k \in DOMAIN more}
    BY <1>1, <2>2, <2>4, SentLess DEF TypeOK, more
  <2> QED BY <1>1, <1>3, <2>1, <2>2, <2>4, <2>5 DEF v
<1> QED BY <1>4, <1>5
-----------------------------------------------------------------------------
(* The basics: every step keeps types, answers, keys and modals. *)

LEMMA AnswerableStays ==
  ASSUME NEW r, Answerable(r), rows \subseteq rows', caller' = caller \/ caller' \in Names
  PROVE  Answerable(r)'
BY DEF Answerable

(* A step that leaves the form, the rows or the requests alone. *)
LEMMA AnswersStay ==
  ASSUME Answers, rows \subseteq rows', caller' = caller \/ caller' \in Names,
         \A r \in Sent' : r \in Sent \/ Answerable(r)'
  PROVE  Answers'
BY AnswerableStays DEF Answers

LEMMA OthersWereSent ==
  ASSUME NEW i
  PROVE  Others(i) \subseteq Sent
BY DEF Others, Sent

LEMMA ShowOfAnswerable ==
  ASSUME NEW n \in Names, NEW r \in Rows
  PROVE  Answerable(ShowOf(n, r.id))'
<1>1. ShowOf(n, r.id).kind = "show"
  BY ShowOfType
<1> QED BY <1>1 DEF Answerable

LEMMA SelectBasics ==
  ASSUME Basics, NEW n \in Names, NEW v \in options[n] \cup {Create}, Select(n, v)
  PROVE  Basics'
<1>1. TypeOK /\ Answers /\ Keys /\ Modal /\ CreatesInModal
  BY DEF Basics
<1>2. /\ v \in rows \cup NonRows
      /\ v \in NonRows => Sent' = Sent
      /\ v \notin NonRows => v \in rows /\ v \in Rows /\ Sent' = Sent \cup {ShowOf(n, v.id)}
      /\ xhr' \in Seq(Requests)
  BY <1>1, SelectSent
<1>3. /\ modal = None /\ value' = [value EXCEPT ![n] = v] /\ caller' = n
      /\ made' = NoneMade \/ made' = made
      /\ rows' = rows /\ options' = options /\ fading' = fading /\ errors' = errors
      /\ display' = display \/ display' = [display EXCEPT ![n] = Blank]
  BY DEF Select
<1>4. /\ v = Create => /\ modal' = FormName(n)
                       /\ FormName(n) = "scenario" => (receiver' <=> n = "receiver_scenario")
      /\ v # Create => modal' = None
      /\ receiver' \in BOOLEAN
  BY <1>1, <1>3 DEF Select, TypeOK
<1>5. TypeOK'
  <2>1. value' \in [Names -> rows \cup NonRows] /\ \A m \in Names : value'[m] \in options[m] \cup NonRows
    BY <1>1, <1>2, <1>3 DEF TypeOK, NonRows
  <2>2. display' \in [Names -> rows \cup {Blank}]
    BY <1>1, <1>3 DEF TypeOK
  <2>3. modal' \in Tables \cup {None}
    BY <1>4, FormNameType
  <2>4. upset' \subseteq Upsets
    BY <1>1 DEF Select, TypeOK, Upset, Upsets
  <2> QED BY <1>1, <1>2, <1>3, <1>4, <2>1, <2>2, <2>3, <2>4 DEF TypeOK
<1>6. Answers'
  <2>1. CASE v \in NonRows
    BY <1>1, <1>2, <1>3, <2>1, AnswersStay
  <2>2. CASE v \notin NonRows
    BY <1>1, <1>2, <1>3, <2>2, AnswersStay, ShowOfAnswerable
  <2> QED BY <2>1, <2>2
<1>7. Keys'
  BY <1>1, <1>3 DEF Keys
<1>8. Modal'
  BY <1>3, <1>4, FormNameType DEF Modal, Directed
<1>9. CreatesInModal'
  <2>1. \A m \in Names : value[m] # Create
    BY <1>1, <1>3, FormNameType DEF CreatesInModal
  <2> QED BY <1>1, <1>3, <1>4, <2>1 DEF CreatesInModal, TypeOK
<1> QED BY <1>5, <1>6, <1>7, <1>8, <1>9 DEF Basics

LEMMA SubmitBasics ==
  ASSUME Basics, Submit
  PROVE  Basics'
<1>1. TypeOK /\ Answers /\ Keys /\ Modal /\ CreatesInModal
  BY DEF Basics
<1>2. /\ NewPost \in PostRequests /\ xhr' \in Seq(Requests) /\ Sent' = Sent \cup {NewPost}
  BY <1>1, SubmitSent
<1>3. UNCHANGED <<rows, options, value, display, caller, modal, fading, receiver, errors, made>>
  BY DEF Submit, formVars
<1>4. TypeOK'
  <2>1. upset' \subseteq Upsets
    BY <1>1 DEF Submit, TypeOK, Upset, Upsets
  <2> QED BY <1>1, <1>2, <1>3, <2>1 DEF TypeOK
<1>5. Answers'
  <2>1. caller \in Names
    <3>1. modal # None /\ modal \in AllNames
      BY <1>1, FormNameType DEF Submit, TypeOK, Tables
    <3>2. FormName(caller) = modal
      BY <1>1, <3>1 DEF Modal, Directed
    <3>3. caller # None
      BY <3>1, <3>2, NoneAssumption DEF FormName, AllNames
    <3> QED BY <1>1, <3>3 DEF TypeOK
  <2>2. NewPost.kind = "post" /\ NewPost.status = 0
    BY DEF NewPost
  <2>3. \A r \in {NewPost} : Answerable(r)'
    BY <1>3, <2>1, <2>2 DEF Answerable
  <2> QED BY <1>1, <1>2, <1>3, <2>3, AnswersStay
<1>6. Keys' /\ Modal' /\ CreatesInModal'
  BY <1>1, <1>3 DEF Keys, Modal, CreatesInModal
<1> QED BY <1>4, <1>5, <1>6 DEF Basics

LEMMA DismissBasics ==
  ASSUME Basics, Dismiss
  PROVE  Basics'
BY DEF Basics, Dismiss, TypeOK, Answers, Answerable, Sent, Keys, Modal, CreatesInModal

LEMMA HiddenBasics ==
  ASSUME Basics, Hidden
  PROVE  Basics'
<1>1. TypeOK /\ Answers /\ Keys /\ Modal /\ CreatesInModal
  BY DEF Basics
<1>2. /\ UNCHANGED <<rows, options, display, caller, receiver, xhr, made, upset>>
      /\ fading' = FALSE /\ modal' = None /\ errors' = {}
      /\ value' = [n \in Names |-> Reset(n)]
  BY DEF Hidden
<1>3. \A n \in Names : value'[n] = Reset(n) /\ Reset(n) \in rows \cup {Blank}
                       /\ Reset(n) \in options[n] \cup NonRows /\ Reset(n) # Create
  BY <1>1, <1>2, NotARow DEF Reset, TypeOK, NonRows
<1>4. TypeOK'
  BY <1>1, <1>2, <1>3 DEF TypeOK, NonRows
<1>5. Answers' /\ Keys'
  BY <1>1, <1>2 DEF Answers, Answerable, Sent, Keys
<1>6. Modal' /\ CreatesInModal'
  BY <1>2, <1>3 DEF Modal, CreatesInModal
<1> QED BY <1>4, <1>5, <1>6 DEF Basics

(* A new row leaves the form and the keys alone. *)
LEMMA RowsGrow ==
  ASSUME Basics, NEW t \in Tables, NEW recv \in BOOLEAN, NextId(t) <= MaxRows,
         rows' = rows \cup {NewRow(t, recv)}, UNCHANGED <<formVars, made>>,
         xhr' \in Seq(Requests), upset' \subseteq Upsets
  PROVE  TypeOK' /\ Keys'
<1>1. TypeOK /\ Keys
  BY DEF Basics
<1> DEFINE row == NewRow(t, recv)
<1>2. row \in Rows /\ row.table = t /\ \A r \in rows : r.table = t => r.id < row.id
  BY <1>1, NewRowType DEF TypeOK
<1>3. row.id \in Nat /\ \A r \in rows : r.id \in Nat
  BY <1>1, <1>2, RowType DEF TypeOK
<1> HIDE DEF row
<1>4. rows' = rows \cup {row}
  BY DEF row
<1>5. Keys'
  BY <1>1, <1>2, <1>3, <1>4 DEF Keys
<1>6. TypeOK'
  <2>1. rows \subseteq rows' /\ rows' \subseteq Rows
    BY <1>1, <1>2, <1>4 DEF TypeOK
  <2>2. /\ options' = options /\ value' = value /\ display' = display /\ made' = made
        /\ caller' = caller /\ modal' = modal /\ fading' = fading /\ receiver' = receiver
        /\ errors' = errors
    BY DEF formVars
  <2>3. /\ options' \in [Names -> SUBSET (rows' \cup {Blank})]
        /\ value' \in [Names -> rows' \cup NonRows]
        /\ \A n \in Names : value'[n] \in options'[n] \cup NonRows
        /\ display' \in [Names -> rows' \cup {Blank}]
    BY <1>1, <2>1, <2>2 DEF TypeOK
  <2>4. made' = NoneMade \/ made' \in [name : Names, row : rows']
    BY <1>1, <2>1, <2>2 DEF TypeOK
  <2> QED BY <1>1, <2>1, <2>2, <2>3, <2>4 DEF TypeOK
<1> QED BY <1>5, <1>6

LEMMA ServePostBasics ==
  ASSUME Basics, NEW i, ServePost(i)
  PROVE  Basics'
<1>1. TypeOK /\ Answers /\ Keys /\ Modal /\ CreatesInModal
  BY DEF Basics
<1>2. PICK r \in PostRequests :
        /\ xhr' \in Seq(Requests) /\ Sent' = Others(i) \cup {r}
        /\ \/ /\ NextId(r.table) <= MaxRows
              /\ r.status = 201 /\ r.row = NewRow(r.table, r.receiver)
              /\ rows' = rows \cup {r.row}
           \/ r.status = 422 /\ rows' = rows
  BY <1>1, ServePostSent
<1>3. UNCHANGED <<formVars, made, upset>> /\ caller' = caller /\ upset' \subseteq Upsets
  BY <1>1 DEF ServePost, formVars, TypeOK
<1>4. TypeOK' /\ Keys'
  <2>1. CASE NextId(r.table) <= MaxRows /\ rows' = rows \cup {NewRow(r.table, r.receiver)}
    <3>1. r.table \in Tables /\ r.receiver \in BOOLEAN
      BY DEF PostRequests
    <3> QED BY <1>2, <1>3, <2>1, <3>1, RowsGrow
  <2>2. CASE rows' = rows
    BY <1>1, <1>2, <1>3, <2>2 DEF TypeOK, Keys, formVars
  <2> QED BY <1>2, <2>1, <2>2
<1>5. Answers'
  <2>1. r.kind = "post" /\ (r.status = 201 => r.row \in rows') /\ rows \subseteq rows'
    BY <1>2, KindOfRequest
  <2>2. caller' \in Names
    BY <1>1, <1>3, PostFacts DEF ServePost
  <2>3. Answerable(r)'
    BY <2>1, <2>2 DEF Answerable
  <2> QED BY <1>1, <1>2, <1>3, <2>1, <2>3, AnswersStay, OthersWereSent
<1>6. Modal' /\ CreatesInModal'
  BY <1>1, <1>3 DEF Modal, CreatesInModal, formVars
<1> QED BY <1>4, <1>5, <1>6 DEF Basics

LEMMA ServeListBasics ==
  ASSUME Basics, NEW i, ServeList(i)
  PROVE  Basics'
<1>1. TypeOK /\ Answers /\ Keys /\ Modal /\ CreatesInModal
  BY DEF Basics
<1>2. PICK r \in ListRequests :
        xhr' \in Seq(Requests) /\ Sent' = Others(i) \cup {r} /\ r.data \subseteq rows
  BY <1>1, ServeListSent
<1>3. UNCHANGED <<rows, formVars, made, upset>> /\ caller' = caller /\ caller \in Names
  BY <1>1, ListFacts DEF ServeList, formVars
<1>4. TypeOK' /\ Keys' /\ Modal' /\ CreatesInModal'
  BY <1>1, <1>2, <1>3 DEF TypeOK, Keys, Modal, CreatesInModal, formVars
<1>5. Answerable(r)'
  BY <1>2, <1>3, KindOfRequest DEF Answerable
<1>6. Answers'
  BY <1>1, <1>2, <1>3, <1>5, AnswersStay, OthersWereSent
<1> QED BY <1>4, <1>6 DEF Basics

LEMMA CreateElsewhereBasics ==
  ASSUME Basics, CreateElsewhere
  PROVE  Basics'
<1>1. TypeOK /\ Answers /\ Keys /\ Modal /\ CreatesInModal
  BY DEF Basics
<1>2. PICK t \in Tables, recv \in BOOLEAN : NextId(t) <= MaxRows /\ rows' = rows \cup {NewRow(t, recv)}
  BY DEF CreateElsewhere
<1>3. UNCHANGED <<formVars, xhr, made>> /\ caller' = caller /\ upset' \subseteq Upsets
  BY <1>1 DEF CreateElsewhere, formVars, TypeOK, Upsets
<1>4. TypeOK' /\ Keys'
  BY <1>1, <1>2, <1>3, RowsGrow DEF TypeOK
<1>5. Answers'
  BY <1>1, <1>2, <1>3, AnswersStay DEF Sent
<1>6. Modal' /\ CreatesInModal'
  BY <1>1, <1>3 DEF Modal, CreatesInModal, formVars
<1> QED BY <1>4, <1>5, <1>6 DEF Basics

LEMMA FailBasics ==
  ASSUME Basics, NEW i, Fail(i)
  PROVE  Basics'
<1>1. TypeOK /\ Answers /\ Keys /\ Modal /\ CreatesInModal
  BY DEF Basics
<1>2. xhr' \in Seq(Requests) /\ Sent' = Others(i)
  BY <1>1, SentOneLess DEF Fail, TypeOK
<1>3. UNCHANGED <<rows, formVars, made>> /\ caller' = caller /\ upset' \subseteq Upsets
  BY <1>1 DEF Fail, formVars, TypeOK, Upsets
<1>4. TypeOK' /\ Keys' /\ Modal' /\ CreatesInModal'
  BY <1>1, <1>2, <1>3 DEF TypeOK, Keys, Modal, CreatesInModal, formVars
<1>5. Answers'
  BY <1>1, <1>2, <1>3, AnswersStay, OthersWereSent
<1> QED BY <1>4, <1>5 DEF Basics

LEMMA CreatedBasics ==
  ASSUME Basics, NEW i, Created(i)
  PROVE  Basics'
<1>1. TypeOK /\ Answers /\ Keys /\ Modal /\ CreatesInModal
  BY DEF Basics
<1> DEFINE r == ListFor(xhr[i].table)
<1>2. /\ r \in ListRequests /\ xhr' \in Seq(Requests) /\ Sent' = Others(i) \cup {r}
      /\ caller \in Names /\ xhr[i].row \in rows
  BY <1>1, CreatedSent, PostFacts
<1>3. /\ UNCHANGED <<rows, options, value, display, caller, modal, receiver, errors, upset>>
      /\ fading' \in BOOLEAN
      /\ made' = made \/ made' = [name |-> caller, row |-> xhr[i].row]
  BY <1>1 DEF Created, TypeOK
<1>4. TypeOK'
  <2>1. made' = NoneMade \/ made' \in [name : Names, row : rows]
    BY <1>1, <1>2, <1>3 DEF TypeOK
  <2> QED BY <1>1, <1>2, <1>3, <2>1 DEF TypeOK
<1>5. r.kind = "list" /\ r.data = {}
  BY DEF ListFor
<1> HIDE DEF r
<1>6. \A q \in {r} : Answerable(q)'
  BY <1>2, <1>3, <1>5 DEF Answerable
<1>7. Answers'
  BY <1>1, <1>2, <1>3, <1>6, AnswersStay, OthersWereSent
<1>8. Keys' /\ Modal' /\ CreatesInModal'
  BY <1>1, <1>3 DEF Keys, Modal, CreatesInModal
<1> QED BY <1>4, <1>7, <1>8 DEF Basics

LEMMA RefusedBasics ==
  ASSUME Basics, NEW i, Refused(i)
  PROVE  Basics'
<1>1. TypeOK /\ Answers /\ Keys /\ Modal /\ CreatesInModal
  BY DEF Basics
<1>2. xhr' \in Seq(Requests) /\ Sent' = Others(i) /\ xhr[i].table \in Tables
  BY <1>1, SentOneLess, PostFacts DEF Refused, TypeOK
<1>3. /\ UNCHANGED <<rows, options, value, display, caller, modal, fading, receiver, made, upset>>
      /\ errors' \subseteq Tables
  BY <1>1, <1>2 DEF Refused, TypeOK
<1>4. TypeOK' /\ Keys' /\ Modal' /\ CreatesInModal'
  BY <1>1, <1>2, <1>3 DEF TypeOK, Keys, Modal, CreatesInModal
<1>5. Answers'
  BY <1>1, <1>2, <1>3, AnswersStay, OthersWereSent
<1> QED BY <1>4, <1>5 DEF Basics

LEMMA ReloadedBasics ==
  ASSUME Basics, NEW i, Reloaded(i)
  PROVE  Basics'
<1>1. TypeOK /\ Answers /\ Keys /\ Modal /\ CreatesInModal
  BY DEF Basics
<1> DEFINE v == Highest(xhr[i].data)
<1>2. /\ i \in Lists /\ xhr' \in Seq(Requests)
      /\ xhr[i].data = {} => v = Blank /\ Sent' = Others(i)
      /\ xhr[i].data # {} => /\ v \in xhr[i].data /\ v \in rows /\ v \in Rows
                             /\ Sent' = Others(i) \cup {ShowOf(caller, v.id)}
  BY <1>1, ReloadedSent
<1>3. caller \in Names /\ xhr[i].data \subseteq rows
  BY <1>1, <1>2, ListFacts
<1>4. /\ UNCHANGED <<rows, display, caller, modal, fading, receiver, errors, made>>
      /\ options' = [options EXCEPT ![caller] = xhr[i].data]
      /\ value' = [value EXCEPT ![caller] = v]
      /\ upset' \subseteq Upsets
  BY <1>1 DEF Reloaded, TypeOK, Upset, Upsets
<1>5. v # Create
  BY <1>1, <1>2, NotARow
<1> DEFINE data == xhr[i].data
<1> HIDE DEF v, data
<1>6. TypeOK'
  <2>1. v \in data \cup {Blank} /\ v \in rows \cup {Blank} /\ data \subseteq rows
    BY <1>2, <1>3 DEF data
  <2>2. options' = [options EXCEPT ![caller] = data]
    BY <1>4 DEF data
  <2>3. /\ options' \in [Names -> SUBSET (rows \cup {Blank})]
        /\ value' \in [Names -> rows \cup NonRows]
    BY <1>1, <1>3, <1>4, <2>1, <2>2 DEF TypeOK, NonRows
  <2>4. \A n \in Names : value'[n] \in options'[n] \cup NonRows
    BY <1>1, <1>3, <1>4, <2>1, <2>2 DEF TypeOK, NonRows
  <2> QED BY <1>1, <1>2, <1>4, <2>3, <2>4 DEF TypeOK
<1>7. Answers'
  <2>1. CASE data = {}
    BY <1>1, <1>2, <1>4, <2>1, AnswersStay, OthersWereSent DEF data
  <2>2. CASE data # {}
    <3>1. \A r \in {ShowOf(caller, v.id)} : Answerable(r)'
      <4>1. ShowOf(caller, v.id).kind = "show"
        BY DEF ShowOf
      <4> QED BY <1>2, <1>4, <2>2, <4>1 DEF Answerable, data
    <3> QED BY <1>1, <1>2, <1>4, <2>2, <3>1, AnswersStay, OthersWereSent DEF data
  <2> QED BY <2>1, <2>2
<1>8. Keys' /\ Modal'
  BY <1>1, <1>4 DEF Keys, Modal
<1>9. CreatesInModal'
  BY <1>1, <1>3, <1>4, <1>5 DEF CreatesInModal, TypeOK
<1> QED BY <1>6, <1>7, <1>8, <1>9 DEF Basics

LEMMA DetailsBasics ==
  ASSUME Basics, NEW i, Details(i)
  PROVE  Basics'
<1>1. TypeOK /\ Answers /\ Keys /\ Modal /\ CreatesInModal
  BY DEF Basics
<1>2. /\ i \in DOMAIN xhr /\ xhr[i].name \in Names
      /\ xhr' \in Seq(Requests) /\ Sent' = Others(i)
  BY <1>1, SentOneLess, ShowFacts DEF Details, TypeOK
<1>3. /\ UNCHANGED <<rows, options, value, caller, modal, fading, receiver, errors, made>>
      /\ upset' \subseteq Upsets
  BY <1>1 DEF Details, TypeOK, Upset, Upsets
<1>4. TypeOK'
  <2>1. display' \in [Names -> rows \cup {Blank}]
    <3>1. ASSUME NEW row \in Found(i), display' = ShownFor(i, row)
          PROVE  display' \in [Names -> rows \cup {Blank}]
      BY <1>1, <1>2, <3>1 DEF TypeOK, Found, ShownFor
    <3>2. CASE UNCHANGED display
      BY <1>1, <3>2 DEF TypeOK
    <3> QED BY <3>1, <3>2 DEF Details
  <2> QED BY <1>1, <1>2, <1>3, <2>1 DEF TypeOK
<1>5. Answers'
  BY <1>1, <1>2, <1>3, AnswersStay, OthersWereSent
<1>6. Keys' /\ Modal' /\ CreatesInModal'
  BY <1>1, <1>3 DEF Keys, Modal, CreatesInModal
<1> QED BY <1>4, <1>5, <1>6 DEF Basics
-----------------------------------------------------------------------------
(* For a user who waits: what is under way, and what selects offer. *)

LEMMA DirectedIsOfKind ==
  ASSUME NEW row, NEW n
  PROVE  OfKind(row, n) <=> Directed(row.table, row.receiver, n)
BY DEF OfKind, Directed

LEMMA KindGrows ==
  ASSUME NEW n, rows \subseteq rows'
  PROVE  Kind(n) \subseteq Kind(n)'
BY DEF Kind

LEMMA CallersOwnStays ==
  ASSUME NEW r, CallersOwn(r), rows \subseteq rows', caller' = caller
  PROVE  CallersOwn(r)'
BY DEF CallersOwn, Kind

LEMMA ForCallerStays ==
  ASSUME ForCaller, rows \subseteq rows', caller' = caller, upset \subseteq upset',
         "hasty" \notin upset' => \A r \in Sent' : r \in Sent \/ CallersOwn(r)'
  PROVE  ForCaller'
BY CallersOwnStays DEF ForCaller

LEMMA OwnKindStays ==
  ASSUME OwnKind, rows \subseteq rows', options' = options, upset \subseteq upset'
  PROVE  OwnKind'
BY KindGrows DEF OwnKind

Own == ForCaller /\ OwnKind

(* Only a select changes the caller, and a user who waits changes none     *)
(* while a post or a list is under way.                                    *)
LEMMA SelectOwn ==
  ASSUME Basics, Own, NEW n \in Names, NEW v \in options[n] \cup {Create}, Select(n, v)
  PROVE  Own'
<1>1. TypeOK /\ Answers /\ ForCaller /\ OwnKind
  BY DEF Basics, Own
<1>2. /\ v \in NonRows => Sent' = Sent
      /\ v \notin NonRows => v \in Rows /\ Sent' = Sent \cup {ShowOf(n, v.id)}
  BY <1>1, SelectSent
<1>3. rows' = rows /\ options' = options /\ upset \subseteq upset'
  BY DEF Select
<1>4. ForCaller'
  <2> SUFFICES ASSUME "hasty" \notin upset', NEW r \in Sent' PROVE CallersOwn(r)'
    BY DEF ForCaller
  <2>1. Posts \cup Lists = {}
    BY DEF Select, Upset
  <2>2. \A q \in Sent : q.kind # "post" /\ q.kind # "list"
    BY <2>1 DEF Sent, Posts, Lists
  <2>3. v \notin NonRows => ShowOf(n, v.id).kind = "show"
    BY DEF ShowOf
  <2>4. r.kind # "post" /\ r.kind # "list"
    BY <1>2, <2>2, <2>3
  <2> QED BY <2>4 DEF CallersOwn
<1> QED BY <1>1, <1>3, <1>4, OwnKindStays DEF Own

LEMMA SubmitOwn ==
  ASSUME Basics, Own, Submit
  PROVE  Own'
<1>1. TypeOK /\ Answers /\ Modal /\ ForCaller /\ OwnKind
  BY DEF Basics, Own
<1>2. Sent' = Sent \cup {NewPost}
  BY <1>1, SubmitSent
<1>3. rows' = rows /\ options' = options /\ caller' = caller /\ upset \subseteq upset'
  BY DEF Submit, formVars
<1>4. /\ NewPost.kind = "post" /\ NewPost.status = 0 /\ NewPost.table = modal
      /\ modal = "scenario" => (NewPost.receiver <=> receiver)
  BY <1>1 DEF NewPost, TypeOK
<1>5. Directed(modal, receiver, caller)
  BY <1>1 DEF Modal, Submit
<1>6. \A r \in {NewPost} : CallersOwn(r)'
  BY <1>3, <1>4, <1>5 DEF CallersOwn, Directed
<1> QED BY <1>1, <1>2, <1>3, <1>6, ForCallerStays, OwnKindStays DEF Own

LEMMA QuietOwn ==
  ASSUME Own, rows \subseteq rows', options' = options, caller' = caller, upset \subseteq upset',
         Sent' \subseteq Sent
  PROVE  Own'
BY ForCallerStays, OwnKindStays DEF Own

LEMMA ServePostOwn ==
  ASSUME Basics, Own, NEW i, ServePost(i)
  PROVE  Own'
<1>1. TypeOK /\ Answers /\ ForCaller /\ OwnKind
  BY DEF Basics, Own
<1>2. PICK r \in PostRequests :
        /\ r.table = xhr[i].table /\ r.receiver = xhr[i].receiver
        /\ Sent' = Others(i) \cup {r}
        /\ \/ /\ NextId(r.table) <= MaxRows
              /\ r.status = 201 /\ r.row = NewRow(r.table, r.receiver)
              /\ rows' = rows \cup {r.row}
           \/ r.status = 422 /\ rows' = rows
  BY <1>1, ServePostSent
<1>3. rows \subseteq rows' /\ options' = options /\ caller' = caller /\ upset' = upset
  BY <1>2 DEF ServePost, formVars
<1>4. ASSUME "hasty" \notin upset' PROVE CallersOwn(r)'
  <2>1. i \in DOMAIN xhr /\ xhr[i].kind = "post" /\ xhr[i] \in Sent
    BY <1>1, PostFacts, IsRequest DEF ServePost
  <2>2. Directed(r.table, r.receiver, caller)
    BY <1>1, <1>2, <1>3, <1>4, <2>1 DEF ForCaller, CallersOwn
  <2>3. r.status = 201 => r.row.table = r.table /\ r.row.receiver = r.receiver
    BY <1>2 DEF NewRow
  <2>4. r.status = 201 => OfKind(r.row, caller)
    BY <2>2, <2>3, DirectedIsOfKind
  <2>5. r.kind = "post"
    BY DEF PostRequests
  <2> QED BY <1>3, <2>2, <2>4, <2>5 DEF CallersOwn, OfKind, Directed
<1> QED BY <1>1, <1>2, <1>3, <1>4, ForCallerStays, OwnKindStays, OthersWereSent DEF Own

(* A list asked for the caller has rows of its kind only. *)
LEMMA ListedOwn ==
  ASSUME NEW n \in Names, NEW data \in Listed(FormName(n), n)
  PROVE  data \subseteq Kind(n)
<1>1. CASE FormName(n) = "scenario"
  <2>1. n \in {"scenario", "receiver_scenario"}
    BY <1>1, NamesAssumption DEF FormName, AllNames
  <2> QED BY <1>1, <2>1 DEF Listed
<1>2. CASE FormName(n) # "scenario"
  <2>1. data \subseteq {r \in rows : r.table = FormName(n)}
    BY <1>2 DEF Listed
  <2> QED BY <1>2, <2>1 DEF Kind, OfKind
<1> QED BY <1>1, <1>2

LEMMA ServeListOwn ==
  ASSUME Basics, Own, NEW i, ServeList(i)
  PROVE  Own'
<1>1. TypeOK /\ Answers /\ ForCaller /\ OwnKind
  BY DEF Basics, Own
<1>2. PICK r \in ListRequests :
        /\ r.table = xhr[i].table /\ r.type = xhr[i].type
        /\ r.data \in Listed(r.table, r.type)
        /\ Sent' = Others(i) \cup {r}
  BY <1>1, ServeListSent
<1>3. rows' = rows /\ options' = options /\ caller' = caller /\ upset' = upset
  BY DEF ServeList, formVars
<1>4. ASSUME "hasty" \notin upset' PROVE CallersOwn(r)'
  <2>1. i \in DOMAIN xhr /\ xhr[i].kind = "list" /\ xhr[i] \in Sent /\ caller \in Names
    BY <1>1, ListFacts, IsRequest DEF ServeList
  <2>2. r.table = FormName(caller) /\ r.type = caller
    BY <1>1, <1>2, <1>3, <1>4, <2>1 DEF ForCaller, CallersOwn
  <2>3. r.data \subseteq Kind(caller)
    BY <1>2, <2>1, <2>2, ListedOwn
  <2>4. r.kind = "list"
    BY DEF ListRequests
  <2> QED BY <1>3, <2>2, <2>3, <2>4 DEF CallersOwn, Kind
<1> QED BY <1>1, <1>2, <1>3, <1>4, ForCallerStays, OwnKindStays, OthersWereSent DEF Own

LEMMA CreatedOwn ==
  ASSUME Basics, Own, NEW i, Created(i)
  PROVE  Own'
<1>1. TypeOK /\ Answers /\ ForCaller /\ OwnKind
  BY DEF Basics, Own
<1> DEFINE r == ListFor(xhr[i].table)
<1>2. Sent' = Others(i) \cup {r} /\ i \in DOMAIN xhr /\ xhr[i].kind = "post" /\ xhr[i] \in Sent
  BY <1>1, CreatedSent, PostFacts, IsRequest
<1>3. rows' = rows /\ options' = options /\ caller' = caller /\ upset' = upset
  BY DEF Created
<1>4. r.kind = "list" /\ r.table = xhr[i].table /\ r.type = caller /\ r.data = {}
  BY DEF ListFor
<1>5. ASSUME "hasty" \notin upset' PROVE \A q \in {r} : CallersOwn(q)'
  <2>1. xhr[i].table = FormName(caller)
    BY <1>1, <1>2, <1>3, <1>5 DEF ForCaller, CallersOwn, Directed
  <2> HIDE DEF r
  <2> QED BY <1>3, <1>4, <2>1 DEF CallersOwn
<1> HIDE DEF r
<1> QED BY <1>1, <1>2, <1>3, <1>5, ForCallerStays, OwnKindStays, OthersWereSent DEF Own

LEMMA ReloadedOwn ==
  ASSUME Basics, Own, NEW i, Reloaded(i)
  PROVE  Own'
<1>1. TypeOK /\ Answers /\ ForCaller /\ OwnKind
  BY DEF Basics, Own
<1> DEFINE v == Highest(xhr[i].data)
<1>2. /\ i \in Lists
      /\ Sent' = Others(i) \/ Sent' = Others(i) \cup {ShowOf(caller, v.id)}
  BY <1>1, ReloadedSent
<1>3. i \in DOMAIN xhr /\ xhr[i].kind = "list" /\ xhr[i] \in Sent /\ caller \in Names
  BY <1>1, <1>2, ListFacts, IsRequest
<1>4. /\ rows' = rows /\ caller' = caller /\ upset \subseteq upset'
      /\ options' = [options EXCEPT ![caller] = xhr[i].data]
  BY DEF Reloaded
<1>5. ForCaller'
  <2>1. ShowOf(caller, v.id).kind = "show"
    BY DEF ShowOf
  <2>2. \A q \in {ShowOf(caller, v.id)} : CallersOwn(q)'
    BY <2>1 DEF CallersOwn
  <2> QED BY <1>1, <1>2, <1>4, <2>2, ForCallerStays, OthersWereSent
<1>6. OwnKind'
  <2> SUFFICES ASSUME "hasty" \notin upset', NEW n \in Names
               PROVE  options'[n] \ {Blank} \subseteq Kind(n)'
    BY DEF OwnKind
  <2>1. Kind(n)' = Kind(n) /\ "hasty" \notin upset
    BY <1>4 DEF Kind
  <2>2. CASE n = caller
    <3>1. xhr[i].data \subseteq Kind(caller)
      BY <1>1, <1>3, <2>1 DEF ForCaller, CallersOwn
    <3> QED BY <1>1, <1>3, <1>4, <2>1, <2>2, <3>1 DEF TypeOK
  <2>3. CASE n # caller
    BY <1>1, <1>4, <2>1, <2>3 DEF TypeOK, OwnKind
  <2> QED BY <2>2, <2>3
<1> QED BY <1>5, <1>6 DEF Own

LEMMA OwnStep ==
  ASSUME Basics, Own, [Next]_vars
  PROVE  Own'
<1>1. TypeOK
  BY DEF Basics
<1>2. CASE UNCHANGED vars
  BY <1>2, QuietOwn DEF vars, formVars, Sent
<1>3. ASSUME NEW n \in Names, NEW v \in options[n] \cup {Create}, Select(n, v) PROVE Own'
  BY <1>3, SelectOwn
<1>4. CASE Submit
  BY <1>4, SubmitOwn
<1>5. CASE Dismiss
  BY <1>5, QuietOwn DEF Dismiss, Sent
<1>6. CASE Hidden
  BY <1>6, QuietOwn DEF Hidden, Sent
<1>7. CASE CreateElsewhere
  BY <1>7, QuietOwn DEF CreateElsewhere, formVars, Sent
<1>8. ASSUME NEW i \in DOMAIN xhr, ServePost(i) PROVE Own'
  BY <1>8, ServePostOwn
<1>9. ASSUME NEW i \in DOMAIN xhr, ServeList(i) PROVE Own'
  BY <1>9, ServeListOwn
<1>10. ASSUME NEW i \in DOMAIN xhr, Fail(i) \/ Refused(i) \/ Details(i) PROVE Own'
  <2>1. xhr' = RemoveAt(xhr, i)
    BY <1>10 DEF Fail, Refused, Details
  <2>2. Sent' \subseteq Sent
    BY <1>1, <2>1, SentOneLess, OthersWereSent DEF TypeOK
  <2>3. rows' = rows /\ options' = options /\ caller' = caller /\ upset \subseteq upset'
    BY <1>10 DEF Fail, Refused, Details, formVars
  <2> QED BY <2>2, <2>3, QuietOwn
<1>11. ASSUME NEW i \in DOMAIN xhr, Created(i) PROVE Own'
  BY <1>11, CreatedOwn
<1>12. ASSUME NEW i \in DOMAIN xhr, Reloaded(i) PROVE Own'
  BY <1>12, ReloadedOwn
<1> QED BY <1>2, <1>3, <1>4, <1>5, <1>6, <1>7, <1>8, <1>9, <1>10, <1>11, <1>12 DEF Next, Step
-----------------------------------------------------------------------------
(* For a user who waits: one post is under way, or its lists. *)

LEMMA NoPosts ==
  ASSUME \A r \in Sent : r.kind # "post"
  PROVE  Posts = {}
BY DEF Posts, Sent

LEMMA NeitherPostsNorLists ==
  ASSUME Posts \cup Lists = {}
  PROVE  \A r \in Sent : r.kind # "post" /\ r.kind # "list"
BY DEF Posts, Lists, Sent

LEMMA OnlyPost ==
  ASSUME NEW i \in Posts, Posts \cup Lists = {i}
  PROVE  /\ \A r \in Others(i) : r.kind # "post" /\ r.kind # "list"
         /\ Lists = {}
<1>1. \A j \in DOMAIN xhr \ {i} : j \notin Posts /\ j \notin Lists
  OBVIOUS
<1>2. i \notin Lists
  BY DEF Posts, Lists
<1> QED BY <1>1, <1>2 DEF Posts, Lists, Others

LEMMA OneAtATimeStep ==
  ASSUME TypeOK, Answers, OneAtATime, [Next]_vars
  PROVE  OneAtATime'
<1> SUFFICES ASSUME "hasty" \notin upset', NEW k \in Posts'
             PROVE  (Posts \cup Lists)' = {k}
  BY DEF OneAtATime
<1>1. CASE UNCHANGED <<xhr, upset>>
  BY <1>1 DEF OneAtATime, Posts, Lists
<1>2. ASSUME NEW n \in Names, NEW v \in options[n] \cup {Create}, Select(n, v) PROVE FALSE
  <2>1. Posts \cup Lists = {}
    BY <1>2 DEF Select, Upset
  <2>2. \A r \in Sent' : r \in Sent \/ r.kind = "show"
    <3>1. ShowOf(n, v.id).kind = "show"
      BY DEF ShowOf
    <3>2. Sent' = Sent \/ Sent' = Sent \cup {ShowOf(n, v.id)}
      BY <1>2, SelectSent
    <3> QED BY <3>1, <3>2
  <2> QED BY <2>1, <2>2, NeitherPostsNorLists DEF Posts, Sent
<1>3. ASSUME Submit PROVE (Posts \cup Lists)' = {k}
  <2>1. Posts \cup Lists = {}
    BY <1>3 DEF Submit, Upset
  <2>2. xhr' = Append(xhr, NewPost) /\ NewPost \in Requests
    BY <1>3, SubmitSent, KindOfRequest
  <2>3. /\ xhr' \in Seq(Requests) /\ xhr \in Seq(Requests)
        /\ Len(xhr') = Len(xhr) + 1
        /\ \A j \in DOMAIN xhr : xhr'[j] = xhr[j]
        /\ xhr'[Len(xhr) + 1] = NewPost
    BY <2>2, SentMore DEF TypeOK
  <2>4. DOMAIN xhr' = DOMAIN xhr \cup {Len(xhr) + 1}
    BY <2>3, LenProperties
  <2>5. \A j \in DOMAIN xhr' : xhr'[j].kind \in {"post", "list"} => j = Len(xhr) + 1
    BY <2>1, <2>3, <2>4 DEF Posts, Lists
  <2>6. (Posts \cup Lists)' \subseteq {Len(xhr) + 1}
    BY <2>5 DEF Posts, Lists
  <2>7. k \in (Posts \cup Lists)'
    BY DEF Posts
  <2> QED BY <2>6, <2>7
<1>4. ASSUME NEW i \in DOMAIN xhr, NEW r \in Requests, xhr' = [xhr EXCEPT ![i] = r],
             xhr[i].kind = r.kind, upset' = upset
      PROVE  (Posts \cup Lists)' = {k}
  <2>1. /\ DOMAIN xhr' = DOMAIN xhr
        /\ \A j \in DOMAIN xhr : xhr'[j].kind = xhr[j].kind
    BY <1>4, Replaced DEF TypeOK
  <2>2. Posts' = Posts /\ Lists' = Lists
    BY <2>1 DEF Posts, Lists
  <2> QED BY <1>4, <2>2 DEF OneAtATime
<1>5. ASSUME NEW i \in DOMAIN xhr, xhr' = RemoveAt(xhr, i), upset \subseteq upset'
      PROVE  (Posts \cup Lists)' = {k}
  <2>1. xhr \in Seq(Requests) /\ xhr' \in Seq(Requests) /\ xhr' = RemoveAt(xhr, i) \o <<>> /\ <<>> \in Seq(Requests)
    BY <1>5, SentOneLess, EmptySeq DEF TypeOK
  <2>2. /\ Len(xhr') = Len(xhr) - 1
        /\ \A j \in 1 .. Len(xhr) - 1 : xhr'[j] = xhr[Before(j, i)]
    BY <2>1, Removed, EmptySeq, LenProperties
  <2>3. DOMAIN xhr = 1 .. Len(xhr) /\ DOMAIN xhr' = 1 .. Len(xhr) - 1 /\ Len(xhr) \in Nat
    BY <2>1, <2>2, LenProperties
  <2>4. \A j \in DOMAIN xhr' : Before(j, i) \in DOMAIN xhr /\ xhr'[j] = xhr[Before(j, i)]
    BY <2>2, <2>3 DEF Before
  <2>5. Before(k, i) \in Posts
    BY <2>4 DEF Posts
  <2>6. Posts \cup Lists = {Before(k, i)}
    BY <1>5, <2>5 DEF OneAtATime
  <2>7. ASSUME NEW j \in (Posts \cup Lists)' PROVE j = k
    <3>1. j \in DOMAIN xhr' /\ k \in DOMAIN xhr' /\ Before(j, i) \in Posts \cup Lists
      BY <2>4 DEF Posts, Lists
    <3>2. Before(j, i) = Before(k, i)
      BY <2>6, <3>1
    <3> QED BY <2>3, <3>1, <3>2 DEF Before
  <2> QED BY <2>7
<1>6. ASSUME NEW i \in DOMAIN xhr, Created(i) PROVE FALSE
  <2>1. i \in Posts /\ upset' = upset /\ Sent' = Others(i) \cup {ListFor(xhr[i].table)}
    BY <1>6, CreatedSent DEF Created
  <2>2. Posts \cup Lists = {i}
    BY <2>1 DEF OneAtATime
  <2>3. ListFor(xhr[i].table).kind = "list"
    BY DEF ListFor
  <2> QED BY <2>1, <2>2, <2>3, OnlyPost DEF Posts, Sent
<1>7. ASSUME NEW i \in DOMAIN xhr, Reloaded(i) PROVE FALSE
  <2>1. /\ i \in Lists /\ upset \subseteq upset'
        /\ Sent' = Others(i) \/ Sent' = Others(i) \cup {ShowOf(caller, Highest(xhr[i].data).id)}
    BY <1>7, ReloadedSent DEF Reloaded
  <2>2. Posts = {}
    BY <2>1 DEF OneAtATime, Posts, Lists
  <2>3. \A r \in Sent : r.kind # "post"
    BY <2>2 DEF Posts, Sent
  <2>4. ShowOf(caller, Highest(xhr[i].data).id).kind = "show"
    BY DEF ShowOf
  <2> QED BY <2>1, <2>3, <2>4, OthersWereSent DEF Posts, Sent
<1>8. CASE UNCHANGED vars
  BY <1>1, <1>8 DEF vars
<1>9. CASE Dismiss \/ Hidden
  BY <1>1, <1>9 DEF Dismiss, Hidden
<1>10. CASE CreateElsewhere
  BY <1>10 DEF CreateElsewhere, OneAtATime, Posts, Lists
<1>11. ASSUME NEW i \in DOMAIN xhr, ServePost(i) PROVE (Posts \cup Lists)' = {k}
  <2>1. PICK r \in PostRequests : xhr' = [xhr EXCEPT ![i] = r]
    BY <1>11, ServePostSent
  <2>2. xhr[i].kind = r.kind /\ r \in Requests /\ upset' = upset
    BY <1>11, PostFacts, KindOfRequest DEF ServePost
  <2> QED BY <1>4, <2>1, <2>2
<1>12. ASSUME NEW i \in DOMAIN xhr, ServeList(i) PROVE (Posts \cup Lists)' = {k}
  <2>1. PICK r \in ListRequests : xhr' = [xhr EXCEPT ![i] = r]
    BY <1>12, ServeListSent
  <2>2. xhr[i].kind = r.kind /\ r \in Requests /\ upset' = upset
    BY <1>12, ListFacts, KindOfRequest DEF ServeList
  <2> QED BY <1>4, <2>1, <2>2
<1>13. ASSUME NEW i \in DOMAIN xhr, Fail(i) \/ Refused(i) \/ Details(i) PROVE (Posts \cup Lists)' = {k}
  <2>1. xhr' = RemoveAt(xhr, i) /\ upset \subseteq upset'
    BY <1>13 DEF Fail, Refused, Details
  <2> QED BY <1>5, <2>1
<1> QED BY <1>2, <1>3, <1>6, <1>7, <1>8, <1>9, <1>10, <1>11, <1>12, <1>13 DEF Next, Step
-----------------------------------------------------------------------------
(* For a user who waits, with nobody else at work: the row made last. *)

LEMMA BringsStays ==
  ASSUME NEW r, Brings(r), UNCHANGED <<rows, made, caller>>
  PROVE  Brings(r)'
BY DEF Brings, Newest, Overflow

LEMMA ShowsBringNothing ==
  ASSUME NEW r, r.kind # "post", r.kind # "list"
  PROVE  Brings(r) /\ Brings(r)'
BY DEF Brings

LEMMA MadeIsKindStep ==
  ASSUME TypeOK, MadeIsKind, [Next]_vars
  PROVE  MadeIsKind'
<1>1. CASE made' = made \/ made' = NoneMade
  BY <1>1 DEF MadeIsKind, OfKind
<1>2. ASSUME NEW i \in DOMAIN xhr, Created(i) PROVE MadeIsKind'
  <2>1. made' = made \/ (OfKind(xhr[i].row, caller) /\ made' = [name |-> caller, row |-> xhr[i].row])
    BY <1>2 DEF Created
  <2>2. CASE made' = made
    BY <1>1, <2>2
  <2>3. CASE OfKind(xhr[i].row, caller) /\ made' = [name |-> caller, row |-> xhr[i].row]
    <3>1. made'.name = caller /\ made'.row = xhr[i].row
      BY <2>3
    <3> QED BY <2>3, <3>1 DEF MadeIsKind, OfKind
  <2> QED BY <2>1, <2>2, <2>3
<1>3. ASSUME NEW n \in Names, NEW v \in options[n] \cup {Create}, Select(n, v)
      PROVE  made' = made \/ made' = NoneMade
  BY <1>3 DEF Select
<1>4. CASE Submit \/ Dismiss \/ Hidden \/ CreateElsewhere \/ UNCHANGED vars
  BY <1>1, <1>4 DEF Submit, Dismiss, Hidden, CreateElsewhere, vars
<1>5. ASSUME NEW i \in DOMAIN xhr,
             ServePost(i) \/ ServeList(i) \/ Fail(i) \/ Refused(i) \/ Reloaded(i) \/ Details(i)
      PROVE  made' = made
  BY <1>5 DEF ServePost, ServeList, Fail, Refused, Reloaded, Details
<1> QED BY <1>1, <1>2, <1>3, <1>4, <1>5 DEF Next, Step

LEMMA MadeFacts ==
  ASSUME TypeOK, MadeIsKind, made # NoneMade
  PROVE  /\ made.name \in Names /\ made.row \in rows /\ made.row \in Rows
         /\ OfKind(made.row, made.name) /\ made.row \in Kind(made.name)
BY DEF TypeOK, MadeIsKind, Kind

(* Alone, a step that is not hasty is one of a user who waits. *)
LEMMA AloneIsUnhurried ==
  /\ Alone => "hasty" \notin upset
  /\ Alone' => "hasty" \notin upset' /\ "others" \notin upset' /\ "failed" \notin upset'
BY DEF Alone

LEMMA AloneBefore ==
  ASSUME Alone', upset \subseteq upset'
  PROVE  Alone
BY DEF Alone

(* What a list asked for the caller brings. *)
LEMMA ListedBrings ==
  ASSUME TypeOK, NEW n \in Names, NEW row \in Kind(n), NEW data \in Listed(FormName(n), n)
  PROVE  row \in data \/ Overflow(row)
<1>1. row \in rows /\ row.table = FormName(n)
  BY DEF Kind, OfKind
<1>2. CASE FormName(n) = "scenario"
  <2>1. n \in {"scenario", "receiver_scenario"}
    BY <1>2, NamesAssumption DEF FormName, AllNames
  <2> QED BY <1>2, <2>1 DEF Listed
<1>3. CASE FormName(n) # "scenario"
  <2> DEFINE all == {r \in rows : r.table = FormName(n)}
  <2>1. data \in SUBSET all /\ Cardinality(data) = Min({PerPage, Cardinality(all)})
    BY <1>3 DEF Listed
  <2>2. all \in SUBSET Rows /\ row \in all
    BY <1>1 DEF TypeOK
  <2>3. all = {r \in rows : r.table = row.table}
    BY <1>1
  <2> HIDE DEF all
  <2>4. data = all \/ Cardinality(all) > PerPage
    BY <2>1, <2>2, PageHolds
  <2> QED BY <1>1, <1>3, <2>2, <2>3, <2>4 DEF Overflow
<1> QED BY <1>2, <1>3

LEMMA ComingStays ==
  ASSUME Coming, UNCHANGED <<rows, made, caller>>, upset \subseteq upset',
         \A r \in Sent' : r \in Sent \/ Brings(r)'
  PROVE  Coming'
BY AloneBefore, BringsStays DEF Coming

LEMMA ArrivedStays ==
  ASSUME Arrived, UNCHANGED <<rows, made, value>>, upset \subseteq upset',
         Alone /\ Alone' /\ Lists' = {} => Lists = {}
  PROVE  Arrived'
BY AloneBefore DEF Arrived, Overflow

(* The invariant that the steps below keep. *)
Waits == Basics /\ Own /\ OneAtATime /\ Latest

LEMMA SelectLatest ==
  ASSUME Waits, NEW n \in Names, NEW v \in options[n] \cup {Create}, Select(n, v)
  PROVE  Coming' /\ Arrived'
<1>1. TypeOK /\ MadeIsKind /\ Coming /\ Arrived
  BY DEF Waits, Basics, Latest
<1>2. /\ rows' = rows /\ upset \subseteq upset'
      /\ value' = [value EXCEPT ![n] = v]
      /\ made' = IF made.name = n THEN NoneMade ELSE made
  BY DEF Select
<1>3. ASSUME Alone' PROVE Alone /\ Posts \cup Lists = {}
  BY <1>2, <1>3, AloneBefore, AloneIsUnhurried DEF Select, Upset
<1>4. Coming'
  <2> SUFFICES ASSUME Alone', NEW r \in Sent' PROVE Brings(r)'
    BY DEF Coming
  <2>1. \A q \in Sent : q.kind # "post" /\ q.kind # "list"
    BY <1>3, NeitherPostsNorLists
  <2>2. Sent' = Sent \/ Sent' = Sent \cup {ShowOf(n, v.id)}
    BY <1>1, SelectSent
  <2>3. ShowOf(n, v.id).kind = "show"
    BY DEF ShowOf
  <2>4. r.kind # "post" /\ r.kind # "list"
    BY <2>1, <2>2, <2>3
  <2> QED BY <2>4, ShowsBringNothing
<1>5. Arrived'
  <2> SUFFICES ASSUME Alone', made' # NoneMade
               PROVE  value'[made'.name] = made'.row \/ Overflow(made.row)
    <3>1. made' # NoneMade => made' = made
      BY <1>2
    <3> QED BY <1>2, <3>1 DEF Arrived, Overflow
  <2>1. made' = made /\ made.name # n /\ made # NoneMade
    BY <1>2
  <2>2. made.name \in Names /\ value'[made.name] = value[made.name]
    BY <1>1, <1>2, <2>1, MadeFacts DEF TypeOK
  <2>3. value[made.name] = made.row \/ Overflow(made.row)
    BY <1>1, <1>3, <2>1 DEF Arrived
  <2> QED BY <2>1, <2>2, <2>3
<1> QED BY <1>4, <1>5

LEMMA SubmitLatest ==
  ASSUME Waits, Submit
  PROVE  Coming' /\ Arrived'
<1>1. TypeOK /\ Coming /\ Arrived
  BY DEF Waits, Basics, Latest
<1>2. UNCHANGED <<rows, value, made, caller>> /\ upset \subseteq upset'
  BY DEF Submit, formVars
<1>3. Sent' = Sent \cup {NewPost}
  BY <1>1, SubmitSent
<1>4. NewPost.kind = "post" /\ NewPost.status = 0
  BY DEF NewPost
<1>5. \A r \in {NewPost} : Brings(r)'
  BY <1>4 DEF Brings
<1>6. Alone' => Lists = {}
  BY AloneIsUnhurried DEF Submit, Upset
<1> QED BY <1>1, <1>2, <1>3, <1>5, <1>6, ComingStays, ArrivedStays

LEMMA HiddenLatest ==
  ASSUME Waits, Hidden
  PROVE  Coming' /\ Arrived'
<1>1. TypeOK /\ MadeIsKind /\ Coming /\ Arrived
  BY DEF Waits, Basics, Latest
<1>2. /\ UNCHANGED <<rows, made, caller, xhr, upset>>
      /\ value' = [n \in Names |-> Reset(n)]
  BY DEF Hidden
<1>3. Coming'
  BY <1>1, <1>2, ComingStays DEF Sent
<1>4. ASSUME made # NoneMade, value[made.name] = made.row PROVE value'[made.name] = made.row
  BY <1>1, <1>2, <1>4, MadeFacts, NotARow DEF Reset
<1>5. Arrived'
  BY <1>1, <1>2, <1>4 DEF Arrived, Alone, Lists, Overflow
<1> QED BY <1>3, <1>5

LEMMA ServePostLatest ==
  ASSUME Waits, NEW i, ServePost(i)
  PROVE  Coming' /\ Arrived'
<1>1. TypeOK /\ Answers /\ MadeIsKind /\ Coming /\ Arrived /\ OneAtATime
  BY DEF Waits, Basics, Latest
<1>2. PICK r \in PostRequests :
        /\ Sent' = Others(i) \cup {r}
        /\ \/ /\ NextId(r.table) <= MaxRows
              /\ r.status = 201 /\ r.row = NewRow(r.table, r.receiver)
              /\ rows' = rows \cup {r.row}
           \/ r.status = 422 /\ rows' = rows
  BY <1>1, ServePostSent
<1>3. UNCHANGED <<value, made, caller, upset>> /\ i \in Posts
  BY DEF ServePost, formVars
<1>4. ASSUME Alone' PROVE Alone /\ Posts \cup Lists = {i}
  BY <1>1, <1>3, <1>4, AloneBefore, AloneIsUnhurried DEF OneAtATime
<1>5. Coming'
  <2> SUFFICES ASSUME Alone', NEW q \in Sent' PROVE Brings(q)'
    BY DEF Coming
  <2>1. CASE q \in Others(i)
    BY <1>3, <1>4, <2>1, OnlyPost, ShowsBringNothing
  <2>2. CASE q = r
    <3>1. r.table \in Tables /\ r.receiver \in BOOLEAN /\ r.kind = "post"
      BY DEF PostRequests
    <3>2. CASE r.status = 201
      <4> DEFINE row == NewRow(r.table, r.receiver)
      <4>1. r.row = row /\ NextId(r.table) <= MaxRows /\ rows' = rows \cup {row}
        BY <1>2, <3>2
      <4>2. row \in Rows /\ row.table = r.table /\ \A s \in rows : s.table = r.table => s.id < row.id
        BY <1>1, <3>1, <4>1, NewRowType DEF TypeOK
      <4>3. row.id \in Nat /\ \A s \in rows : s.id \in Nat
        BY <1>1, <4>2, RowType DEF TypeOK
      <4> HIDE DEF row
      <4>4. \A s \in rows' : s.table = r.row.table => s.id <= r.row.id
        BY <4>1, <4>2, <4>3
      <4> QED BY <2>2, <3>1, <4>4 DEF Brings, Newest
    <3>3. CASE r.status # 201
      BY <2>2, <3>1, <3>3 DEF Brings
    <3> QED BY <3>2, <3>3
  <2> QED BY <1>2, <2>1, <2>2
<1>6. Arrived'
  <2> SUFFICES ASSUME Alone', made # NoneMade
               PROVE  value[made.name] = made.row \/ Overflow(made.row)'
    BY <1>3 DEF Arrived, Overflow
  <2>1. Lists = {}
    BY <1>3, <1>4, OnlyPost
  <2>2. CASE Overflow(made.row)
    <3>1. rows' \subseteq Rows
      <4>1. Basics'
        BY ServePostBasics DEF Waits
      <4> QED BY <4>1 DEF Basics, TypeOK
    <3>2. rows \in SUBSET Rows /\ rows' \in SUBSET Rows /\ rows \subseteq rows'
      BY <1>1, <1>2, <3>1 DEF TypeOK
    <3>3. Cardinality({s \in rows : s.table = made.row.table}) > PerPage
      BY <2>2 DEF Overflow
    <3>4. Cardinality({s \in rows' : s.table = made.row.table}) > PerPage
      BY <3>2, <3>3, OverflowStays, ZenonT(40)
    <3> QED BY <1>3, <2>2, <3>4 DEF Overflow
  <2> QED BY <1>1, <1>4, <2>1, <2>2 DEF Arrived
<1> QED BY <1>5, <1>6

LEMMA ServeListLatest ==
  ASSUME Waits, NEW i, ServeList(i)
  PROVE  Coming' /\ Arrived'
<1>1. TypeOK /\ Answers /\ MadeIsKind /\ Coming /\ Arrived /\ ForCaller
  BY DEF Waits, Basics, Latest, Own
<1>2. PICK r \in ListRequests :
        /\ r.table = xhr[i].table /\ r.type = xhr[i].type
        /\ r.data \in Listed(r.table, r.type)
        /\ Sent' = Others(i) \cup {r}
  BY <1>1, ServeListSent
<1>3. UNCHANGED <<rows, value, made, caller, upset>>
  BY DEF ServeList, formVars
<1>4. i \in DOMAIN xhr /\ xhr[i].kind = "list" /\ xhr[i] \in Sent /\ caller \in Names
  BY <1>1, ListFacts, IsRequest DEF ServeList
<1>5. r.kind = "list"
  BY DEF ListRequests
<1>6. Coming'
  <2> SUFFICES ASSUME Alone' PROVE Brings(r)'
    BY <1>1, <1>2, <1>3, ComingStays, OthersWereSent DEF Coming
  <2>1. Alone /\ "hasty" \notin upset
    BY <1>3, AloneBefore, AloneIsUnhurried
  <2>2. Brings(xhr[i]) /\ CallersOwn(xhr[i])
    BY <1>1, <1>4, <2>1 DEF Coming, ForCaller
  <2>3. made # NoneMade /\ made.name = caller /\ Newest(made.row)
    BY <1>4, <2>2 DEF Brings
  <2>4. r.table = FormName(caller) /\ r.type = caller
    BY <1>2, <1>4, <2>2 DEF CallersOwn
  <2>5. made.row \in Kind(caller)
    BY <1>1, <2>3, MadeFacts
  <2>6. made.row \in r.data \/ Overflow(made.row)
    BY <1>1, <1>2, <1>4, <2>4, <2>5, ListedBrings
  <2> QED BY <1>3, <1>5, <2>3, <2>6 DEF Brings, Newest, Overflow
<1>7. Arrived'
  <2>1. Lists' # {}
    BY <1>2, <1>5 DEF Sent, Lists
  <2> QED BY <2>1 DEF Arrived
<1> QED BY <1>6, <1>7

LEMMA CreatedLatest ==
  ASSUME Waits, NEW i, Created(i)
  PROVE  Coming' /\ Arrived'
<1>1. TypeOK /\ Answers /\ Coming /\ ForCaller /\ OneAtATime
  BY DEF Waits, Basics, Latest, Own
<1> DEFINE r == ListFor(xhr[i].table)
           row == xhr[i].row
<1>2. i \in Posts /\ xhr[i].status = 201 /\ Sent' = Others(i) \cup {r}
  BY <1>1, CreatedSent
<1>3. i \in DOMAIN xhr /\ xhr[i].kind = "post" /\ xhr[i] \in Sent /\ caller \in Names
  BY <1>1, <1>2, PostFacts, IsRequest
<1>4. /\ UNCHANGED <<rows, value, caller, upset>>
      /\ OfKind(row, caller) => made' = [name |-> caller, row |-> row]
  BY DEF Created
<1>5. r.kind = "list" /\ r.served = FALSE
  BY DEF ListFor
<1> HIDE DEF r
<1>6. Coming'
  <2> SUFFICES ASSUME Alone', NEW q \in Sent' PROVE Brings(q)'
    BY DEF Coming
  <2>1. Alone /\ "hasty" \notin upset
    BY <1>4, AloneBefore, AloneIsUnhurried
  <2>2. Posts \cup Lists = {i} /\ Brings(xhr[i]) /\ CallersOwn(xhr[i])
    BY <1>1, <1>2, <1>3, <2>1 DEF OneAtATime, Coming, ForCaller
  <2>3. CASE q \in Others(i)
    BY <1>2, <2>2, <2>3, OnlyPost, ShowsBringNothing
  <2>4. CASE q = r
    <3>1. OfKind(row, caller) /\ Newest(row)
      BY <1>2, <1>3, <2>2 DEF CallersOwn, Brings
    <3>2. made'.name = caller /\ made'.row = row
      BY <1>4, <3>1
    <3>3. made' # NoneMade
      BY <1>3, <3>2, NotARow DEF NoneMade
    <3>4. \A s \in rows' : s.table = made'.row.table => s.id <= made'.row.id
      <4>1. \A s \in rows : s.table = row.table => s.id <= row.id
        BY <3>1 DEF Newest
      <4> HIDE DEF row
      <4> QED BY <1>4, <3>2, <4>1
    <3> QED BY <1>4, <1>5, <2>4, <3>2, <3>3, <3>4 DEF Brings, Newest
  <2> QED BY <1>2, <2>3, <2>4
<1>7. Arrived'
  <2>1. Lists' # {}
    BY <1>2, <1>5 DEF Sent, Lists
  <2> QED BY <2>1 DEF Arrived
<1> QED BY <1>6, <1>7

LEMMA RefusedLatest ==
  ASSUME Waits, NEW i, Refused(i)
  PROVE  Coming' /\ Arrived'
<1>1. TypeOK /\ Answers /\ Coming /\ Arrived /\ OneAtATime
  BY DEF Waits, Basics, Latest
<1>2. UNCHANGED <<rows, value, made, caller, upset>> /\ i \in Posts
  BY DEF Refused
<1>3. Sent' = Others(i)
  BY <1>1, <1>2, PostFacts, SentOneLess DEF Refused, TypeOK
<1>4. Alone => Lists = {}
  BY <1>1, <1>2, AloneIsUnhurried, OnlyPost DEF OneAtATime
<1> QED BY <1>1, <1>2, <1>3, <1>4, ComingStays, ArrivedStays, OthersWereSent

(* The newest row is the highest of every list of its table that has it. *)
LEMMA NewestIsHighest ==
  ASSUME TypeOK, Keys, NEW row \in rows, Newest(row), NEW data \in SUBSET rows, row \in data,
         \A r \in data : r.table = row.table
  PROVE  Highest(data) = row
<1>1. data \in SUBSET Rows /\ data # {}
  BY DEF TypeOK
<1>2. Highest(data) \in data /\ \A s \in data : s.id <= Highest(data).id
  BY <1>1, HighestIsHighest
<1>3. Highest(data).id <= row.id /\ row.id <= Highest(data).id
  BY <1>2 DEF Newest
<1>4. Highest(data).id \in Nat /\ row.id \in Nat
  BY <1>1, <1>2, RowType
<1>5. Highest(data).id = row.id
  BY <1>3, <1>4
<1> QED BY <1>2, <1>5 DEF Keys

LEMMA ReloadedLatest ==
  ASSUME Waits, NEW i, Reloaded(i)
  PROVE  Coming' /\ Arrived'
<1>1. TypeOK /\ Answers /\ Keys /\ MadeIsKind /\ Coming /\ ForCaller
  BY DEF Waits, Basics, Latest, Own
<1> DEFINE v == Highest(xhr[i].data)
<1>2. /\ i \in Lists
      /\ Sent' = Others(i) \/ Sent' = Others(i) \cup {ShowOf(caller, v.id)}
  BY <1>1, ReloadedSent
<1>3. /\ i \in DOMAIN xhr /\ xhr[i].kind = "list" /\ xhr[i] \in Sent /\ caller \in Names
      /\ xhr[i].data \subseteq rows
  BY <1>1, <1>2, ListFacts, IsRequest
<1>4. /\ UNCHANGED <<rows, made, caller>> /\ upset \subseteq upset' /\ xhr[i].served
      /\ value' = [value EXCEPT ![caller] = v]
  BY DEF Reloaded
<1>5. Coming'
  <2>1. ShowOf(caller, v.id).kind = "show"
    BY DEF ShowOf
  <2>2. \A r \in {ShowOf(caller, v.id)} : Brings(r)'
    BY <2>1, ShowsBringNothing
  <2> QED BY <1>1, <1>2, <1>4, <2>2, ComingStays, OthersWereSent
<1>6. Arrived'
  <2> SUFFICES ASSUME Alone'
               PROVE  value'[made.name] = made.row \/ Overflow(made.row)
    BY <1>4 DEF Arrived, Overflow
  <2>1. Alone /\ "hasty" \notin upset
    BY <1>4, AloneBefore, AloneIsUnhurried
  <2>2. Brings(xhr[i]) /\ CallersOwn(xhr[i])
    BY <1>1, <1>3, <2>1 DEF Coming, ForCaller
  <2>3. /\ made # NoneMade /\ made.name = caller /\ Newest(made.row)
        /\ made.row \in xhr[i].data \/ Overflow(made.row)
    BY <1>3, <1>4, <2>2 DEF Brings
  <2>4. made.row \in rows /\ made.row.table = FormName(caller)
    BY <1>1, <2>3, MadeFacts DEF OfKind
  <2>5. \A r \in xhr[i].data : r.table = made.row.table
    BY <1>3, <2>2, <2>4 DEF CallersOwn, Kind, OfKind
  <2>6. CASE made.row \in xhr[i].data
    <3>1. v = made.row
      BY <1>1, <1>3, <2>3, <2>4, <2>5, <2>6, NewestIsHighest
    <3> HIDE DEF v
    <3> QED BY <1>1, <1>3, <1>4, <2>3, <3>1 DEF TypeOK
  <2> QED BY <2>3, <2>6
<1> QED BY <1>5, <1>6

LEMMA DetailsLatest ==
  ASSUME Waits, NEW i, Details(i)
  PROVE  Coming' /\ Arrived'
<1>1. TypeOK /\ Coming /\ Arrived
  BY DEF Waits, Basics, Latest
<1>2. /\ UNCHANGED <<rows, value, made, caller>> /\ upset \subseteq upset'
      /\ i \in DOMAIN xhr /\ xhr[i].kind = "show"
  BY DEF Details
<1>3. Sent' = Others(i)
  BY <1>1, SentOneLess DEF Details, TypeOK
<1>4. ASSUME NEW j \in Lists PROVE Lists' # {}
  <2>1. j \in DOMAIN xhr \ {i} /\ xhr[j].kind = "list"
    BY <1>2 DEF Lists
  <2>2. xhr[j] \in Sent'
    BY <1>3, <2>1 DEF Others
  <2> QED BY <2>1, <2>2 DEF Sent, Lists
<1> QED BY <1>1, <1>2, <1>3, <1>4, ComingStays, ArrivedStays, OthersWereSent

LEMMA LatestStep ==
  ASSUME Waits, [Next]_vars
  PROVE  Latest'
<1>1. TypeOK /\ MadeIsKind /\ Coming /\ Arrived
  BY DEF Waits, Basics, Latest
<1>2. MadeIsKind'
  BY <1>1, MadeIsKindStep
<1>3. Coming' /\ Arrived'
  <2>1. CASE UNCHANGED vars
    BY <1>1, <2>1, ComingStays, ArrivedStays DEF vars, formVars, Sent, Lists
  <2>2. ASSUME NEW n \in Names, NEW v \in options[n] \cup {Create}, Select(n, v) PROVE Coming' /\ Arrived'
    BY <2>2, SelectLatest
  <2>3. CASE Submit
    BY <2>3, SubmitLatest
  <2>4. CASE Dismiss
    BY <1>1, <2>4, ComingStays, ArrivedStays DEF Dismiss, Sent, Lists
  <2>5. CASE Hidden
    BY <2>5, HiddenLatest
  <2>6. CASE CreateElsewhere
    <3>1. "others" \in upset'
      BY <2>6 DEF CreateElsewhere
    <3> QED BY <3>1, AloneIsUnhurried DEF Coming, Arrived
  <2>7. ASSUME NEW i \in DOMAIN xhr, ServePost(i) PROVE Coming' /\ Arrived'
    BY <2>7, ServePostLatest
  <2>8. ASSUME NEW i \in DOMAIN xhr, ServeList(i) PROVE Coming' /\ Arrived'
    BY <2>8, ServeListLatest
  <2>9. ASSUME NEW i \in DOMAIN xhr, Fail(i) PROVE Coming' /\ Arrived'
    <3>1. "failed" \in upset'
      BY <2>9 DEF Fail
    <3> QED BY <3>1, AloneIsUnhurried DEF Coming, Arrived
  <2>10. ASSUME NEW i \in DOMAIN xhr, Created(i) PROVE Coming' /\ Arrived'
    BY <2>10, CreatedLatest
  <2>11. ASSUME NEW i \in DOMAIN xhr, Refused(i) PROVE Coming' /\ Arrived'
    BY <2>11, RefusedLatest
  <2>12. ASSUME NEW i \in DOMAIN xhr, Reloaded(i) PROVE Coming' /\ Arrived'
    BY <2>12, ReloadedLatest
  <2>13. ASSUME NEW i \in DOMAIN xhr, Details(i) PROVE Coming' /\ Arrived'
    BY <2>13, DetailsLatest
  <2> QED BY <2>1, <2>2, <2>3, <2>4, <2>5, <2>6, <2>7, <2>8, <2>9, <2>10, <2>11, <2>12, <2>13
          DEF Next, Step
<1> QED BY <1>2, <1>3 DEF Latest
-----------------------------------------------------------------------------
(* The details asked for last. *)

ShowsValue(n) ==
  /\ ShowsOf(n) = {} => Settled(n)
  /\ \A i \in ShowsOf(n) : (\A j \in ShowsOf(n) : j <= i) => AsksFor(n, i)

(* The shows of a select, when an answer to something else came and        *)
(* nothing was asked for it.                                               *)
LEMMA ShowsLeft ==
  ASSUME xhr \in Seq(Requests), NEW i \in DOMAIN xhr, NEW more \in Seq(Requests),
         xhr' = RemoveAt(xhr, i) \o more, NEW n, i \notin ShowsOf(n),
         \A k \in DOMAIN more : ~ (more[k].kind = "show" /\ more[k].name = n)
  PROVE  /\ ShowsOf(n)' = {} => ShowsOf(n) = {}
         /\ \A k \in ShowsOf(n)' :
              /\ Before(k, i) \in ShowsOf(n) /\ xhr'[k] = xhr[Before(k, i)]
              /\ (\A j \in ShowsOf(n)' : j <= k) => \A j \in ShowsOf(n) : j <= Before(k, i)
<1>1. /\ xhr' \in Seq(Requests)
      /\ Len(xhr') = Len(xhr) - 1 + Len(more)
      /\ \A k \in 1 .. Len(xhr) - 1 : xhr'[k] = xhr[Before(k, i)]
      /\ \A k \in 1 .. Len(more) : xhr'[Len(xhr) - 1 + k] = more[k]
  <2> DEFINE t == RemoveAt(xhr, i) \o more
  <2>1. /\ t \in Seq(Requests)
        /\ Len(t) = Len(xhr) - 1 + Len(more)
        /\ \A k \in 1 .. Len(xhr) - 1 : t[k] = xhr[Before(k, i)]
        /\ \A k \in 1 .. Len(more) : t[Len(xhr) - 1 + k] = more[k]
    BY Removed, Zenon
  <2>2. xhr' = t
    OBVIOUS
  <2> HIDE DEF t
  <2> QED BY <2>1, <2>2, Zenon
<1>2. /\ DOMAIN xhr = 1 .. Len(xhr) /\ DOMAIN xhr' = 1 .. Len(xhr')
      /\ DOMAIN more = 1 .. Len(more) /\ Len(xhr) \in Nat /\ Len(more) \in Nat
  BY <1>1, LenProperties
<1>3. ASSUME NEW j \in ShowsOf(n)
      PROVE  \E k \in ShowsOf(n)' : Before(k, i) = j /\ k \in 1 .. Len(xhr) - 1
  <2>1. j \in 1 .. Len(xhr) /\ j # i /\ xhr[j].kind = "show" /\ xhr[j].name = n
    BY <1>2 DEF ShowsOf
  <2>2. PICK k \in 1 .. Len(xhr) - 1 : Before(k, i) = j
    <3>1. CASE j < i
      <4>1. j \in 1 .. Len(xhr) - 1 /\ Before(j, i) = j
        BY <1>2, <2>1, <3>1 DEF Before
      <4> QED BY <4>1
    <3>2. CASE ~ (j < i)
      <4>1. j - 1 \in 1 .. Len(xhr) - 1 /\ Before(j - 1, i) = j
        BY <1>2, <2>1, <3>2 DEF Before
      <4> QED BY <4>1
    <3> QED BY <3>1, <3>2
  <2>3. k \in DOMAIN xhr' /\ xhr'[k] = xhr[j]
    BY <1>1, <1>2, <2>2
  <2> QED BY <2>1, <2>2, <2>3 DEF ShowsOf
<1>4. ASSUME NEW k \in ShowsOf(n)'
      PROVE  k \in 1 .. Len(xhr) - 1 /\ Before(k, i) \in ShowsOf(n) /\ xhr'[k] = xhr[Before(k, i)]
  <2>1. k \in DOMAIN xhr' /\ xhr'[k].kind = "show" /\ xhr'[k].name = n
    BY DEF ShowsOf
  <2>2. k \in 1 .. Len(xhr) - 1
    <3>1. SUFFICES ASSUME k \notin 1 .. Len(xhr) - 1 PROVE FALSE
      OBVIOUS
    <3>2. PICK j \in 1 .. Len(more) : Len(xhr) - 1 + j = k
      <4>1. k - (Len(xhr) - 1) \in 1 .. Len(more) /\ Len(xhr) - 1 + (k - (Len(xhr) - 1)) = k
        BY <1>1, <1>2, <2>1, <3>1
      <4> QED BY <4>1
    <3> QED BY <1>1, <1>2, <2>1, <3>2
  <2>3. Before(k, i) \in DOMAIN xhr
    BY <1>2, <2>2 DEF Before
  <2> QED BY <1>1, <2>1, <2>2, <2>3 DEF ShowsOf
<1>5. ASSUME NEW k \in ShowsOf(n)', \A j \in ShowsOf(n)' : j <= k, NEW j \in ShowsOf(n)
      PROVE  j <= Before(k, i)
  <2>1. PICK l \in ShowsOf(n)' : Before(l, i) = j /\ l \in 1 .. Len(xhr) - 1
    BY <1>3
  <2>2. l <= k /\ k \in 1 .. Len(xhr) - 1
    BY <1>4, <1>5
  <2> QED BY <1>2, <2>1, <2>2 DEF Before
<1> QED BY <1>3, <1>4, <1>5

LEMMA ShowsValueLeft ==
  ASSUME TypeOK, NEW i \in DOMAIN xhr, NEW more \in Seq(Requests),
         xhr' = RemoveAt(xhr, i) \o more, NEW n, i \notin ShowsOf(n),
         \A k \in DOMAIN more : ~ (more[k].kind = "show" /\ more[k].name = n),
         ShowsValue(n), value'[n] = value[n], display'[n] = display[n]
  PROVE  ShowsValue(n)'
<1>1. /\ ShowsOf(n)' = {} => ShowsOf(n) = {}
      /\ \A k \in ShowsOf(n)' :
           /\ Before(k, i) \in ShowsOf(n) /\ xhr'[k] = xhr[Before(k, i)]
           /\ (\A j \in ShowsOf(n)' : j <= k) => \A j \in ShowsOf(n) : j <= Before(k, i)
  BY ShowsLeft DEF TypeOK
<1>2. Settled(n) => Settled(n)'
  BY DEF Settled
<1>3. ASSUME NEW k \in ShowsOf(n)', \A j \in ShowsOf(n)' : j <= k PROVE AsksFor(n, k)'
  BY <1>1, <1>3 DEF ShowsValue, AsksFor
<1> QED BY <1>1, <1>2, <1>3 DEF ShowsValue

(* ... and when one was replaced by its answer, or nothing was.            *)
LEMMA ShowsValueStays ==
  ASSUME NEW n, ShowsOf(n)' = ShowsOf(n), \A i \in ShowsOf(n) : xhr'[i] = xhr[i],
         ShowsValue(n), value'[n] = value[n], display'[n] = display[n]
  PROVE  ShowsValue(n)'
<1>1. Settled(n) => Settled(n)'
  BY DEF Settled
<1> QED BY <1>1 DEF ShowsValue, AsksFor

LEMMA AtEnd ==
  ASSUME NEW n \in Nat, NEW k \in 1 .. n, n <= k
  PROVE  k = n
OBVIOUS

(* ... and when one was sent for it, for the value it has now.             *)
LEMMA ShowsValueSent ==
  ASSUME xhr' \in Seq(Requests), Len(xhr') # 0,
         NEW n, NEW v \in Rows, xhr'[Len(xhr')] = ShowOf(n, v.id), value'[n] = v
  PROVE  ShowsValue(n)'
<1>1. DOMAIN xhr' = 1 .. Len(xhr') /\ Len(xhr') \in Nat
  BY LenProperties
<1>2. Len(xhr') \in ShowsOf(n)'
  BY <1>1 DEF ShowsOf, ShowOf
<1>3. ASSUME NEW k \in ShowsOf(n)', \A j \in ShowsOf(n)' : j <= k PROVE k = Len(xhr')
  <2>1. k \in 1 .. Len(xhr')
    BY <1>1 DEF ShowsOf
  <2>2. Len(xhr') <= k
    BY <1>2, <1>3
  <2> QED BY <1>1, <2>1, <2>2, AtEnd
<1>4. ASSUME NEW k \in ShowsOf(n)', \A j \in ShowsOf(n)' : j <= k PROVE AsksFor(n, k)'
  <2>1. xhr'[k] = ShowOf(n, v.id)
    BY <1>3, <1>4
  <2>2. xhr'[k].id = v.id
    BY <2>1 DEF ShowOf
  <2>3. v # Blank /\ v # Create
    BY NotARow
  <2> QED BY <2>2, <2>3 DEF AsksFor, NonRows
<1> QED BY <1>2, <1>4 DEF ShowsValue

LEMMA LastShownDef == LastShown <=> (InOrder => \A n \in Names : ShowsValue(n))
BY DEF LastShown, ShowsValue

LEMMA OrderBefore ==
  /\ upset \subseteq upset' /\ InOrder' => InOrder
  /\ InOrder' => "overtaken" \notin upset' /\ "failed" \notin upset' /\ "emptied" \notin upset'
BY DEF InOrder

LEMMA ShowsStay ==
  ASSUME LastShown, UNCHANGED <<xhr, value, display>>, upset \subseteq upset'
  PROVE  LastShown'
<1>1. ASSUME InOrder', NEW n \in Names PROVE ShowsValue(n)'
  <2>1. ShowsValue(n)
    BY <1>1, LastShownDef, OrderBefore
  <2>2. ShowsOf(n)' = ShowsOf(n)
    BY DEF ShowsOf
  <2> QED BY <2>1, <2>2, ShowsValueStays
<1> QED BY <1>1 DEF LastShown, ShowsValue

LEMMA SelectShows ==
  ASSUME Basics, LastShown, NEW m \in Names, NEW v \in options[m] \cup {Create}, Select(m, v)
  PROVE  LastShown'
<1>1. TypeOK /\ Answers
  BY DEF Basics
<1>2. /\ v \in NonRows => xhr' = xhr
      /\ v \notin NonRows => v \in Rows /\ xhr' = xhr \o <<ShowOf(m, v.id)>>
      /\ xhr' \in Seq(Requests)
  BY <1>1, SelectSent
<1>3. /\ upset \subseteq upset' /\ value' = [value EXCEPT ![m] = v]
      /\ v \in NonRows => display' = [display EXCEPT ![m] = Blank]
      /\ v \notin NonRows => display' = display
  BY DEF Select
<1>4. ASSUME InOrder', NEW n \in Names PROVE ShowsValue(n)'
  <2>1. ShowsValue(n)
    BY <1>3, <1>4, LastShownDef, OrderBefore
  <2>2. CASE v \in NonRows
    <3>1. ShowsOf(n)' = ShowsOf(n) /\ \A i \in ShowsOf(n) : xhr'[i] = xhr[i]
      BY <1>2, <2>2 DEF ShowsOf
    <3>2. CASE n = m
      <4>1. ShowsOf(n) = {}
        BY <1>4, <2>2, <3>2, OrderBefore DEF Select, Upset
      <4>2. Settled(n)'
        BY <1>1, <1>3, <2>2, <3>2, NotARow DEF TypeOK, Settled, NonRows
      <4> QED BY <3>1, <4>1, <4>2 DEF ShowsValue
    <3>3. CASE n # m
      BY <1>1, <1>3, <2>1, <2>2, <3>1, <3>3, ShowsValueStays DEF TypeOK
    <3> QED BY <3>2, <3>3
  <2>3. CASE v \notin NonRows
    <3>1. /\ Len(xhr') = Len(xhr) + 1 /\ Len(xhr) \in Nat
          /\ \A k \in DOMAIN xhr : xhr'[k] = xhr[k]
          /\ xhr'[Len(xhr) + 1] = ShowOf(m, v.id)
      BY <1>1, <1>2, <2>3, ShowOfType, SentMore, LenProperties DEF TypeOK
    <3>2. CASE n = m
      BY <1>1, <1>2, <1>3, <3>1, <3>2, ShowsValueSent DEF TypeOK
    <3>3. CASE n # m
      <4>1. ShowOf(m, v.id).name = m
        BY DEF ShowOf
      <4>2. DOMAIN xhr' = DOMAIN xhr \cup {Len(xhr) + 1}
        BY <1>1, <1>2, <3>1, LenProperties DEF TypeOK
      <4>3. ShowsOf(n)' = ShowsOf(n) /\ \A i \in ShowsOf(n) : xhr'[i] = xhr[i]
        BY <3>1, <3>3, <4>1, <4>2 DEF ShowsOf
      <4> QED BY <1>1, <1>3, <2>1, <2>3, <3>3, <4>3, ShowsValueStays DEF TypeOK
    <3> QED BY <3>2, <3>3
  <2> QED BY <2>2, <2>3
<1> QED BY <1>4 DEF LastShown, ShowsValue

LEMMA SubmitShows ==
  ASSUME Basics, LastShown, Submit
  PROVE  LastShown'
<1>1. TypeOK
  BY DEF Basics
<1>2. /\ xhr' \in Seq(Requests) /\ Len(xhr') = Len(xhr) + 1
      /\ \A k \in DOMAIN xhr : xhr'[k] = xhr[k]
      /\ xhr'[Len(xhr) + 1] = NewPost
  BY <1>1, SubmitSent, KindOfRequest, SentMore DEF TypeOK
<1>3. DOMAIN xhr' = DOMAIN xhr \cup {Len(xhr) + 1}
  BY <1>1, <1>2, LenProperties DEF TypeOK
<1>4. NewPost.kind = "post"
  BY DEF NewPost
<1>5. upset \subseteq upset' /\ value' = value /\ display' = display
  BY DEF Submit, formVars
<1>6. ASSUME InOrder', NEW n \in Names PROVE ShowsValue(n)'
  <2>1. ShowsValue(n)
    BY <1>5, <1>6, LastShownDef, OrderBefore
  <2>2. ShowsOf(n)' = ShowsOf(n) /\ \A i \in ShowsOf(n) : xhr'[i] = xhr[i]
    BY <1>2, <1>3, <1>4 DEF ShowsOf
  <2> QED BY <1>5, <2>1, <2>2, ShowsValueStays
<1> QED BY <1>6 DEF LastShown, ShowsValue

LEMMA HiddenShows ==
  ASSUME Basics, LastShown, Hidden
  PROVE  LastShown'
<1>1. TypeOK /\ Answers
  BY DEF Basics
<1>2. UNCHANGED <<display, xhr, upset>> /\ value' = [n \in Names |-> Reset(n)]
  BY DEF Hidden
<1>3. ASSUME InOrder', NEW n \in Names PROVE ShowsValue(n)'
  <2>1. ShowsValue(n) /\ ShowsOf(n)' = ShowsOf(n)
    BY <1>2, <1>3, LastShownDef, OrderBefore DEF ShowsOf
  <2>2. CASE value[n] # Create
    BY <1>2, <2>1, <2>2, ShowsValueStays DEF Reset
  <2>3. CASE value[n] = Create
    <3>1. value'[n] = Blank
      BY <1>2, <2>3 DEF Reset
    <3>2. Settled(n) => Settled(n)'
      BY <1>2, <2>3, <3>1 DEF Settled, NonRows
    <3>3. ASSUME NEW i \in ShowsOf(n), \A j \in ShowsOf(n) : j <= i PROVE FALSE
      BY <2>1, <2>3, <3>3 DEF ShowsValue, AsksFor, NonRows
    <3> QED BY <2>1, <3>2, <3>3 DEF ShowsValue
  <2> QED BY <2>2, <2>3
<1> QED BY <1>3 DEF LastShown, ShowsValue

LEMMA ServedShows ==
  ASSUME TypeOK, LastShown, NEW i \in DOMAIN xhr, NEW r \in Requests, xhr' = [xhr EXCEPT ![i] = r],
         xhr[i].kind # "show", r.kind # "show", UNCHANGED <<value, display, upset>>
  PROVE  LastShown'
<1>1. ASSUME InOrder', NEW n \in Names PROVE ShowsValue(n)'
  <2>1. ShowsValue(n)
    BY <1>1, LastShownDef, OrderBefore
  <2>2. /\ DOMAIN xhr' = DOMAIN xhr /\ xhr'[i] = r
        /\ \A j \in DOMAIN xhr : j # i => xhr'[j] = xhr[j]
    BY Replaced DEF TypeOK
  <2>3. ShowsOf(n)' = ShowsOf(n) /\ \A j \in ShowsOf(n) : xhr'[j] = xhr[j]
    BY <2>2 DEF ShowsOf
  <2> QED BY <2>1, <2>3, ShowsValueStays
<1> QED BY <1>1 DEF LastShown, ShowsValue

LEMMA AnsweredShows ==
  ASSUME TypeOK, LastShown, NEW i \in DOMAIN xhr, xhr[i].kind # "show",
         NEW more \in Seq(Requests), xhr' = RemoveAt(xhr, i) \o more,
         \A k \in DOMAIN more : more[k].kind # "show",
         UNCHANGED <<value, display, upset>>
  PROVE  LastShown'
<1>1. ASSUME InOrder', NEW n \in Names PROVE ShowsValue(n)'
  <2>1. ShowsValue(n) /\ i \notin ShowsOf(n)
    BY <1>1, LastShownDef, OrderBefore DEF ShowsOf
  <2> QED BY <2>1, ShowsValueLeft
<1> QED BY <1>1 DEF LastShown, ShowsValue

LEMMA ReloadedShows ==
  ASSUME Basics, LastShown, NEW i, Reloaded(i)
  PROVE  LastShown'
<1>1. TypeOK /\ Answers
  BY DEF Basics
<1> DEFINE v == Highest(xhr[i].data)
<1>2. /\ i \in Lists /\ xhr' \in Seq(Requests)
      /\ xhr[i].data # {} => v \in Rows /\ xhr' = RemoveAt(xhr, i) \o <<ShowOf(caller, v.id)>>
  BY <1>1, ReloadedSent
<1>3. i \in DOMAIN xhr /\ xhr[i].kind = "list" /\ caller \in Names
  BY <1>1, <1>2, ListFacts
<1>4. upset \subseteq upset' /\ value' = [value EXCEPT ![caller] = v] /\ display' = display
  BY DEF Reloaded
<1>5. ASSUME InOrder', NEW n \in Names PROVE ShowsValue(n)'
  <2>1. ShowsValue(n) /\ i \notin ShowsOf(n)
    BY <1>3, <1>4, <1>5, LastShownDef, OrderBefore DEF ShowsOf
  <2>2. xhr[i].data # {}
    BY <1>5, OrderBefore DEF Reloaded, Upset
  <2> DEFINE show == ShowOf(caller, v.id)
             more == <<show>>
  <2>3. show \in Requests /\ show.kind = "show" /\ show.name = caller
    BY <1>2, <1>3, <2>2, ShowOfType
  <2>4. xhr' = RemoveAt(xhr, i) \o more
    BY <1>2, <2>2
  <2> HIDE DEF show
  <2>5. more \in Seq(Requests) /\ Len(more) = 1 /\ more[1] = show /\ DOMAIN more = {1}
    BY <2>3
  <2> HIDE DEF more
  <2>6. CASE n = caller
    <3>1. Len(xhr') = Len(xhr) - 1 + Len(more) /\ xhr'[Len(xhr) - 1 + 1] = more[1]
      <4>1. /\ Len(xhr') = Len(xhr) - 1 + Len(more)
            /\ \A k \in 1 .. Len(more) : xhr'[Len(xhr) - 1 + k] = more[k]
        <5>1. xhr \in Seq(Requests)
          BY <1>1 DEF TypeOK
        <5> QED BY <1>3, <2>4, <2>5, <5>1, Removed
      <4>2. 1 \in 1 .. Len(more)
        BY <2>5
      <4> QED BY <4>1, <4>2
    <3>2. Len(xhr) \in Nat /\ Len(xhr) # 0
      BY <1>1, <1>3, LenProperties DEF TypeOK
    <3>3. Len(xhr') # 0 /\ xhr'[Len(xhr')] = show
      BY <2>5, <3>1, <3>2
    <3>4. value'[n] = v
      BY <1>1, <1>3, <1>4, <2>6 DEF TypeOK
    <3> HIDE DEF v
    <3> QED BY <1>2, <2>2, <2>6, <3>3, <3>4, ShowsValueSent DEF show
  <2>7. CASE n # caller
    <3>1. value'[n] = value[n] /\ display'[n] = display[n]
      BY <1>1, <1>4, <2>7 DEF TypeOK
    <3>2. \A k \in DOMAIN more : ~ (more[k].kind = "show" /\ more[k].name = n)
      BY <2>3, <2>5, <2>7
    <3> QED BY <1>1, <1>3, <2>1, <2>4, <2>5, <3>1, <3>2, ShowsValueLeft
  <2> QED BY <2>6, <2>7
<1> QED BY <1>5 DEF LastShown, ShowsValue

LEMMA DetailsShows ==
  ASSUME Basics, LastShown, NEW i, Details(i)
  PROVE  LastShown'
<1>1. TypeOK /\ Answers
  BY DEF Basics
<1>7. Keys
  BY DEF Basics
<1>2. /\ i \in DOMAIN xhr /\ xhr[i].kind = "show" /\ xhr' = RemoveAt(xhr, i)
      /\ upset \subseteq upset' /\ value' = value /\ rows' = rows
      /\ \/ \E row \in Found(i) : display' = ShownFor(i, row)
         \/ Found(i) = {} /\ display' = display
  BY DEF Details
<1>3. xhr[i].name \in Names
  BY <1>1, <1>2, ShowFacts
<1>6. ASSUME NEW n \in Names, n # xhr[i].name PROVE display'[n] = display[n]
  BY <1>1, <1>2, <1>6 DEF TypeOK, ShownFor
<1>4. xhr' = RemoveAt(xhr, i) \o <<>> /\ <<>> \in Seq(Requests) /\ DOMAIN <<>> = {}
  BY <1>1, <1>2, SentOneLess, EmptySeq DEF TypeOK
<1>5. ASSUME InOrder', NEW n \in Names PROVE ShowsValue(n)'
  <2>1. ShowsValue(n)
    BY <1>2, <1>5, LastShownDef, OrderBefore
  <2>2. CASE n # xhr[i].name
    <3>1. i \notin ShowsOf(n) /\ value'[n] = value[n] /\ display'[n] = display[n]
      BY <1>2, <1>6, <2>2 DEF ShowsOf
    <3> QED BY <1>1, <1>2, <1>4, <2>1, <3>1, ShowsValueLeft
  <2>3. CASE n = xhr[i].name
    <3>1. i \in ShowsOf(n) /\ \A j \in ShowsOf(n) : ~ (j < i)
      BY <1>2, <1>5, <2>3, OrderBefore DEF ShowsOf, Details, Upset
    <3>2. /\ Len(xhr') = Len(xhr) - 1 + 0
          /\ \A k \in 1 .. Len(xhr) - 1 : xhr'[k] = xhr[Before(k, i)]
      BY <1>1, <1>2, <1>4, Removed, EmptySeq DEF TypeOK
    <3>3. DOMAIN xhr = 1 .. Len(xhr) /\ Len(xhr) \in Nat /\ DOMAIN xhr' = 1 .. Len(xhr) - 1
      <4>1. xhr' \in Seq(Requests)
        BY <1>1, <1>2, SentOneLess DEF TypeOK
      <4> QED BY <1>1, <3>2, <4>1, LenProperties DEF TypeOK
    <3>4. ASSUME NEW k \in ShowsOf(n)'
          PROVE  k \in 1 .. Len(xhr) - 1 /\ Before(k, i) \in ShowsOf(n) /\ xhr'[k] = xhr[Before(k, i)]
                 /\ i <= Before(k, i)
      <4>1. k \in 1 .. Len(xhr) - 1 /\ xhr'[k].kind = "show" /\ xhr'[k].name = n
        BY <3>3 DEF ShowsOf
      <4>2. Before(k, i) \in DOMAIN xhr /\ xhr'[k] = xhr[Before(k, i)]
        BY <3>2, <3>3, <4>1 DEF Before
      <4>3. Before(k, i) \in ShowsOf(n)
        BY <4>1, <4>2 DEF ShowsOf
      <4>4. i \in Nat /\ Before(k, i) \in Nat
        BY <1>2, <3>3, <4>2
      <4> QED BY <3>1, <4>1, <4>2, <4>3, <4>4
    <3>5. ASSUME NEW j \in ShowsOf(n), j # i PROVE \E k \in ShowsOf(n)' : Before(k, i) = j
      <4>1. j \in 1 .. Len(xhr) /\ i \in 1 .. Len(xhr) /\ i < j /\ xhr[j].kind = "show" /\ xhr[j].name = n
        BY <1>2, <3>1, <3>3, <3>5 DEF ShowsOf
      <4>2. j - 1 \in 1 .. Len(xhr) - 1 /\ Before(j - 1, i) = j
        BY <3>3, <4>1 DEF Before
      <4>3. j - 1 \in ShowsOf(n)'
        BY <3>2, <3>3, <4>1, <4>2 DEF ShowsOf
      <4> QED BY <4>2, <4>3
    <3>6. CASE ShowsOf(n)' = {}
      <4>1. \A j \in ShowsOf(n) : j = i
        BY <3>5, <3>6
      <4>2. i \in Nat
        BY <1>2, <3>3
      <4>3. value[n] \notin NonRows /\ xhr[i].id = value[n].id
        BY <2>1, <3>1, <4>1, <4>2 DEF ShowsValue, AsksFor
      <4>4. ASSUME value[n].table = FormName(n) PROVE display'[n] = value[n]
        <5>1. value[n] \in rows /\ value[n] \in Found(i)
          BY <1>1, <2>3, <4>3, <4>4 DEF TypeOK, Found
        <5>2. PICK row \in Found(i) : display' = ShownFor(i, row)
          BY <1>2, <5>1
        <5>3. row = value[n]
          BY <1>7, <2>3, <4>3, <4>4, <5>1, <5>2 DEF Keys, Found
        <5>4. display'[n] = row
          BY <1>1, <2>3, <5>2 DEF TypeOK, ShownFor
        <5> QED BY <5>3, <5>4
      <4>5. Settled(n)'
        BY <1>2, <4>3, <4>4 DEF Settled
      <4> QED BY <3>6, <4>5 DEF ShowsValue
    <3>7. ASSUME NEW k \in ShowsOf(n)', \A j \in ShowsOf(n)' : j <= k PROVE AsksFor(n, k)'
      <4>1. ASSUME NEW j \in ShowsOf(n) PROVE j <= Before(k, i)
        <5>1. CASE j = i
          BY <3>4, <5>1
        <5>2. CASE j # i
          <6>1. PICK l \in ShowsOf(n)' : Before(l, i) = j
            BY <3>5, <5>2
          <6>2. l <= k /\ l \in 1 .. Len(xhr) - 1 /\ k \in 1 .. Len(xhr) - 1
            BY <3>4, <3>7
          <6>3. i \in Nat
            BY <1>2, <3>3
          <6> QED BY <3>3, <6>1, <6>2, <6>3 DEF Before
        <5> QED BY <5>1, <5>2
      <4>2. AsksFor(n, Before(k, i))
        BY <2>1, <3>4, <4>1 DEF ShowsValue
      <4> QED BY <1>2, <3>4, <4>2 DEF AsksFor
    <3> QED BY <3>6, <3>7 DEF ShowsValue
  <2> QED BY <2>2, <2>3
<1> QED BY <1>5 DEF LastShown, ShowsValue

LEMMA LastShownStep ==
  ASSUME Basics, LastShown, [Next]_vars
  PROVE  LastShown'
<1>1. TypeOK /\ Answers
  BY DEF Basics
<1>2. CASE UNCHANGED vars
  BY <1>2, ShowsStay DEF vars, formVars
<1>3. ASSUME NEW n \in Names, NEW v \in options[n] \cup {Create}, Select(n, v) PROVE LastShown'
  BY <1>3, SelectShows
<1>4. CASE Submit
  BY <1>4, SubmitShows
<1>5. CASE Dismiss
  BY <1>5, ShowsStay DEF Dismiss
<1>6. CASE Hidden
  BY <1>6, HiddenShows
<1>7. CASE CreateElsewhere
  BY <1>7, ShowsStay DEF CreateElsewhere, formVars
<1>8. ASSUME NEW i \in DOMAIN xhr, ServePost(i) PROVE LastShown'
  <2>1. PICK r \in PostRequests : xhr' = [xhr EXCEPT ![i] = r]
    BY <1>1, <1>8, ServePostSent
  <2>2. r \in Requests /\ r.kind = "post" /\ xhr[i].kind = "post"
    BY <1>1, <1>8, KindOfRequest, PostFacts DEF ServePost
  <2>3. UNCHANGED <<value, display, upset>>
    BY <1>8 DEF ServePost, formVars
  <2> QED BY <1>1, <2>1, <2>2, <2>3, ServedShows
<1>9. ASSUME NEW i \in DOMAIN xhr, ServeList(i) PROVE LastShown'
  <2>1. PICK r \in ListRequests : xhr' = [xhr EXCEPT ![i] = r]
    BY <1>1, <1>9, ServeListSent
  <2>2. r \in Requests /\ r.kind = "list" /\ xhr[i].kind = "list"
    BY <1>1, <1>9, KindOfRequest, ListFacts DEF ServeList
  <2>3. UNCHANGED <<value, display, upset>>
    BY <1>9 DEF ServeList, formVars
  <2> QED BY <1>1, <2>1, <2>2, <2>3, ServedShows
<1>10. ASSUME NEW i \in DOMAIN xhr, Fail(i) PROVE LastShown'
  <2>1. "failed" \in upset'
    BY <1>10 DEF Fail
  <2> QED BY <2>1, OrderBefore DEF LastShown
<1>11. ASSUME NEW i \in DOMAIN xhr, Created(i) PROVE LastShown'
  <2>1. xhr' = RemoveAt(xhr, i) \o ListsFor(xhr[i].table) /\ xhr[i].kind = "post"
    BY <1>1, <1>11, CreatedSent, PostFacts
  <2>2. xhr[i].table \in Tables /\ caller \in Names
    BY <1>1, <1>11, PostFacts DEF Created
  <2>3. /\ ListsFor(xhr[i].table) \in Seq(Requests)
        /\ \A k \in DOMAIN ListsFor(xhr[i].table) : ListsFor(xhr[i].table)[k] = ListFor(xhr[i].table)
    BY <2>2, ListsForType
  <2>4. ListFor(xhr[i].table).kind = "list"
    BY DEF ListFor
  <2>5. UNCHANGED <<value, display, upset>>
    BY <1>11 DEF Created
  <2> QED BY <1>1, <2>1, <2>3, <2>4, <2>5, AnsweredShows
<1>12. ASSUME NEW i \in DOMAIN xhr, Refused(i) PROVE LastShown'
  <2>1. xhr[i].kind = "post" /\ xhr' = RemoveAt(xhr, i)
    BY <1>1, <1>12, PostFacts DEF Refused
  <2>2. xhr' = RemoveAt(xhr, i) \o <<>> /\ <<>> \in Seq(Requests) /\ DOMAIN <<>> = {}
    BY <1>1, <2>1, SentOneLess, EmptySeq DEF TypeOK
  <2>3. UNCHANGED <<value, display, upset>>
    BY <1>12 DEF Refused
  <2> QED BY <1>1, <2>1, <2>2, <2>3, AnsweredShows
<1>13. ASSUME NEW i \in DOMAIN xhr, Reloaded(i) PROVE LastShown'
  BY <1>13, ReloadedShows
<1>14. ASSUME NEW i \in DOMAIN xhr, Details(i) PROVE LastShown'
  BY <1>14, DetailsShows
<1> QED BY <1>2, <1>3, <1>4, <1>5, <1>6, <1>7, <1>8, <1>9, <1>10, <1>11, <1>12, <1>13, <1>14
        DEF Next, Step

LEMMA BasicsStep ==
  ASSUME Basics, [Next]_vars
  PROVE  Basics'
<1>1. CASE UNCHANGED vars
  BY <1>1 DEF vars, formVars, Basics, TypeOK, Answers, Answerable, Sent, Keys, Modal, CreatesInModal
<1>2. ASSUME NEW n \in Names, NEW v \in options[n] \cup {Create}, Select(n, v) PROVE Basics'
  BY <1>2, SelectBasics
<1>3. CASE Submit
  BY <1>3, SubmitBasics
<1>4. CASE Dismiss
  BY <1>4, DismissBasics
<1>5. CASE Hidden
  BY <1>5, HiddenBasics
<1>6. CASE CreateElsewhere
  BY <1>6, CreateElsewhereBasics
<1>7. ASSUME NEW i \in DOMAIN xhr,
             ServePost(i) \/ ServeList(i) \/ Fail(i) \/ Created(i) \/ Refused(i) \/ Reloaded(i) \/ Details(i)
      PROVE  Basics'
  BY <1>7, ServePostBasics, ServeListBasics, FailBasics, CreatedBasics, RefusedBasics,
     ReloadedBasics, DetailsBasics
<1> QED BY <1>1, <1>2, <1>3, <1>4, <1>5, <1>6, <1>7 DEF Next, Step
-----------------------------------------------------------------------------
(* The form when it is loaded. *)

Asked == {ShowOf(n, value[n].id) : n \in {m \in Names : value[m] # Blank}}

LEMMA AskedFinite == IsFiniteSet(Asked)
<1> DEFINE some == {m \in Names : value[m] # Blank}
           f == [n \in some |-> ShowOf(n, value[n].id)]
<1>1. IsFiniteSet(some)
  <2>1. some \subseteq AllNames
    BY NamesAssumption
  <2> QED BY <2>1, AllNamesFinite, FS_Subset
<1>2. f \in Surjection(some, Asked)
  BY DEF Surjection, Asked
<1> QED BY <1>1, <1>2, FS_Surjection

(* Every row on the form is asked for once. *)
LEMMA AskedOnce ==
  ASSUME xhr \in SetToSeqs(Asked), Asked \subseteq Requests
  PROVE  xhr \in Seq(Requests) /\ Sent = Asked
<1> DEFINE n == Cardinality(Asked)
<1>1. n \in Nat
  BY AskedFinite, FS_CardinalityType
<1>2. xhr \in [1 .. n -> Asked] /\ \A i, j \in 1 .. n : i # j => xhr[i] # xhr[j]
  BY DEF SetToSeqs
<1>3. xhr \in Seq(Requests)
  BY <1>1, <1>2
<1>4. IsFiniteSet(1 .. n) /\ Cardinality(1 .. n) = n
  BY <1>1, FS_Interval
<1>5. xhr \in Injection(1 .. n, Asked)
  BY <1>2 DEF Injection, IsInjective
<1>6. xhr \in Surjection(1 .. n, Asked)
  BY <1>4, <1>5, AskedFinite, FS_Injection
<1>7. \A r \in Asked : \E i \in 1 .. n : xhr[i] = r
  BY <1>6 DEF Surjection
<1>8. DOMAIN xhr = 1 .. n
  BY <1>2
<1> QED BY <1>2, <1>3, <1>7, <1>8 DEF Sent

LEMMA InitIInv ==
  ASSUME Init
  PROVE  IInv
<1>1. /\ rows = First /\ First \subseteq Rows /\ caller = None /\ modal = None /\ made = NoneMade
      /\ fading = FALSE /\ receiver = FALSE /\ errors = {} /\ upset = {}
      /\ options = [n \in Names |-> {r \in First : OfKind(r, n)} \cup {Blank}]
      /\ value \in [Names -> First \cup {Blank}] /\ \A n \in Names : value[n] \in options[n]
      /\ display = [n \in Names |-> Blank]
      /\ xhr \in SetToSeqs(Asked)
  BY FirstAssumption DEF Init, Asked
<1>2. \A r \in Asked : /\ r \in ShowRequests /\ r.kind = "show"
                       /\ r.name \in Names /\ value[r.name] \in Rows /\ r.id = value[r.name].id
  <2> SUFFICES ASSUME NEW n \in Names, value[n] # Blank
               PROVE  /\ ShowOf(n, value[n].id) \in ShowRequests
                      /\ ShowOf(n, value[n].id).kind = "show"
                      /\ ShowOf(n, value[n].id).name = n /\ value[n] \in Rows
                      /\ ShowOf(n, value[n].id).id = value[n].id
    BY DEF Asked
  <2>1. value[n] \in Rows
    BY <1>1
  <2> QED BY <2>1, ShowOfType
<1>3. xhr \in Seq(Requests) /\ Sent = Asked
  BY <1>1, <1>2, KindOfRequest, AskedOnce
<1>4. \A n \in Names : value[n] # Create
  BY <1>1, NotARow
<1>5. Basics
  <2>1. TypeOK
    BY <1>1, <1>3 DEF TypeOK, NonRows
  <2>2. Answers
    BY <1>2, <1>3 DEF Answers, Answerable
  <2>3. Keys /\ Modal /\ CreatesInModal
    BY <1>1, <1>4, FirstAssumption DEF Keys, Modal, CreatesInModal
  <2> QED BY <2>1, <2>2, <2>3 DEF Basics
<1>6. Own
  <2>1. ForCaller
    BY <1>2, <1>3 DEF ForCaller, CallersOwn
  <2>2. OwnKind
    BY <1>1 DEF OwnKind, Kind
  <2> QED BY <2>1, <2>2 DEF Own
<1>7. Posts = {}
  BY <1>2, <1>3 DEF Posts, Sent
<1>8. OneAtATime /\ Latest
  BY <1>1, <1>2, <1>3, <1>7 DEF OneAtATime, Latest, Coming, Brings, MadeIsKind, Arrived
<1>9. LastShown
  <2> SUFFICES ASSUME NEW n \in Names PROVE ShowsValue(n)
    BY LastShownDef
  <2>1. ASSUME ShowsOf(n) = {} PROVE Settled(n)
    <3>1. value[n] = Blank
      <4> SUFFICES ASSUME value[n] # Blank PROVE FALSE
        OBVIOUS
      <4>1. ShowOf(n, value[n].id) \in Sent
        BY <1>3 DEF Asked
      <4> QED BY <2>1, <4>1 DEF Sent, ShowsOf, ShowOf
    <3> QED BY <1>1, <3>1 DEF Settled, NonRows
  <2>2. ASSUME NEW i \in ShowsOf(n) PROVE AsksFor(n, i)
    BY <1>2, <1>3, NotARow DEF ShowsOf, Sent, AsksFor, NonRows
  <2> QED BY <2>1, <2>2 DEF ShowsValue
<1> QED BY <1>5, <1>6, <1>8, <1>9 DEF IInv, Own

LEMMA IInvStep ==
  ASSUME IInv, [Next]_vars
  PROVE  IInv'
<1>1. Waits /\ Basics /\ Own /\ OneAtATime /\ LastShown /\ TypeOK /\ Answers
  BY DEF IInv, Waits, Own, Basics
<1>2. Basics'
  BY <1>1, BasicsStep
<1>3. Own'
  BY <1>1, OwnStep
<1>4. OneAtATime'
  BY <1>1, OneAtATimeStep
<1>5. Latest'
  BY <1>1, LatestStep
<1>6. LastShown'
  BY <1>1, LastShownStep
<1> QED BY <1>2, <1>3, <1>4, <1>5, <1>6 DEF IInv, Own

LEMMA FormInvariant == Spec => []IInv
<1>1. Init => IInv
  BY InitIInv
<1>2. IInv /\ [Next]_vars => IInv'
  BY IInvStep
<1> QED BY <1>1, <1>2, PTL DEF Spec
-----------------------------------------------------------------------------
(* What selects offer, have and show are rows of the database, and what is *)
(* sent and answered has the shape the handlers expect: no answer writes   *)
(* an id that is none.                                                     *)
THEOREM FormTypes == Spec => []TypeOK
<1>1. IInv => TypeOK
  BY DEF IInv, Basics
<1> QED BY <1>1, FormInvariant, PTL

(* A select is at `Create new...' only under its own modal, whatever       *)
(* closes the modal or answers meanwhile.                                  *)
THEOREM OnlyModalsCreate == Spec => []CreatesInModal
<1>1. IInv => CreatesInModal
  BY DEF IInv, Basics
<1> QED BY <1>1, FormInvariant, PTL

(* For a user who waits for a post and its list, selects offer rows of     *)
(* their own kind, although every list goes to current_caller.             *)
THEOREM SelectsOfferOwnKind == Spec => []OwnKind
<1>1. IInv => OwnKind
  BY DEF IInv
<1> QED BY <1>1, FormInvariant, PTL

(* ... and the row created ends up selected, unless others create rows, a  *)
(* request is lost or the page is too short, in whatever order the lists   *)
(* of a modal are served and answered.                                     *)
THEOREM CreatedIsSelected == Spec => []CreatedSelected
<1>1. ASSUME IInv PROVE CreatedSelected
  <2> SUFFICES ASSUME xhr = <<>>, upset \cap {"hasty", "others", "failed"} = {}, made # NoneMade
               PROVE  value[made.name] = made.row \/ Overflow(made.row)
    BY DEF CreatedSelected, Overflow
  <2>1. Lists = {}
    BY DEF Lists
  <2>2. Arrived
    BY <1>1 DEF IInv, Latest
  <2> QED BY <2>1, <2>2 DEF Arrived, Alone
<1>2. IInv => CreatedSelected
  BY <1>1
<1> QED BY <1>2, FormInvariant, PTL

(* Once nothing is under way, the details beside a select are those of its *)
(* row, if none were overtaken or lost and no list came empty.             *)
THEOREM DetailsAreOfTheRow == Spec => []DetailsMatch
<1>1. ASSUME IInv PROVE DetailsMatch
  <2> SUFFICES ASSUME xhr = <<>>, InOrder, NEW n \in Names
               PROVE  Settled(n)
    BY DEF DetailsMatch, InOrder, Settled
  <2>1. ShowsOf(n) = {}
    BY DEF ShowsOf
  <2>2. LastShown
    BY <1>1 DEF IInv
  <2> QED BY <2>1, <2>2 DEF LastShown
<1>2. IInv => DetailsMatch
  BY <1>1
<1> QED BY <1>2, FormInvariant, PTL
=============================================================================
