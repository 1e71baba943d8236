-------------------------- MODULE RtcpPacket_proofs --------------------------
(***************************************************************************)
(* The figures of a sample are those of the packet, for every packet that  *)
(* may arrive.                                                             *)
(*                                                                         *)
(* What is left of the packet is known from how many fields were read: the *)
(* bytes from the next field's place to the last byte that is not blank,   *)
(* or, when an integer lacked a byte, fewer than four bytes that no later  *)
(* integer takes and the next string takes whole.                          *)
(***************************************************************************)
EXTENDS RtcpPacket, FiniteSetTheorems, SequenceTheorems, TLAPS

(* How many fields were read. *)
Count == Len(read)

(* The place of the packet's last byte that is neither zero nor a space. *)
LastByte == Max({0} \cup {i \in DOMAIN packet : packet[i] \notin Blank})

(* The bytes before the place of the field after the k-th. *)
Before == <<1, 2, 4, 8, 12, 16, 20, 24, 28, 32, 33, 36, 40, 44>>

(* The integers that may lack a byte, and whose bytes stay. *)
Lacking == {3, 6, 7, 8, 9, 13}

Outcomes == {"parsing", "sample", "nothing", "raised"}

Basics == /\ packet \in Seq(Bytes)
          /\ rest \in Seq(Bytes)
          /\ read \in Seq(Seq(Bytes))
          /\ Count \in 0..14
          /\ outcome \in Outcomes

Aligned == rest = SubSeq(packet, Before[Count] + 1, LastByte)
Stuck   == Count \in Lacking /\ LastByte < Before[Count] /\ Len(rest) < 4

Position ==
  outcome = "parsing" =>
    /\ Count < 14
    /\ Count = 0 => rest = packet
    /\ Count > 0 => Aligned \/ Stuck

(* What was read of the fields that are looked at. *)
Fields ==
  /\ outcome \in {"parsing", "sample"} /\ Count > 4 =>
       LastByte > 11 /\ read[5] = SubSeq(packet, 9, 12)
  /\ Count > 10 => read[11] = IF LastByte < 33 THEN <<>> ELSE <<packet[33]>>
  /\ Count > 11 => read[12] = SubSeq(packet, 34, IF LastByte < 36 THEN LastByte ELSE 36)
  /\ Count > 13 => read[14] = IF LastByte < 44 THEN <<>> ELSE SubSeq(packet, 41, 44)

Returns ==
  /\ outcome = "sample" => Count = 14
  /\ outcome = "raised" => LastByte < 12
  /\ outcome = "nothing" =>
       Version(Field("headers")) # 2 \/ Number(Field("type")) # 200

IInv == Basics /\ Position /\ Fields /\ Returns
-----------------------------------------------------------------------------
(* A finite set of numbers has a largest one; of two, the smaller. *)

LEMMA MaxExists ==
  ASSUME NEW S \in SUBSET Nat, IsFiniteSet(S), S # {}
  PROVE  \E x \in S : \A y \in S : y <= x
<1> DEFINE Above(x) == {y \in S : x < y}
           T == {Above(x) : x \in S}
           R == StrictSubsetOrdering(S)
<1>1. IsWellFoundedOn(R, SUBSET S)
  BY FS_StrictSubsetOrderingWellFounded, FS_FiniteSubsetsOfFinite
<1>2. T \subseteq SUBSET S /\ T # {}
  OBVIOUS
<1>3. PICK U \in T : \A V \in T : ~ (<<V, U>> \in R)
  <2> HIDE DEF T, R
  <2> QED BY <1>1, <1>2, WFMin
<1>4. PICK x \in S : U = Above(x)
  BY <1>3
<1>5. ASSUME NEW y \in S, x < y PROVE FALSE
  <2>0. y \in Nat /\ x \in Nat
    OBVIOUS
  <2>1. Above(y) \in T /\ Above(y) \subseteq S /\ U \subseteq S
    BY <1>4
  <2>2. Above(y) \subseteq U /\ y \in U /\ y \notin Above(y)
    <3>1. \A z \in Above(y) : z \in Nat /\ y < z
      OBVIOUS
    <3>2. \A z \in Above(y) : x < z
      BY <2>0, <3>1, <1>5
    <3>3. Above(y) \subseteq Above(x)
      BY <3>2
    <3>4. y \in Above(x)
      BY <1>5
    <3>5. y \notin Above(y)
      BY <2>0
    <3> QED BY <3>3, <3>4, <3>5, <1>4
  <2>3. <<Above(y), U>> \in R
    BY <2>1, <2>2 DEF StrictSubsetOrdering
  <2> QED BY <1>3, <2>1, <2>3
<1>6. \A y \in S : y \in Nat /\ ~ (x < y)
  BY <1>5
<1> QED BY <1>6

LEMMA MaxIsMax ==
  ASSUME NEW n \in Nat, NEW S \in SUBSET 0..n, S # {}
  PROVE  Max(S) \in S /\ \A y \in S : y <= Max(S)
<1>1. IsFiniteSet(S)
  <2>1. IsFiniteSet(0..n)
    BY FS_Interval
  <2> QED BY <2>1, FS_Subset
<1>2. \E x \in S : \A y \in S : x >= y
  BY <1>1, MaxExists
<1> QED BY <1>2 DEF Max

LEMMA MinOfTwo ==
  ASSUME NEW a \in Nat, NEW b \in Nat
  PROVE  Min({a, b}) = IF a <= b THEN a ELSE b
<1> DEFINE m == IF a <= b THEN a ELSE b
<1>1. m \in {a, b} /\ \A y \in {a, b} : m <= y
  OBVIOUS
<1>2. \A x \in {a, b} : (\A y \in {a, b} : x <= y) => x = m
  OBVIOUS
<1> HIDE DEF m
<1>3. Min({a, b}) = m
  BY <1>1, <1>2 DEF Min
<1> QED BY <1>3 DEF m

-----------------------------------------------------------------------------
(* What stripping leaves. *)

LEMMA LastOfBytes ==
  ASSUME NEW s \in Seq(Bytes),
         NEW m, m = Max({0} \cup {i \in DOMAIN s : s[i] \notin Blank})
  PROVE  /\ m \in 0..Len(s)
         /\ m > 0 => s[m] \notin Blank
         /\ \A i \in 1..Len(s) : m < i => s[i] \in Blank
<1> DEFINE S == {0} \cup {i \in DOMAIN s : s[i] \notin Blank}
<1>1. Len(s) \in Nat /\ S \in SUBSET 0..Len(s) /\ S # {}
  OBVIOUS
<1>2. m \in S /\ \A y \in S : y <= m
  <2> HIDE DEF S
  <2>1. m = Max(S)
    BY DEF S
  <2> QED BY <1>1, <2>1, MaxIsMax
<1>3. \A i \in 1..Len(s) : i \in S \/ s[i] \in Blank
  OBVIOUS
<1>4. m > 0 => s[m] \notin Blank
  BY <1>1, <1>2
<1> HIDE DEF S
<1> QED BY <1>1, <1>2, <1>3, <1>4

LEMMA LastByteIsLast ==
  ASSUME packet \in Seq(Bytes)
  PROVE  /\ LastByte \in 0..Len(packet)
         /\ LastByte > 0 => packet[LastByte] \notin Blank
         /\ \A i \in 1..Len(packet) : LastByte < i => packet[i] \in Blank
BY LastOfBytes DEF LastByte

LEMMA StrippedShort ==
  ASSUME NEW s \in Seq(Bytes)
  PROVE  Stripped(s) \in Seq(Bytes) /\ Len(Stripped(s)) <= Len(s)
<1> DEFINE m == Max({0} \cup {i \in DOMAIN s : s[i] \notin Blank})
<1>1. m \in 0..Len(s)
  <2> HIDE DEF m
  <2> QED BY LastOfBytes DEF m
<1>2. Stripped(s) = SubSeq(s, 1, m)
  BY DEF Stripped
<1> HIDE DEF m
<1> QED BY <1>1, <1>2

(* Whatever is stripped from the end, the same byte of the packet is last. *)
LEMMA StrippedTail ==
  ASSUME packet \in Seq(Bytes), NEW a \in Nat, NEW b \in {LastByte, Len(packet)}
  PROVE  Stripped(SubSeq(packet, a + 1, b)) = SubSeq(packet, a + 1, LastByte)
<1> DEFINE s == SubSeq(packet, a + 1, b)
           m == Max({0} \cup {i \in DOMAIN s : s[i] \notin Blank})
<1>1. LastByte \in 0..Len(packet) /\ b \in Nat /\ LastByte <= b /\ b <= Len(packet)
  BY LastByteIsLast
<1>2. /\ s \in Seq(Bytes)
      /\ Len(s) = IF a <= b THEN b - a ELSE 0
      /\ \A i \in 1..Len(s) : s[i] = packet[a + i]
  BY <1>1
<1> HIDE DEF s
<1>3. /\ m \in 0..Len(s)
      /\ m > 0 => s[m] \notin Blank
      /\ \A i \in 1..Len(s) : m < i => s[i] \in Blank
  <2> HIDE DEF m
  <2> QED BY <1>2, LastOfBytes DEF m
<1>4. Stripped(s) = SubSeq(s, 1, m)
  BY DEF Stripped
<1> HIDE DEF m
<1>5. m = IF a <= LastByte THEN LastByte - a ELSE 0
  <2>1. CASE LastByte <= a
    <3>1. ASSUME m > 0 PROVE FALSE
      <4>1. s[m] = packet[a + m] /\ a + m \in 1..Len(packet) /\ LastByte < a + m
        BY <1>1, <1>2, <1>3, <2>1, <3>1
      <4> QED BY <4>1, <1>3, <3>1, LastByteIsLast
    <3> QED BY <3>1, <1>1, <1>3, <2>1
  <2>2. CASE a < LastByte
    <3>1. s[LastByte - a] = packet[LastByte] /\ LastByte - a \in 1..Len(s)
      <4>1. LastByte - a \in 1..Len(s) /\ a + (LastByte - a) = LastByte
        BY <1>1, <1>2, <2>2
      <4>2. s[LastByte - a] = packet[a + (LastByte - a)]
        BY <1>2, <4>1
      <4> QED BY <4>1, <4>2
    <3>2. ~ (m < LastByte - a)
      BY <1>1, <1>3, <2>2, <3>1, LastByteIsLast
    <3>3. ASSUME m > LastByte - a PROVE FALSE
      <4>1. s[m] = packet[a + m] /\ a + m \in 1..Len(packet) /\ LastByte < a + m
        BY <1>1, <1>2, <1>3, <2>2, <3>3
      <4> QED BY <4>1, <1>1, <1>3, <2>2, <3>3, LastByteIsLast
    <3> QED BY <1>1, <1>3, <2>2, <3>2, <3>3
  <2> QED BY <1>1, <2>1, <2>2
<1>6. SubSeq(s, 1, m) = SubSeq(packet, a + 1, LastByte)
  BY <1>1, <1>2, <1>5
<1> QED BY <1>4, <1>6 DEF s

-----------------------------------------------------------------------------
(* One field. *)

(* What is taken of the rest, and what is left. *)
Piece(field) == SubSeq(rest, 1, Taken(field))
Left(field)  == Stripped(SubSeq(rest, Taken(field) + 1, Len(rest)))

(* A piece of a piece. *)
LEMMA SubSeqFront ==
  ASSUME NEW s \in Seq(Bytes), NEW a \in Nat, NEW b \in Nat, b <= Len(s),
         NEW n \in Nat, a + n <= b
  PROVE  SubSeq(SubSeq(s, a + 1, b), 1, n) = SubSeq(s, a + 1, a + n)
OBVIOUS

LEMMA SubSeqBack ==
  ASSUME NEW s \in Seq(Bytes), NEW a \in Nat, NEW b \in Nat, b <= Len(s), NEW n \in Nat
  PROVE  SubSeq(SubSeq(s, a + 1, b), n + 1, Len(SubSeq(s, a + 1, b)))
           = SubSeq(s, a + n + 1, b)
OBVIOUS

LEMMA HowMuch ==
  ASSUME rest \in Seq(Bytes), NEW field, field.size \in Nat \ {0}
  PROVE  /\ field.size <= Len(rest) => Taken(field) = field.size
         /\ Len(rest) < field.size /\ field.integer => Taken(field) = 0
         /\ Len(rest) < field.size /\ ~ field.integer => Taken(field) = Len(rest)
         /\ Taken(field) \in 0..Len(rest)
<1>1. field.size \in Nat /\ Len(rest) \in Nat
  OBVIOUS
<1>2. Min({field.size, Len(rest)}) = IF field.size <= Len(rest) THEN field.size ELSE Len(rest)
  BY <1>1, MinOfTwo
<1> QED BY <1>1, <1>2 DEF Taken

LEMMA PieceTypes ==
  ASSUME rest \in Seq(Bytes), NEW field, field.size \in Nat \ {0}
  PROVE  Piece(field) \in Seq(Bytes) /\ Left(field) \in Seq(Bytes)
<1>1. Taken(field) \in 0..Len(rest)
  BY HowMuch
<1>2. SubSeq(rest, Taken(field) + 1, Len(rest)) \in Seq(Bytes)
  BY <1>1
<1>3. Left(field) \in Seq(Bytes)
  BY <1>2, StrippedShort DEF Left
<1> QED BY <1>1, <1>3 DEF Piece

(* A field at its place. *)
LEMMA TakeAligned ==
  ASSUME packet \in Seq(Bytes), rest \in Seq(Bytes), NEW field, field.size \in Nat \ {0},
         NEW a \in Nat, NEW b \in {LastByte, Len(packet)},
         rest = SubSeq(packet, a + 1, b)
  PROVE  /\ a + field.size <= b =>
              /\ Piece(field) = SubSeq(packet, a + 1, a + field.size)
              /\ Left(field) = SubSeq(packet, a + field.size + 1, LastByte)
         /\ b < a + field.size /\ ~ field.integer =>
              /\ Piece(field) = SubSeq(packet, a + 1, b)
              /\ Left(field) = SubSeq(packet, a + field.size + 1, LastByte)
         /\ b < a + field.size /\ field.integer =>
              /\ Piece(field) = <<>>
              /\ Len(Left(field)) < field.size
<1>1. LastByte \in 0..Len(packet) /\ b \in Nat /\ LastByte <= b /\ b <= Len(packet)
  BY LastByteIsLast
<1>2. field.size \in Nat \ {0}
  OBVIOUS
<1>3. Len(rest) = IF a <= b THEN b - a ELSE 0
  BY <1>1
<1>4. ASSUME a + field.size <= b
      PROVE  /\ Piece(field) = SubSeq(packet, a + 1, a + field.size)
             /\ Left(field) = SubSeq(packet, a + field.size + 1, LastByte)
  <2>1. field.size <= Len(rest)
    BY <1>1, <1>2, <1>3, <1>4
  <2>1a. Taken(field) = field.size
    BY <1>2, <2>1, HowMuch
  <2>2. SubSeq(rest, field.size + 1, Len(rest)) = SubSeq(packet, a + field.size + 1, b)
    <3>1. \A n \in Nat : SubSeq(rest, n + 1, Len(rest)) = SubSeq(packet, a + n + 1, b)
      BY <1>1, SubSeqBack
    <3> QED BY <1>2, <3>1
  <2>2a. a + field.size \in Nat
    BY <1>2
  <2>3. Left(field) = SubSeq(packet, a + field.size + 1, LastByte)
    BY <2>1a, <2>2, <2>2a, StrippedTail DEF Left
  <2>4. SubSeq(rest, 1, field.size) = SubSeq(packet, a + 1, a + field.size)
    <3>1. \A n \in Nat : a + n <= b => SubSeq(rest, 1, n) = SubSeq(packet, a + 1, a + n)
      BY <1>1, SubSeqFront
    <3> QED BY <1>2, <1>4, <3>1
  <2> QED BY <2>1a, <2>3, <2>4 DEF Piece
<1>5. ASSUME b < a + field.size, ~ field.integer
      PROVE  /\ Piece(field) = SubSeq(packet, a + 1, b)
             /\ Left(field) = SubSeq(packet, a + field.size + 1, LastByte)
  <2>1. Taken(field) = Len(rest)
    BY <1>1, <1>2, <1>3, <1>5, HowMuch
  <2>2. SubSeq(rest, Len(rest) + 1, Len(rest)) = SubSeq(packet, a + field.size + 1, b)
    <3>1. SubSeq(rest, Len(rest) + 1, Len(rest)) = <<>>
      OBVIOUS
    <3>2. a + field.size + 1 \in Int /\ b \in Int /\ b < a + field.size + 1
      BY <1>1, <1>2, <1>5
    <3>3. SubSeq(packet, a + field.size + 1, b) = <<>>
      BY <3>2, SubSeqEmpty
    <3> QED BY <3>1, <3>3
  <2>2a. a + field.size \in Nat
    BY <1>2
  <2>3. Left(field) = SubSeq(packet, a + field.size + 1, LastByte)
    BY <2>1, <2>2, <2>2a, StrippedTail DEF Left
  <2>4. SubSeq(rest, 1, Len(rest)) = SubSeq(packet, a + 1, b)
    BY <1>1, <1>2, <1>3, <1>5
  <2> QED BY <2>1, <2>3, <2>4 DEF Piece
<1>6. ASSUME b < a + field.size, field.integer
      PROVE  Piece(field) = <<>> /\ Len(Left(field)) < field.size
  <2>1. Taken(field) = 0 /\ Len(rest) < field.size
    BY <1>1, <1>2, <1>3, <1>6, HowMuch
  <2>2. SubSeq(rest, 0 + 1, Len(rest)) = rest
    OBVIOUS
  <2>3. Left(field) = Stripped(rest)
    BY <2>1, <2>2 DEF Left
  <2>4. Len(Left(field)) <= Len(rest) /\ Left(field) \in Seq(Bytes)
    BY <2>3, StrippedShort
  <2>5. Piece(field) = <<>>
    BY <2>1 DEF Piece
  <2> QED BY <1>2, <2>1, <2>4, <2>5
<1> QED BY <1>4, <1>5, <1>6

(* A field of four bytes, when fewer are left. *)
LEMMA TakeStuck ==
  ASSUME rest \in Seq(Bytes), NEW field, field.size \in Nat \ {0}, field.size = 4, Len(rest) < 4
  PROVE  /\ field.integer => Piece(field) = <<>> /\ Len(Left(field)) < 4
         /\ ~ field.integer => Left(field) = <<>>
<1>0. Len(rest) \in Nat
  OBVIOUS
<1>1. ASSUME field.integer PROVE Piece(field) = <<>> /\ Len(Left(field)) < 4
  <2>1. Taken(field) = 0
    BY <1>0, <1>1, HowMuch
  <2>2. SubSeq(rest, 0 + 1, Len(rest)) = rest
    OBVIOUS
  <2>3. Left(field) = Stripped(rest)
    BY <2>1, <2>2 DEF Left
  <2>4. Len(Left(field)) <= Len(rest) /\ Left(field) \in Seq(Bytes)
    BY <2>3, StrippedShort
  <2>5. Piece(field) = <<>>
    BY <2>1 DEF Piece
  <2> QED BY <1>0, <2>4, <2>5
<1>2. ASSUME ~ field.integer PROVE Left(field) = <<>>
  <2>1. Taken(field) = Len(rest)
    BY <1>0, <1>2, HowMuch
  <2>2. SubSeq(rest, Len(rest) + 1, Len(rest)) = <<>>
    BY <1>0
  <2>3. Left(field) = Stripped(<<>>)
    BY <2>1, <2>2 DEF Left
  <2>3a. <<>> \in Seq(Bytes) /\ Len(<<>>) = 0
    OBVIOUS
  <2>4. Len(Left(field)) <= 0 /\ Left(field) \in Seq(Bytes)
    BY <2>3, <2>3a, StrippedShort
  <2> QED BY <2>4
<1> QED BY <1>1, <1>2

(* The layout. *)

LEMMA LayoutTypes ==
  /\ Len(Layout) = 14
  /\ \A k \in 1..14 : Layout[k].size \in 1..4
  /\ \A k \in 1..14 : Layout[k].integer <=> k \notin {1, 4, 10, 12}
<1>1. Len(Layout) = 14
  BY DEF Layout
<1>2. \A k \in 1..14 : Layout[k].size \in 1..4
  BY DEF Layout
<1>3. \A k \in 1..14 : Layout[k].integer <=> k \notin {1, 4, 10, 12}
  BY DEF Layout
<1> QED BY <1>1, <1>2, <1>3

LEMMA LayoutSizes ==
  /\ \A k \in {1, 2, 11} : Layout[k].size = 1
  /\ \A k \in {4, 5, 7, 8, 9, 10, 13, 14} : Layout[k].size = 4
  /\ Layout[3].size = 2 /\ Layout[12].size = 3
BY DEF Layout

LEMMA LayoutNames ==
  /\ Layout[1].name = "headers" /\ Layout[2].name = "type"
  /\ Layout[5].name = "ts_seconds" /\ Layout[14].name = "jitter"
  /\ \A k \in (1..14) \ {1, 2, 5, 14} :
       Layout[k].name \notin {"headers", "type", "ts_seconds", "jitter"}
BY DEF Layout

LEMMA Indices ==
  /\ IndexOf("ts_seconds") = 5 /\ IndexOf("floss") = 11
  /\ IndexOf("tloss") = 12 /\ IndexOf("jitter") = 14
<1>1. IndexOf("ts_seconds") = 5
  BY DEF Layout, IndexOf
<1>2. IndexOf("floss") = 11
  BY DEF Layout, IndexOf
<1>3. IndexOf("tloss") = 12
  BY DEF Layout, IndexOf
<1>4. IndexOf("jitter") = 14
  BY DEF Layout, IndexOf
<1> QED BY <1>1, <1>2, <1>3, <1>4

(* Every field lies behind the one before it. *)
LEMMA BeforeNext ==
  /\ Before[1] = 1 /\ Layout[1].size = 1
  /\ \A k \in 1..13 : /\ Before[k] \in Nat
                      /\ Before[k + 1] = Before[k] + Layout[k + 1].size
BY DEF Before, Layout

-----------------------------------------------------------------------------
(* A step. *)

(* The field that is next. *)
Current == Layout[Count + 1]

LEMMA Step ==
  ASSUME Next
  PROVE  /\ outcome = "parsing"
         /\ read' = Append(read, Piece(Current))
         /\ rest' = Left(Current)
         /\ outcome' = Outcome(Current.name, Piece(Current))
         /\ packet' = packet /\ LastByte' = LastByte
BY DEF Next, Unpack, Piece, Left, LastByte, Current, Count

LEMMA OutcomeOf ==
  ASSUME NEW k \in 1..14, NEW bytes
  PROVE  /\ k = 1 => Outcome(Layout[k].name, bytes) =
              IF bytes = <<>> THEN "raised"
              ELSE IF Version(bytes) # 2 THEN "nothing" ELSE "parsing"
         /\ k = 2 => Outcome(Layout[k].name, bytes) =
              IF Number(bytes) # 200 THEN "nothing" ELSE "parsing"
         /\ k = 5 => Outcome(Layout[k].name, bytes) =
              IF bytes = <<>> THEN "raised" ELSE "parsing"
         /\ k = 14 => Outcome(Layout[k].name, bytes) = "sample"
         /\ k \notin {1, 2, 5, 14} => Outcome(Layout[k].name, bytes) = "parsing"
<1>1. CASE k = 1
  BY <1>1, LayoutNames DEF Outcome
<1>2. CASE k = 2
  BY <1>2, LayoutNames DEF Outcome
<1>3. CASE k = 5
  BY <1>3, LayoutNames DEF Outcome
<1>4. CASE k = 14
  BY <1>4, LayoutNames DEF Outcome
<1>5. CASE k \notin {1, 2, 5, 14}
  <2>1. Layout[k].name \notin {"headers", "type", "ts_seconds", "jitter"}
    BY <1>5, LayoutNames
  <2>2. Outcome(Layout[k].name, bytes) = "parsing"
    BY <2>1 DEF Outcome
  <2> QED BY <1>5, <2>2
<1> QED BY <1>1, <1>2, <1>3, <1>4, <1>5

LEMMA OutcomeType ==
  ASSUME NEW k \in 1..14, NEW bytes
  PROVE  Outcome(Layout[k].name, bytes) \in Outcomes
<1>1. CASE k = 1
  BY <1>1, OutcomeOf DEF Outcomes
<1>2. CASE k = 2
  BY <1>2, OutcomeOf DEF Outcomes
<1>3. CASE k = 5
  BY <1>3, OutcomeOf DEF Outcomes
<1>4. CASE k = 14
  BY <1>4, OutcomeOf DEF Outcomes
<1>5. CASE k \notin {1, 2, 5, 14}
  BY <1>5, OutcomeOf DEF Outcomes
<1> QED BY <1>1, <1>2, <1>3, <1>4, <1>5

LEMMA NextIndex == ASSUME NEW n \in 0..14, n < 14 PROVE n \in 0..13 /\ n + 1 \in 1..14 /\ (n > 0 => n \in 1..13)
OBVIOUS

LEMMA BasicsHold ==
  ASSUME Basics, Position, [Next]_vars
  PROVE  Basics'
<1>1. CASE UNCHANGED vars
  BY <1>1 DEF Basics, vars, Count
<1>2. CASE Next
  <2>1. /\ outcome = "parsing" /\ read' = Append(read, Piece(Current))
        /\ rest' = Left(Current) /\ packet' = packet
        /\ outcome' = Outcome(Current.name, Piece(Current))
    BY <1>2, Step
  <2>2. Count \in 0..14 /\ Count < 14
    BY <2>1 DEF Basics, Position
  <2>3. Count + 1 \in 1..14
    BY <2>2, NextIndex
  <2>4. Current.size \in Nat \ {0}
    <3>1. \A n \in 1..14 : Layout[n].size \in Nat \ {0}
      BY LayoutTypes
    <3> QED BY <2>3, <3>1 DEF Current
  <2>5. Piece(Current) \in Seq(Bytes) /\ Left(Current) \in Seq(Bytes)
    BY <2>4, PieceTypes DEF Basics
  <2>6. outcome' \in Outcomes
    BY <2>1, <2>3, OutcomeType DEF Current
  <2>7. read' \in Seq(Seq(Bytes)) /\ Count' = Count + 1
    BY <2>1, <2>5 DEF Basics, Count
  <2> QED BY <2>1, <2>3, <2>5, <2>6, <2>7 DEF Basics
<1> QED BY <1>1, <1>2

(* The first field is read of the packet itself, the others of what is left. *)
LEMMA Headers ==
  ASSUME Basics, Position, outcome = "parsing", Count = 0
  PROVE  /\ Piece(Layout[1]) = SubSeq(packet, 1, IF packet = <<>> THEN 0 ELSE 1)
         /\ Left(Layout[1]) = SubSeq(packet, 2, LastByte)
<1>1. packet \in Seq(Bytes) /\ rest \in Seq(Bytes) /\ rest = packet
  BY DEF Basics, Position
<1>2. rest = SubSeq(packet, 0 + 1, Len(packet))
  BY <1>1
<1>3. Layout[1].size = 1 /\ Layout[1].size \in Nat \ {0} /\ ~ Layout[1].integer
  BY LayoutTypes, LayoutSizes
<1>4. /\ 0 + 1 <= Len(packet) =>
           /\ Piece(Layout[1]) = SubSeq(packet, 0 + 1, 0 + 1)
           /\ Left(Layout[1]) = SubSeq(packet, 0 + 1 + 1, LastByte)
      /\ Len(packet) < 0 + 1 =>
           /\ Piece(Layout[1]) = SubSeq(packet, 0 + 1, Len(packet))
           /\ Left(Layout[1]) = SubSeq(packet, 0 + 1 + 1, LastByte)
  <2> DEFINE field == Layout[1]
  <2>1. field.size = 1 /\ field.size \in Nat \ {0} /\ ~ field.integer
    BY <1>3
  <2> HIDE DEF field
  <2>2. ASSUME NEW a \in {0}
        PROVE  /\ a + field.size <= Len(packet) =>
                    /\ Piece(field) = SubSeq(packet, a + 1, a + field.size)
                    /\ Left(field) = SubSeq(packet, a + field.size + 1, LastByte)
               /\ Len(packet) < a + field.size =>
                    /\ Piece(field) = SubSeq(packet, a + 1, Len(packet))
                    /\ Left(field) = SubSeq(packet, a + field.size + 1, LastByte)
    <3>1. a \in Nat /\ rest = SubSeq(packet, a + 1, Len(packet))
      BY <1>2
    <3> QED BY <1>1, <2>1, <3>1, TakeAligned
  <2>3. /\ 0 + 1 <= Len(packet) =>
             /\ Piece(field) = SubSeq(packet, 0 + 1, 0 + 1)
             /\ Left(field) = SubSeq(packet, 0 + 1 + 1, LastByte)
        /\ Len(packet) < 0 + 1 =>
             /\ Piece(field) = SubSeq(packet, 0 + 1, Len(packet))
             /\ Left(field) = SubSeq(packet, 0 + 1 + 1, LastByte)
    BY <2>1, <2>2
  <2> QED BY <2>3 DEF field
<1>5. CASE packet = <<>>
  <2>1. Len(packet) = 0
    BY <1>5
  <2> QED BY <1>4, <1>5, <2>1
<1>6. CASE packet # <<>>
  <2>1. Len(packet) \in Nat /\ Len(packet) > 0
    BY <1>1, <1>6
  <2>2. 0 + 1 <= Len(packet)
    BY <2>1
  <2> QED BY <1>4, <1>6, <2>2
<1> QED BY <1>5, <1>6

LEMMA Others ==
  ASSUME Basics, Position, outcome = "parsing", Count > 0
  PROVE  /\ Aligned /\ Before[Count + 1] <= LastByte =>
              /\ Piece(Current) = SubSeq(packet, Before[Count] + 1, Before[Count + 1])
              /\ Left(Current) = SubSeq(packet, Before[Count + 1] + 1, LastByte)
         /\ Aligned /\ LastByte < Before[Count + 1] /\ Count + 1 \in {4, 10, 12} =>
              /\ Piece(Current) = SubSeq(packet, Before[Count] + 1, LastByte)
              /\ Left(Current) = SubSeq(packet, Before[Count + 1] + 1, LastByte)
         /\ Aligned /\ LastByte < Before[Count + 1] /\ Count + 1 \notin {4, 10, 12} =>
              /\ Piece(Current) = <<>>
              /\ Len(Left(Current)) < Current.size
         /\ Stuck /\ Count + 1 \in {7, 8, 9, 14} => Piece(Current) = <<>> /\ Len(Left(Current)) < 4
         /\ Stuck /\ Count + 1 \in {4, 10} => Left(Current) = <<>>
         /\ Stuck => Count + 1 \in {4, 7, 8, 9, 10, 14}
         /\ Count \in 1..13 /\ Before[Count] \in Nat /\ Before[Count + 1] = Before[Count] + Current.size
<1>0. Count \in 0..14 /\ Count < 14
  BY DEF Basics, Position
<1>1. Count \in 1..13 /\ Count + 1 \in 1..14
  BY <1>0, NextIndex
<1>2. packet \in Seq(Bytes) /\ rest \in Seq(Bytes)
  BY DEF Basics
<1>3. Current.size \in 1..4 /\ (Current.integer <=> Count + 1 \notin {4, 10, 12})
  BY <1>1, LayoutTypes DEF Current
<1>4. Before[Count] \in Nat /\ Before[Count + 1] = Before[Count] + Current.size
  BY <1>1, BeforeNext DEF Current
<1>5. ASSUME Aligned
      PROVE  /\ Before[Count + 1] <= LastByte =>
                  /\ Piece(Current) = SubSeq(packet, Before[Count] + 1, Before[Count + 1])
                  /\ Left(Current) = SubSeq(packet, Before[Count + 1] + 1, LastByte)
             /\ LastByte < Before[Count + 1] /\ ~ Current.integer =>
                  /\ Piece(Current) = SubSeq(packet, Before[Count] + 1, LastByte)
                  /\ Left(Current) = SubSeq(packet, Before[Count + 1] + 1, LastByte)
             /\ LastByte < Before[Count + 1] /\ Current.integer =>
                  /\ Piece(Current) = <<>>
                  /\ Len(Left(Current)) < Current.size
  <2>1. rest = SubSeq(packet, Before[Count] + 1, LastByte)
    BY <1>5 DEF Aligned
  <2>2. Current.size \in Nat \ {0}
    BY <1>3
  <2> QED BY <1>2, <1>4, <2>1, <2>2, TakeAligned
<1>6. ASSUME Stuck
      PROVE  /\ Count + 1 \in {4, 7, 8, 9, 10, 14} /\ Current.size = 4 /\ Len(rest) < 4
             /\ Current.integer => Piece(Current) = <<>> /\ Len(Left(Current)) < 4
             /\ ~ Current.integer => Left(Current) = <<>>
  <2>1. Count + 1 \in {4, 7, 8, 9, 10, 14} /\ Len(rest) < 4
    <3>1. \A n \in {3, 6, 7, 8, 9, 13} : n + 1 \in {4, 7, 8, 9, 10, 14}
      OBVIOUS
    <3> QED BY <1>6, <3>1 DEF Stuck, Lacking
  <2>2. Current.size = 4
    BY <2>1, LayoutSizes DEF Current
  <2> QED BY <1>2, <1>3, <2>1, <2>2, TakeStuck
<1> QED BY <1>1, <1>3, <1>4, <1>5, <1>6

LEMMA StepTypes ==
  ASSUME Basics, Position, Next
  PROVE  /\ Basics' /\ outcome = "parsing"
         /\ Count \in 0..13 /\ Count + 1 \in 1..14
         /\ Count' = Count + 1
         /\ \A i \in 1..Count : read'[i] = read[i]
         /\ read'[Count + 1] = Piece(Current)
         /\ rest' = Left(Current) /\ rest' \in Seq(Bytes)
         /\ outcome' = Outcome(Current.name, Piece(Current))
         /\ packet' = packet /\ LastByte' = LastByte
         /\ LastByte \in Nat /\ Len(packet) \in Nat /\ LastByte <= Len(packet)
<1>1. /\ outcome = "parsing" /\ read' = Append(read, Piece(Current))
      /\ rest' = Left(Current) /\ packet' = packet /\ LastByte' = LastByte
      /\ outcome' = Outcome(Current.name, Piece(Current))
  BY Step
<1>2. Basics'
  BY BasicsHold
<1>3. Count \in 0..14 /\ Count < 14
  BY <1>1 DEF Basics, Position
<1>4. Count + 1 \in 1..14
  BY <1>3, NextIndex
<1>5. /\ Count' = Count + 1 /\ read'[Count + 1] = Piece(Current)
      /\ \A i \in 1..Count : read'[i] = read[i]
  <2>1. read \in Seq(Seq(Bytes))
    BY DEF Basics
  <2> QED BY <1>1, <2>1 DEF Count
<1>6. rest' \in Seq(Bytes) /\ packet \in Seq(Bytes)
  BY <1>2 DEF Basics
<1>7. LastByte \in Nat /\ Len(packet) \in Nat /\ LastByte <= Len(packet)
  BY <1>6, LastByteIsLast
<1>8. Count \in 0..13
  BY <1>3, NextIndex
<1> QED BY <1>1, <1>2, <1>4, <1>5, <1>6, <1>7, <1>8

LEMMA StepOutcome ==
  ASSUME Basics, Position, Next
  PROVE  /\ outcome' = "sample" <=> Count = 13
         /\ outcome' = "raised" <=> Count \in {0, 4} /\ Piece(Current) = <<>>
         /\ outcome' = "nothing" <=>
              \/ Count = 0 /\ Piece(Current) # <<>> /\ Version(Piece(Current)) # 2
              \/ Count = 1 /\ Number(Piece(Current)) # 200
<1>1. /\ Count \in 0..13 /\ Count + 1 \in 1..14
      /\ outcome' = Outcome(Layout[Count + 1].name, Piece(Current))
  BY StepTypes DEF Current
<1> DEFINE n == Count + 1
           bytes == Piece(Current)
<1>2. n \in 1..14 /\ outcome' = Outcome(Layout[n].name, bytes)
  BY <1>1
<1>3. /\ n = 14 <=> Count = 13
      /\ n \in {1, 5} <=> Count \in {0, 4}
      /\ n = 1 <=> Count = 0
      /\ n = 2 <=> Count = 1
  BY <1>1
<1> HIDE DEF n, bytes
<1>4. /\ n = 1 => outcome' = IF bytes = <<>> THEN "raised"
                            ELSE IF Version(bytes) # 2 THEN "nothing" ELSE "parsing"
      /\ n = 2 => outcome' = IF Number(bytes) # 200 THEN "nothing" ELSE "parsing"
      /\ n = 5 => outcome' = IF bytes = <<>> THEN "raised" ELSE "parsing"
      /\ n = 14 => outcome' = "sample"
      /\ n \notin {1, 2, 5, 14} => outcome' = "parsing"
  BY <1>2, OutcomeOf
<1>5. CASE n = 1
  BY <1>3, <1>4, <1>5 DEF bytes
<1>6. CASE n = 2
  BY <1>3, <1>4, <1>6 DEF bytes
<1>7. CASE n = 5
  BY <1>3, <1>4, <1>7 DEF bytes
<1>8. CASE n = 14
  BY <1>3, <1>4, <1>8 DEF bytes
<1>9. CASE n \notin {1, 2, 5, 14}
  BY <1>3, <1>4, <1>9 DEF bytes
<1> QED BY <1>5, <1>6, <1>7, <1>8, <1>9

LEMMA PositionHolds ==
  ASSUME Basics, Position, Next
  PROVE  Position'
<1>1. /\ outcome = "parsing" /\ Count \in 0..13 /\ Count' = Count + 1
      /\ Count + 1 \in 1..14
      /\ rest' = Left(Current) /\ packet' = packet /\ LastByte' = LastByte
      /\ LastByte \in Nat /\ rest' \in Seq(Bytes)
      /\ outcome' = Outcome(Current.name, Piece(Current))
  BY StepTypes
<1>2. SUFFICES ASSUME outcome' = "parsing"
               PROVE  Count + 1 < 14 /\ (Aligned' \/ Stuck')
  BY <1>1 DEF Position
<1>3. Count + 1 # 14 /\ (Count + 1 \in {1, 5} => Piece(Current) # <<>>)
  <2>1. Count # 13 /\ (Count \in {0, 4} => Piece(Current) # <<>>)
    BY <1>2, StepOutcome
  <2> QED BY <1>1, <2>1
<1>4. Count + 1 < 14
  BY <1>1, <1>3
<1>5. CASE Count = 0
  <2>1. Current = Layout[1]
    BY <1>5 DEF Current
  <2>2. rest' = SubSeq(packet, 2, LastByte)
    BY <1>1, <1>5, <2>1, Headers
  <2>3. Count' = 1
    BY <1>1, <1>5
  <2>4. Before[Count'] + 1 = 2
    BY <2>3, BeforeNext
  <2>5. Aligned'
    BY <1>1, <2>2, <2>4 DEF Aligned
  <2> QED BY <1>4, <2>5
<1>6. CASE Count > 0
  <2>0. /\ Count \in 1..13 /\ Before[Count] \in Nat
        /\ Before[Count + 1] = Before[Count] + Current.size
    BY <1>1, <1>6, Others
  <2>1. Current.size \in 1..4 /\ Before[Count + 1] \in Nat
    <3>1. Current.size \in 1..4
      BY <1>1, LayoutTypes DEF Current
    <3> QED BY <2>0, <3>1
  <2>2. CASE Left(Current) = SubSeq(packet, Before[Count + 1] + 1, LastByte)
    BY <1>1, <1>4, <2>2 DEF Aligned
  <2>3. CASE /\ Len(Left(Current)) < 4 /\ LastByte < Before[Count + 1]
             /\ Count + 1 \in Lacking
    BY <1>1, <1>4, <2>3 DEF Stuck
  <2>4. CASE Left(Current) = <<>> /\ LastByte < Before[Count + 1]
    <3>1. SubSeq(packet, Before[Count + 1] + 1, LastByte) = <<>>
      BY <1>1, <2>1, <2>4, SubSeqEmpty
    <3> QED BY <2>2, <2>4, <3>1
  <2>5. CASE Aligned
    <3>1. CASE Before[Count + 1] <= LastByte
      BY <1>1, <1>6, <2>2, <2>5, <3>1, Others
    <3>2. CASE LastByte < Before[Count + 1] /\ Count + 1 \in {4, 10, 12}
      BY <1>1, <1>6, <2>2, <2>5, <3>2, Others
    <3>3. CASE LastByte < Before[Count + 1] /\ Count + 1 \notin {4, 10, 12}
      <4>1. Piece(Current) = <<>> /\ Len(Left(Current)) < Current.size
        BY <1>1, <1>6, <2>5, <3>3, Others
      <4>2. Len(Left(Current)) \in Nat /\ Len(Left(Current)) < 4
        BY <1>1, <2>1, <4>1
      <4>3. CASE Count + 1 \in {2, 11}
        <5>1. Current.size = 1
          BY <4>3, LayoutSizes DEF Current
        <5>2. Left(Current) = <<>>
          BY <1>1, <4>1, <4>2, <5>1
        <5> QED BY <2>4, <3>3, <5>2
      <4>4. CASE Count + 1 \notin {2, 11}
        <5>1. Count + 1 \in Lacking
          <6>1. \A n \in 1..13 : n + 1 # 5 /\ n + 1 # 14 /\ n + 1 \notin {4, 10, 12}
                  /\ n + 1 \notin {2, 11} => n + 1 \in {3, 6, 7, 8, 9, 13}
            OBVIOUS
          <6> QED BY <1>3, <2>0, <3>3, <4>1, <4>4, <6>1 DEF Lacking
        <5> QED BY <2>3, <3>3, <4>2, <5>1
      <4> QED BY <4>3, <4>4
    <3> QED BY <1>1, <2>1, <3>1, <3>2, <3>3
  <2>6. CASE Stuck
    <3>1. /\ Count + 1 \in {4, 7, 8, 9, 10, 14}
          /\ Count + 1 \in {7, 8, 9, 14} => Len(Left(Current)) < 4
          /\ Count + 1 \in {4, 10} => Left(Current) = <<>>
      BY <1>1, <1>6, <2>6, Others
    <3>2. LastByte < Before[Count + 1]
      <4>1. LastByte < Before[Count]
        BY <2>6 DEF Stuck
      <4> QED BY <1>1, <2>0, <2>1, <4>1
    <3>3. CASE Count + 1 \in {7, 8, 9}
      BY <2>3, <3>1, <3>2, <3>3 DEF Lacking
    <3>4. CASE Count + 1 \in {4, 10}
      BY <2>4, <3>1, <3>2, <3>4
    <3> QED BY <1>3, <3>1, <3>3, <3>4
  <2>7. Aligned \/ Stuck
    BY <1>1, <1>6 DEF Position
  <2> QED BY <2>5, <2>6, <2>7
<1> QED BY <1>1, <1>5, <1>6

(* What is read of a field that is looked at. *)
LEMMA PieceAt ==
  ASSUME Basics, Position, outcome = "parsing"
  PROVE  /\ Count = 4 =>
              Piece(Current) = IF LastByte < 12 THEN <<>> ELSE SubSeq(packet, 9, 12)
         /\ Count = 10 =>
              Piece(Current) = IF LastByte < 33 THEN <<>> ELSE <<packet[33]>>
         /\ Count = 11 =>
              Piece(Current) = SubSeq(packet, 34, IF LastByte < 36 THEN LastByte ELSE 36)
         /\ Count = 13 =>
              Piece(Current) = IF LastByte < 44 THEN <<>> ELSE SubSeq(packet, 41, 44)
<1>1. LastByte \in Nat /\ packet \in Seq(Bytes) /\ LastByte <= Len(packet)
  <2>1. packet \in Seq(Bytes)
    BY DEF Basics
  <2> QED BY <2>1, LastByteIsLast
<1>2. ASSUME Count = 4
      PROVE  Piece(Current) = IF LastByte < 12 THEN <<>> ELSE SubSeq(packet, 9, 12)
  <2>1. Before[Count] = 8 /\ Before[Count + 1] = 12 /\ Count > 0
    BY <1>2 DEF Before
  <2>2. 12 <= LastByte => Piece(Current) = SubSeq(packet, 8 + 1, 12)
    <3>1. Aligned /\ Before[Count + 1] <= LastByte =>
            Piece(Current) = SubSeq(packet, Before[Count] + 1, Before[Count + 1])
      BY <2>1, Others
    <3>2. Aligned
      BY <1>2, <2>1 DEF Position, Stuck, Lacking
    <3> QED BY <2>1, <3>1, <3>2
  <2>3. LastByte < 12 => Piece(Current) = <<>>
    <3>1. /\ Aligned /\ LastByte < Before[Count + 1] /\ Count + 1 \notin {4, 10, 12} =>
               Piece(Current) = <<>>
          /\ Stuck /\ Count + 1 \in {7, 8, 9, 14} => Piece(Current) = <<>>
      BY <2>1, Others
    <3>2. Aligned
      BY <1>2, <2>1 DEF Position, Stuck, Lacking
    <3>3. Count + 1 = 5
      BY <1>2
    <3> QED BY <2>1, <3>1, <3>2, <3>3
  <2> QED BY <1>1, <2>2, <2>3
<1>3. ASSUME Count = 10
      PROVE  Piece(Current) = IF LastByte < 33 THEN <<>> ELSE <<packet[33]>>
  <2>1. Before[Count] = 32 /\ Before[Count + 1] = 33 /\ Count > 0
    BY <1>3 DEF Before
  <2>2. 33 <= LastByte => Piece(Current) = SubSeq(packet, 32 + 1, 33)
    <3>1. Aligned /\ Before[Count + 1] <= LastByte =>
            Piece(Current) = SubSeq(packet, Before[Count] + 1, Before[Count + 1])
      BY <2>1, Others
    <3>2. Aligned
      BY <1>3, <2>1 DEF Position, Stuck, Lacking
    <3> QED BY <2>1, <3>1, <3>2
  <2>3. LastByte < 33 => Piece(Current) = <<>>
    <3>1. /\ Aligned /\ LastByte < Before[Count + 1] /\ Count + 1 \notin {4, 10, 12} =>
               Piece(Current) = <<>>
          /\ Stuck /\ Count + 1 \in {7, 8, 9, 14} => Piece(Current) = <<>>
      BY <2>1, Others
    <3>2. Aligned
      BY <1>3, <2>1 DEF Position, Stuck, Lacking
    <3>3. Count + 1 = 11
      BY <1>3
    <3> QED BY <2>1, <3>1, <3>2, <3>3
  <2>4. 33 <= LastByte => SubSeq(packet, 32 + 1, 33) = <<packet[33]>>
    <3>1. ASSUME NEW n \in 1..Len(packet)
          PROVE  SubSeq(packet, n, n) = <<packet[n]>>
      <4> DEFINE t == SubSeq(packet, n, n)
      <4>1. t \in Seq(Bytes) /\ Len(t) = 1 /\ t[1] = packet[n]
        BY <1>1
      <4> HIDE DEF t
      <4>2. t = <<packet[n]>>
        BY <4>1
      <4> QED BY <4>2 DEF t
    <3>2. 33 <= LastByte => 33 \in 1..Len(packet)
      BY <1>1
    <3> QED BY <3>1, <3>2
  <2> QED BY <1>1, <2>2, <2>3, <2>4
<1>4. ASSUME Count = 11
      PROVE  Piece(Current) = SubSeq(packet, 34, IF LastByte < 36 THEN LastByte ELSE 36)
  <2>1. Before[Count] = 33 /\ Before[Count + 1] = 36 /\ Count > 0
    BY <1>4 DEF Before
  <2>2. 36 <= LastByte => Piece(Current) = SubSeq(packet, 33 + 1, 36)
    <3>1. Aligned /\ Before[Count + 1] <= LastByte =>
            Piece(Current) = SubSeq(packet, Before[Count] + 1, Before[Count + 1])
      BY <2>1, Others
    <3>2. Aligned
      BY <1>4, <2>1 DEF Position, Stuck, Lacking
    <3> QED BY <2>1, <3>1, <3>2
  <2>3. LastByte < 36 => Piece(Current) = SubSeq(packet, 33 + 1, LastByte)
    <3>1. Aligned /\ LastByte < Before[Count + 1] /\ Count + 1 \in {4, 10, 12} =>
            Piece(Current) = SubSeq(packet, Before[Count] + 1, LastByte)
      BY <2>1, Others
    <3>2. Aligned
      BY <1>4, <2>1 DEF Position, Stuck, Lacking
    <3> QED BY <1>4, <2>1, <3>1, <3>2
  <2>4. CASE LastByte < 36
    BY <2>3, <2>4
  <2>5. CASE ~ (LastByte < 36)
    BY <1>1, <2>2, <2>5
  <2> QED BY <2>4, <2>5
<1>5. ASSUME Count = 13
      PROVE  Piece(Current) = IF LastByte < 44 THEN <<>> ELSE SubSeq(packet, 41, 44)
  <2>1. Before[Count] = 40 /\ Before[Count + 1] = 44 /\ Count > 0
    BY <1>5 DEF Before
  <2>2. 44 <= LastByte => Piece(Current) = SubSeq(packet, 40 + 1, 44)
    <3>1. Aligned /\ Before[Count + 1] <= LastByte =>
            Piece(Current) = SubSeq(packet, Before[Count] + 1, Before[Count + 1])
      BY <2>1, Others
    <3>2. Aligned \/ LastByte < 40
      BY <1>5, <2>1 DEF Position, Stuck
    <3> QED BY <1>1, <2>1, <3>1, <3>2
  <2>3. LastByte < 44 => Piece(Current) = <<>>
    <3>1. /\ Aligned /\ LastByte < Before[Count + 1] /\ Count + 1 \notin {4, 10, 12} =>
               Piece(Current) = <<>>
          /\ Stuck /\ Count + 1 \in {7, 8, 9, 14} => Piece(Current) = <<>>
      BY <2>1, Others
    <3>2. Aligned \/ Stuck
      BY <1>5, <2>1 DEF Position
    <3>3. Count + 1 = 14
      BY <1>5
    <3> QED BY <2>1, <3>1, <3>2, <3>3
  <2> QED BY <1>1, <2>2, <2>3
<1> QED BY <1>2, <1>3, <1>4, <1>5

LEMMA FieldsHold ==
  ASSUME Basics, Position, Fields, Next
  PROVE  Fields'
<1>1. /\ outcome = "parsing" /\ Count \in 0..13 /\ Count' = Count + 1
      /\ Count + 1 \in 1..14
      /\ \A i \in 1..Count : read'[i] = read[i]
      /\ read'[Count + 1] = Piece(Current)
      /\ packet' = packet /\ LastByte' = LastByte /\ LastByte \in Nat
      /\ outcome' = Outcome(Current.name, Piece(Current))
  BY StepTypes
<1>2. /\ Count > 4 => read'[5] = read[5]
      /\ Count > 10 => read'[11] = read[11]
      /\ Count > 11 => read'[12] = read[12]
  <2>1. /\ Count > 4 => 5 \in 1..Count
        /\ Count > 10 => 11 \in 1..Count
        /\ Count > 11 => 12 \in 1..Count
    BY <1>1
  <2> QED BY <1>1, <2>1
<1>3. ASSUME outcome' \in {"parsing", "sample"}, Count' > 4
      PROVE  LastByte > 11 /\ read'[5] = SubSeq(packet, 9, 12)
  <2>1. CASE Count > 4
    BY <1>1, <1>2, <2>1 DEF Fields
  <2>2. CASE Count = 4
    <3>1. Piece(Current) # <<>>
      BY <1>3, <2>2, StepOutcome
    <3>2. Piece(Current) = IF LastByte < 12 THEN <<>> ELSE SubSeq(packet, 9, 12)
      BY <1>1, <2>2, PieceAt
    <3>3. read'[5] = Piece(Current)
      BY <1>1, <2>2
    <3> QED BY <1>1, <3>1, <3>2, <3>3
  <2> QED BY <1>1, <1>3, <2>1, <2>2
<1>4. ASSUME Count' > 10
      PROVE  read'[11] = IF LastByte < 33 THEN <<>> ELSE <<packet[33]>>
  <2>1. CASE Count > 10
    BY <1>2, <2>1 DEF Fields
  <2>2. CASE Count = 10
    <3>1. read'[11] = Piece(Current)
      BY <1>1, <2>2
    <3> QED BY <1>1, <2>2, <3>1, PieceAt
  <2> QED BY <1>1, <1>4, <2>1, <2>2
<1>5. ASSUME Count' > 11
      PROVE  read'[12] = SubSeq(packet, 34, IF LastByte < 36 THEN LastByte ELSE 36)
  <2>1. CASE Count > 11
    BY <1>2, <2>1 DEF Fields
  <2>2. CASE Count = 11
    <3>1. read'[12] = Piece(Current)
      BY <1>1, <2>2
    <3> QED BY <1>1, <2>2, <3>1, PieceAt
  <2> QED BY <1>1, <1>5, <2>1, <2>2
<1>6. ASSUME Count' > 13
      PROVE  read'[14] = IF LastByte < 44 THEN <<>> ELSE SubSeq(packet, 41, 44)
  <2>1. ~ (Count > 13)
    BY <1>1
  <2>2. CASE Count = 13
    <3>1. read'[14] = Piece(Current)
      BY <1>1, <2>2
    <3> QED BY <1>1, <2>2, <3>1, PieceAt
  <2> QED BY <1>1, <1>6, <2>1, <2>2
<1> QED BY <1>1, <1>3, <1>4, <1>5, <1>6 DEF Fields

(* What the packet has of each field. *)
LEMMA Places ==
  /\ FirstOf("headers") = 1 /\ EndOf("headers") = 1
  /\ FirstOf("type") = 2 /\ EndOf("type") = 2
  /\ FirstOf("ts_seconds") = 9 /\ EndOf("ts_seconds") = 12
  /\ FirstOf("floss") = 33 /\ EndOf("floss") = 33
  /\ FirstOf("tloss") = 34 /\ EndOf("tloss") = 36
  /\ FirstOf("jitter") = 41 /\ EndOf("jitter") = 44
BY DEF FirstOf, EndOf, Place

LEMMA FieldIs ==
  ASSUME packet \in Seq(Bytes), NEW name, EndOf(name) \in Nat
  PROVE  Field(name) = SubSeq(packet, FirstOf(name),
                              IF EndOf(name) <= Len(packet) THEN EndOf(name) ELSE Len(packet))
<1>1. Len(packet) \in Nat
  OBVIOUS
<1>2. Min({EndOf(name), Len(packet)})
        = IF EndOf(name) <= Len(packet) THEN EndOf(name) ELSE Len(packet)
  BY <1>1, MinOfTwo
<1> QED BY <1>2 DEF Field

(* One byte, if it is there. *)
LEMMA OneByte ==
  ASSUME NEW s \in Seq(Bytes), NEW n \in Nat \ {0}
  PROVE  /\ n <= Len(s) => SubSeq(s, n, n) = <<s[n]>>
         /\ Len(s) < n => SubSeq(s, n, Len(s)) = <<>>
<1>1. CASE n <= Len(s)
  <2> DEFINE t == SubSeq(s, n, n)
  <2>1. t \in Seq(Bytes) /\ Len(t) = 1 /\ t[1] = s[n]
    BY <1>1
  <2> HIDE DEF t
  <2>2. t = <<s[n]>>
    BY <2>1
  <2> QED BY <1>1, <2>2 DEF t
<1>2. CASE Len(s) < n
  <2>1. SubSeq(s, n, Len(s)) = <<>>
    BY <1>2
  <2> QED BY <1>2, <2>1
<1> QED BY <1>1, <1>2

LEMMA FieldsAre ==
  ASSUME packet \in Seq(Bytes)
  PROVE  /\ 1 <= Len(packet) => Field("headers") = SubSeq(packet, 1, 1)
         /\ Field("type") = IF 2 <= Len(packet) THEN <<packet[2]>> ELSE <<>>
         /\ 12 <= Len(packet) => Field("ts_seconds") = SubSeq(packet, 9, 12)
         /\ Field("floss") = IF 33 <= Len(packet) THEN <<packet[33]>> ELSE <<>>
         /\ Field("tloss") = SubSeq(packet, 34, IF 36 <= Len(packet) THEN 36 ELSE Len(packet))
         /\ 44 <= Len(packet) => Field("jitter") = SubSeq(packet, 41, 44)
<1>0. Len(packet) \in Nat
  OBVIOUS
<1>1. ASSUME NEW name, NEW a \in Nat, NEW b \in Nat, FirstOf(name) = a, EndOf(name) = b
      PROVE  Field(name) = SubSeq(packet, a, IF b <= Len(packet) THEN b ELSE Len(packet))
  BY <1>1, FieldIs
<1>2. Field("headers") = SubSeq(packet, 1, IF 1 <= Len(packet) THEN 1 ELSE Len(packet))
  BY <1>1, Places
<1>3. Field("type") = SubSeq(packet, 2, IF 2 <= Len(packet) THEN 2 ELSE Len(packet))
  BY <1>1, Places
<1>4. Field("ts_seconds") = SubSeq(packet, 9, IF 12 <= Len(packet) THEN 12 ELSE Len(packet))
  BY <1>1, Places
<1>5. Field("floss") = SubSeq(packet, 33, IF 33 <= Len(packet) THEN 33 ELSE Len(packet))
  BY <1>1, Places
<1>6. Field("tloss") = SubSeq(packet, 34, IF 36 <= Len(packet) THEN 36 ELSE Len(packet))
  BY <1>1, Places
<1>7. Field("jitter") = SubSeq(packet, 41, IF 44 <= Len(packet) THEN 44 ELSE Len(packet))
  BY <1>1, Places
<1>8. /\ 2 <= Len(packet) => SubSeq(packet, 2, 2) = <<packet[2]>>
      /\ Len(packet) < 2 => SubSeq(packet, 2, Len(packet)) = <<>>
  BY OneByte
<1>9. /\ 33 <= Len(packet) => SubSeq(packet, 33, 33) = <<packet[33]>>
      /\ Len(packet) < 33 => SubSeq(packet, 33, Len(packet)) = <<>>
  BY OneByte
<1>10. Field("type") = IF 2 <= Len(packet) THEN <<packet[2]>> ELSE <<>>
  <2>1. CASE 2 <= Len(packet)
    BY <1>3, <1>8, <2>1
  <2>2. CASE Len(packet) < 2
    <3>1. ~ (2 <= Len(packet))
      BY <1>0, <2>2
    <3> QED BY <1>3, <1>8, <2>2, <3>1
  <2> QED BY <1>0, <2>1, <2>2
<1>11. Field("floss") = IF 33 <= Len(packet) THEN <<packet[33]>> ELSE <<>>
  <2>1. CASE 33 <= Len(packet)
    BY <1>5, <1>9, <2>1
  <2>2. CASE Len(packet) < 33
    <3>1. ~ (33 <= Len(packet))
      BY <1>0, <2>2
    <3> QED BY <1>5, <1>9, <2>2, <3>1
  <2> QED BY <1>0, <2>1, <2>2
<1> QED BY <1>2, <1>4, <1>6, <1>7, <1>10, <1>11

LEMMA NumberOf ==
  /\ Number(<<>>) = 0
  /\ \A b \in Bytes : Number(<<b>>) = b
BY DEF Number

LEMMA ReturnsHold ==
  ASSUME Basics, Position, Next
  PROVE  Returns'
<1>1. /\ outcome = "parsing" /\ Count \in 0..13 /\ Count' = Count + 1
      /\ Count + 1 \in 1..14
      /\ packet' = packet /\ LastByte' = LastByte /\ LastByte \in Nat
      /\ LastByte <= Len(packet) /\ Len(packet) \in Nat
      /\ outcome' = Outcome(Current.name, Piece(Current))
  BY StepTypes
<1>2. packet \in Seq(Bytes)
  BY DEF Basics
<1>3. /\ outcome' = "sample" <=> Count = 13
      /\ outcome' = "raised" <=> Count \in {0, 4} /\ Piece(Current) = <<>>
      /\ outcome' = "nothing" <=>
           \/ Count = 0 /\ Piece(Current) # <<>> /\ Version(Piece(Current)) # 2
           \/ Count = 1 /\ Number(Piece(Current)) # 200
  BY StepOutcome
<1>4. outcome' = "sample" => Count' = 14
  BY <1>1, <1>3
<1>5. ASSUME outcome' = "raised"
      PROVE  LastByte < 12
  <2>1. CASE Count = 0
    <3>1. Piece(Current) = SubSeq(packet, 1, IF packet = <<>> THEN 0 ELSE 1)
      BY <1>1, <2>1, Headers DEF Current
    <3>2. packet = <<>>
      <4>1. ASSUME packet # <<>> PROVE FALSE
        <5>1. Len(packet) > 0 /\ Len(SubSeq(packet, 1, 1)) = 1
          BY <1>2, <4>1
        <5> QED BY <1>3, <1>5, <3>1, <4>1, <5>1
      <4> QED BY <4>1
    <3>3. Len(packet) = 0
      BY <3>2
    <3> QED BY <1>1, <3>3
  <2>2. CASE Count = 4
    <3>1. Piece(Current) = IF LastByte < 12 THEN <<>> ELSE SubSeq(packet, 9, 12)
      BY <1>1, <2>2, PieceAt
    <3>2. ~ (LastByte < 12) => Len(SubSeq(packet, 9, 12)) = 4
      BY <1>1, <1>2
    <3>3. Piece(Current) = <<>> /\ Len(<<>>) = 0
      BY <1>3, <1>5
    <3> QED BY <3>1, <3>2, <3>3
  <2> QED BY <1>1, <1>3, <1>5, <2>1, <2>2
<1>6. ASSUME outcome' = "nothing"
      PROVE  Version(Field("headers")) # 2 \/ Number(Field("type")) # 200
  <2>1. CASE Count = 0
    <3>1. /\ Piece(Current) = SubSeq(packet, 1, IF packet = <<>> THEN 0 ELSE 1)
          /\ Piece(Current) # <<>> /\ Version(Piece(Current)) # 2
      BY <1>1, <1>3, <1>6, <2>1, Headers DEF Current
    <3>2. packet # <<>>
      <4>1. SubSeq(packet, 1, 0) = <<>>
        BY <1>2
      <4> QED BY <3>1, <4>1
    <3>3. 1 <= Len(packet)
      BY <1>2, <3>2
    <3>4. Field("headers") = SubSeq(packet, 1, 1)
      BY <1>2, <3>3, FieldsAre
    <3> QED BY <3>1, <3>2, <3>4
  <2>2. CASE Count = 1
    <3>1. Number(Piece(Current)) # 200
      BY <1>1, <1>3, <1>6, <2>2
    <3>2. Before[Count] = 1 /\ Before[Count + 1] = 2 /\ Count > 0 /\ Aligned
      BY <1>1, <2>2 DEF Before, Position, Stuck, Lacking
    <3>3. Field("type") = IF 2 <= Len(packet) THEN <<packet[2]>> ELSE <<>>
      BY <1>2, FieldsAre
    <3>4. 2 <= Len(packet) => packet[2] \in Bytes
      BY <1>2
    <3>5. CASE 2 <= LastByte
      <4>1. Piece(Current) = SubSeq(packet, 1 + 1, 2)
        BY <1>1, <3>2, <3>5, Others
      <4>2. 2 <= Len(packet)
        BY <1>1, <3>5
      <4>3. SubSeq(packet, 2, 2) = <<packet[2]>>
        BY <1>2, <4>2, OneByte
      <4>4. Field("type") = <<packet[2]>>
        BY <3>3, <4>2
      <4>5. Piece(Current) = <<packet[2]>>
        BY <4>1, <4>3
      <4> QED BY <3>1, <4>4, <4>5
    <3>6. CASE LastByte < 2
      <4>1. 2 <= Len(packet) => packet[2] \in Blank
        <5>1. 2 <= Len(packet) => 2 \in 1..Len(packet)
          BY <1>1
        <5> QED BY <1>2, <3>6, <5>1, LastByteIsLast
      <4>2. Number(Field("type")) # 200
        BY <1>1, <3>3, <3>4, <4>1, NumberOf DEF Blank
      <4> QED BY <4>2
    <3> QED BY <1>1, <3>5, <3>6
  <2> QED BY <1>1, <1>3, <1>6, <2>1, <2>2
<1>7. Field("headers")' = Field("headers") /\ Field("type")' = Field("type")
  BY <1>1 DEF Field
<1> QED BY <1>1, <1>4, <1>5, <1>6, <1>7 DEF Returns

-----------------------------------------------------------------------------
(* What follows of the sample. *)

LEMMA BlankAfter ==
  ASSUME packet \in Seq(Bytes), NEW name, EndOf(name) \in Nat \ {0}
  PROVE  BlankFrom(name) <=> LastByte < EndOf(name)
<1>1. LastByte \in Nat /\ Len(packet) \in Nat /\ LastByte <= Len(packet)
  BY LastByteIsLast
<1>2. ASSUME LastByte < EndOf(name) PROVE BlankFrom(name)
  <2>1. \A i \in EndOf(name)..Len(packet) : i \in 1..Len(packet) /\ LastByte < i
    BY <1>1, <1>2
  <2> QED BY <2>1, LastByteIsLast DEF BlankFrom
<1>3. ASSUME BlankFrom(name), EndOf(name) <= LastByte PROVE FALSE
  <2>1. LastByte \in EndOf(name)..Len(packet) /\ LastByte > 0
    BY <1>1, <1>3
  <2> QED BY <1>3, <2>1, LastByteIsLast DEF BlankFrom
<1> QED BY <1>1, <1>2, <1>3

(* Bytes that are missing at the end make a number smaller, never larger. *)
LEMMA NumberOfFront ==
  ASSUME NEW s \in Seq(Bytes), Len(s) <= 3, NEW n \in 0..Len(s)
  PROVE  Number(SubSeq(s, 1, n)) <= Number(s)
<1> DEFINE t == SubSeq(s, 1, n)
<1>1. /\ Len(s) \in 0..3 /\ n \in 0..3 /\ n <= Len(s)
      /\ \A i \in 1..Len(s) : s[i] \in Nat
  <2>1. Len(s) \in Nat
    OBVIOUS
  <2>2. Len(s) \in 0..3 /\ n \in 0..3 /\ n <= Len(s)
    <3>1. \A k \in Nat : k <= 3 => k \in 0..3 /\ \A i \in 0..k : i \in 0..3 /\ i <= k
      OBVIOUS
    <3> QED BY <2>1, <3>1
  <2>3. \A i \in 1..Len(s) : s[i] \in Bytes
    OBVIOUS
  <2>4. \A b \in Bytes : b \in Nat
    BY DEF Bytes
  <2> QED BY <2>2, <2>3, <2>4
<1>2. /\ Len(t) = n /\ \A i \in 1..n : t[i] = s[i]
  BY <1>1
<1> HIDE DEF t
<1>3. CASE n = 0
  <2>1. Number(t) = 0
    BY <1>2, <1>3 DEF Number
  <2>2. Number(s) \in Nat
    <3>1. CASE Len(s) = 0
      BY <3>1 DEF Number
    <3>2. CASE Len(s) = 1
      BY <1>1, <3>2 DEF Number
    <3>3. CASE Len(s) = 2
      BY <1>1, <3>3 DEF Number
    <3>4. CASE Len(s) = 3
      BY <1>1, <3>4 DEF Number
    <3> QED BY <1>1, <3>1, <3>2, <3>3, <3>4
  <2>3. Number(t) <= Number(s)
    BY <2>1, <2>2
  <2> QED BY <2>3 DEF t
<1>4. CASE n = Len(s)
  <2>1. t = s
    BY <1>4 DEF t
  <2>2. Number(s) <= Number(s)
    <3>1. CASE Len(s) = 0
      BY <3>1 DEF Number
    <3>2. CASE Len(s) = 1
      BY <1>1, <3>2 DEF Number
    <3>3. CASE Len(s) = 2
      BY <1>1, <3>3 DEF Number
    <3>4. CASE Len(s) = 3
      BY <1>1, <3>4 DEF Number
    <3> QED BY <1>1, <3>1, <3>2, <3>3, <3>4
  <2> QED BY <2>1, <2>2 DEF t
<1>5. CASE n = 1 /\ Len(s) = 2
  <2>1. t[1] = s[1] /\ s[1] \in Nat /\ s[2] \in Nat
    BY <1>1, <1>2, <1>5
  <2>2. Number(t) = t[1] /\ Number(s) = 256 * s[1] + s[2]
    BY <1>2, <1>5 DEF Number
  <2>3. Number(t) <= Number(s)
    BY <2>1, <2>2
  <2> QED BY <2>3 DEF t
<1>6. CASE n = 1 /\ Len(s) = 3
  <2>1. t[1] = s[1] /\ s[1] \in Nat /\ s[2] \in Nat /\ s[3] \in Nat
    BY <1>1, <1>2, <1>6
  <2>2. Number(t) = t[1]
    BY <1>2, <1>6 DEF Number
  <2>2a. Number(s) = 65536 * s[1] + 256 * s[2] + s[3]
    BY <1>6 DEF Number
  <2>3. Number(t) <= Number(s)
    <3>1. \A x, y, z \in Nat : x <= 65536 * x + 256 * y + z
      OBVIOUS
    <3>2. Number(t) = s[1]
      BY <2>1, <2>2
    <3>3. s[1] <= 65536 * s[1] + 256 * s[2] + s[3]
      BY <2>1, <3>1
    <3> QED BY <2>2a, <3>2, <3>3
  <2> QED BY <2>3 DEF t
<1>7. CASE n = 2 /\ Len(s) = 3
  <2>1. t[1] = s[1] /\ t[2] = s[2] /\ s[1] \in Nat /\ s[2] \in Nat /\ s[3] \in Nat
    BY <1>1, <1>2, <1>7
  <2>2. Number(t) = 256 * t[1] + t[2]
    BY <1>2, <1>7 DEF Number
  <2>2a. Number(s) = 65536 * s[1] + 256 * s[2] + s[3]
    BY <1>7 DEF Number
  <2>3. Number(t) <= Number(s)
    <3>1. \A x, y, z \in Nat : 256 * x + y <= 65536 * x + 256 * y + z
      OBVIOUS
    <3>2. Number(t) = 256 * s[1] + s[2]
      BY <2>1, <2>2
    <3>3. 256 * s[1] + s[2] <= 65536 * s[1] + 256 * s[2] + s[3]
      BY <2>1, <3>1
    <3> QED BY <2>2a, <3>2, <3>3
  <2> QED BY <2>3 DEF t
<1> QED BY <1>1, <1>3, <1>4, <1>5, <1>6, <1>7

LEMMA SampleIs ==
  /\ Sample.time = read[5] /\ Sample.jitter = read[14]
  /\ Sample.fractional_loss = Number(read[11]) /\ Sample.total_loss = Number(read[12])
BY Indices DEF Sample, Got

LEMMA FaithfulWhenInvariant ==
  ASSUME IInv
  PROVE  SampleFaithful
<1>1. packet \in Seq(Bytes) /\ Basics /\ Fields /\ Returns
  BY DEF IInv, Basics
<1>2. LastByte \in Nat /\ Len(packet) \in Nat /\ LastByte <= Len(packet)
  BY <1>1, LastByteIsLast
<1>3. /\ BlankFrom("ts_seconds") <=> LastByte < 12
      /\ BlankFrom("floss") <=> LastByte < 33
      /\ BlankFrom("tloss") <=> LastByte < 36
      /\ BlankFrom("jitter") <=> LastByte < 44
  BY <1>1, Places, BlankAfter
<1>4. ASSUME outcome = "sample"
      PROVE  /\ Sample.time = Field("ts_seconds")
             /\ Sample.jitter = IF BlankFrom("jitter") THEN <<>> ELSE Field("jitter")
             /\ Sample.total_loss <= Number(Field("tloss"))
             /\ Sample.total_loss = Number(Field("tloss")) \/ BlankFrom("tloss")
             /\ Sample.fractional_loss \in
                  {Number(Field("floss"))} \cup IF BlankFrom("floss") THEN {0} ELSE {}
  <2>1. Count = 14
    BY <1>1, <1>4 DEF Returns
  <2>2. /\ LastByte > 11 /\ read[5] = SubSeq(packet, 9, 12)
        /\ read[11] = IF LastByte < 33 THEN <<>> ELSE <<packet[33]>>
        /\ read[12] = SubSeq(packet, 34, IF LastByte < 36 THEN LastByte ELSE 36)
        /\ read[14] = IF LastByte < 44 THEN <<>> ELSE SubSeq(packet, 41, 44)
    BY <1>1, <1>4, <2>1 DEF Fields
  <2>3. Sample.time = Field("ts_seconds")
    <3>1. 12 <= Len(packet)
      BY <1>2, <2>2
    <3> QED BY <1>1, <2>2, <3>1, SampleIs, FieldsAre
  <2>4. Sample.jitter = IF BlankFrom("jitter") THEN <<>> ELSE Field("jitter")
    <3>1. ~ (LastByte < 44) => 44 <= Len(packet)
      BY <1>2
    <3>2. ~ (LastByte < 44) => Field("jitter") = SubSeq(packet, 41, 44)
      BY <1>1, <3>1, FieldsAre
    <3> QED BY <1>3, <2>2, <3>2, SampleIs
  <2>5. Sample.fractional_loss \in
          {Number(Field("floss"))} \cup IF BlankFrom("floss") THEN {0} ELSE {}
    <3>1. CASE LastByte < 33
      BY <1>3, <2>2, <3>1, SampleIs, NumberOf
    <3>2. CASE ~ (LastByte < 33)
      <4>1. 33 <= Len(packet)
        BY <1>2, <3>2
      <4>2. Field("floss") = <<packet[33]>>
        BY <1>1, <4>1, FieldsAre
      <4> QED BY <2>2, <3>2, <4>2, SampleIs
    <3> QED BY <3>1, <3>2
  <2>6. /\ Sample.total_loss <= Number(Field("tloss"))
        /\ Sample.total_loss = Number(Field("tloss")) \/ BlankFrom("tloss")
    <3> DEFINE m == IF LastByte < 36 THEN LastByte ELSE 36
               e == IF 36 <= Len(packet) THEN 36 ELSE Len(packet)
               f == Field("tloss")
    <3>1. f = SubSeq(packet, 34, e)
      BY <1>1, FieldsAre
    <3>2. m \in Nat /\ e \in Nat /\ m <= e /\ e <= Len(packet) /\ e <= 36
      BY <1>2
    <3>3. ~ (LastByte < 36) => m = e
      BY <1>2
    <3>4. read[12] = SubSeq(packet, 34, m)
      BY <2>2
    <3>5. Sample.total_loss = Number(read[12])
      BY SampleIs
    <3> HIDE DEF m, e, f
    <3>6. f \in Seq(Bytes) /\ Len(f) = IF 34 <= e THEN e - 33 ELSE 0
      BY <1>1, <3>1, <3>2
    <3>7. \E n \in 0..Len(f) : SubSeq(packet, 34, m) = SubSeq(f, 1, n)
      <4>1. CASE 34 <= m
        <5>1. m - 33 \in 0..Len(f)
          BY <3>2, <3>6, <4>1
        <5>2. SubSeq(packet, 34, m) = SubSeq(f, 1, m - 33)
          BY <1>1, <3>1, <3>2, <4>1
        <5> QED BY <5>1, <5>2
      <4>2. CASE m < 34
        <5>1. SubSeq(packet, 34, m) = <<>> /\ SubSeq(f, 1, 0) = <<>>
          BY <1>1, <3>2, <3>6, <4>2
        <5>2. 0 \in 0..Len(f)
          BY <3>6
        <5> QED BY <5>1, <5>2
      <4> QED BY <3>2, <4>1, <4>2
    <3>8. Len(f) <= 3
      BY <3>2, <3>6
    <3>9. Number(SubSeq(packet, 34, m)) <= Number(f)
      BY <3>6, <3>7, <3>8, NumberOfFront
    <3> QED BY <1>3, <3>1, <3>3, <3>4, <3>5, <3>9 DEF f
  <2> QED BY <2>3, <2>4, <2>5, <2>6
<1>5. outcome = "raised" => BlankFrom("ts_seconds")
  BY <1>1, <1>3 DEF Returns
<1>6. outcome = "nothing" => Version(Field("headers")) # 2 \/ Number(Field("type")) # 200
  BY <1>1 DEF Returns
<1> QED BY <1>4, <1>5, <1>6 DEF SampleFaithful

-----------------------------------------------------------------------------
(* The theorem. *)

LEMMA Start ==
  ASSUME Init
  PROVE  IInv
<1>1. packet \in Seq(Bytes)
  BY DatagramsAssumption DEF Init
<1>2. Count = 0 /\ read \in Seq(Seq(Bytes))
  BY DEF Init, Count
<1>3. Basics
  BY <1>1, <1>2 DEF Init, Basics, Outcomes
<1>4. Position /\ Fields /\ Returns
  BY <1>2 DEF Init, Position, Fields, Returns
<1> QED BY <1>3, <1>4 DEF IInv

LEMMA Inductive ==
  ASSUME IInv, [Next]_vars
  PROVE  IInv'
<1>1. CASE UNCHANGED vars
  <2>1. LastByte' = LastByte /\ Count' = Count
    BY <1>1 DEF vars, LastByte, Count
  <2>2. Field("headers")' = Field("headers") /\ Field("type")' = Field("type")
    BY <1>1 DEF vars, Field
  <2>3. Basics' /\ Position'
    BY <1>1, <2>1 DEF IInv, Basics, Position, Aligned, Stuck, vars
  <2>4. Fields'
    BY <1>1, <2>1 DEF IInv, Fields, vars
  <2>5. Returns'
    BY <1>1, <2>1, <2>2 DEF IInv, Returns, vars
  <2> QED BY <2>3, <2>4, <2>5 DEF IInv
<1>2. CASE Next
  <2>1. Basics /\ Position /\ Fields
    BY DEF IInv
  <2>2. Basics' /\ Position' /\ Fields' /\ Returns'
    BY <1>2, <2>1, BasicsHold, PositionHolds, FieldsHold, ReturnsHold
  <2> QED BY <2>2 DEF IInv
<1> QED BY <1>1, <1>2

LEMMA PacketInvariant == Spec => []IInv
BY Start, Inductive, PTL DEF Spec

(* Whatever arrives, the figures of a sample are those of the packet,      *)
(* except that a field whose last byte and all after it are blank may be   *)
(* missing or too small; parse raises only if nothing follows the seconds, *)
(* and skips only what is no sender report (RTCPTools.parse).              *)
THEOREM SamplesAreFaithful == Spec => []SampleFaithful
BY PacketInvariant, FaithfulWhenInvariant, PTL
=============================================================================
