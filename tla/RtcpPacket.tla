----------------------------- MODULE RtcpPacket -----------------------------
(***************************************************************************)
(* RTCPTools.parse: the fields of a sender report are unpacked one after   *)
(* the other, each together with the rest of the packet (A star), from     *)
(* which unpack strips the zero bytes and spaces at the end.               *)
(*                                                                         *)
(* Only the rest may be stripped, yet it is all that is left: a field near *)
(* the end of a packet that ends in such bytes is cut, or not there.       *)
(***************************************************************************)
EXTENDS Naturals, Sequences, SequencesExt, FiniteSetsExt

CONSTANT Datagrams  \* the packets that arrive, as sequences of bytes

Bytes == 0..255

ASSUME DatagramsAssumption == Datagrams \subseteq Seq(Bytes)

VARIABLES
  packet,  \* the packet
  rest,    \* @packet
  read,    \* what was unpacked so far, field by field
  outcome  \* of parse

vars == <<packet, rest, read, outcome>>

(* The fields, with the number of their bytes, and whether unpack makes an *)
(* integer of them, all or nothing, or a string of what there is.          *)
Layout == <<
  [name |-> "headers",       size |-> 1, integer |-> FALSE],
  [name |-> "type",          size |-> 1, integer |-> TRUE],
  [name |-> "length",        size |-> 2, integer |-> TRUE],
  [name |-> "ssrc",          size |-> 4, integer |-> FALSE],
  [name |-> "ts_seconds",    size |-> 4, integer |-> TRUE],
  [name |-> "ts_fraction",   size |-> 4, integer |-> TRUE],
  [name |-> "rtp_timestamp", size |-> 4, integer |-> TRUE],
  [name |-> "packet_count",  size |-> 4, integer |-> TRUE],
  [name |-> "octet_count",   size |-> 4, integer |-> TRUE],
  [name |-> "source_ssrc",   size |-> 4, integer |-> FALSE],
  [name |-> "floss",         size |-> 1, integer |-> TRUE],
  [name |-> "tloss",         size |-> 3, integer |-> FALSE],
  [name |-> "sequence",      size |-> 4, integer |-> TRUE],
  [name |-> "jitter",        size |-> 4, integer |-> TRUE] >>

IndexOf(name) == CHOOSE i \in DOMAIN Layout : Layout[i].name = name

(* What was unpacked for a field; nil, and an empty string, are <<>>. *)
Got(name) == read[IndexOf(name)]

(* The unsigned number up to three bytes are, most significant first;      *)
(* nothing is 0, as in nil.to_i, nil.to_f and "".to_i.  Nobody computes    *)
(* with the integers of four bytes.                                        *)
Number(bytes) ==
  CASE Len(bytes) = 0 -> 0
    [] Len(bytes) = 1 -> bytes[1]
    [] Len(bytes) = 2 -> 256 * bytes[1] + bytes[2]
    [] Len(bytes) = 3 -> 65536 * bytes[1] + 256 * bytes[2] + bytes[3]

Init == /\ packet \in Datagrams
        /\ rest = packet
        /\ read = <<>>
        /\ outcome = "parsing"
-----------------------------------------------------------------------------
Blank == {0, 32}

(* A star. *)
Stripped(bytes) == SubSeq(bytes, 1, Max({0} \cup {i \in DOMAIN bytes : bytes[i] \notin Blank}))

(* An integer that lacks a byte is nil, and its bytes stay in the rest. *)
Taken(field) == IF field.integer /\ Len(rest) < field.size THEN 0
                ELSE Min({field.size, Len(rest)})

Version(header) == Number(header) \div 64
ReportCount(header) == Number(header) % 32

(* The returns of parse; parse_headers raises for an empty packet, whose   *)
(* slice(3, 5) is nil, and convert_ntp_epoch for nil.                      *)
Outcome(name, bytes) ==
  CASE name = "headers" /\ bytes = <<>>              -> "raised"
    [] name = "headers" /\ bytes # <<>> /\ Version(bytes) # 2 -> "nothing"
    [] name = "type" /\ Number(bytes) # 200          -> "nothing"
    [] name = "ts_seconds" /\ bytes = <<>>           -> "raised"
    [] name = "jitter"                               -> "sample"
    [] OTHER                                         -> "parsing"

(* Variant: total loss is unpacked as B16. *)
UnpackShort ==
  LET field == Layout[Len(read) + 1]
      size  == IF field.name = "tloss" THEN Min({2, Len(rest)}) ELSE Taken(field)
      bytes == SubSeq(rest, 1, size)
  IN /\ outcome = "parsing"
     /\ read' = Append(read, bytes)
     /\ rest' = Stripped(SubSeq(rest, size + 1, Len(rest)))
     /\ outcome' = Outcome(field.name, bytes)
     /\ UNCHANGED packet

(* The two counts are unpacked by one call: stripping between them would   *)
(* change nothing, since the rest was stripped before.                     *)
Unpack ==
  LET field == Layout[Len(read) + 1]
      bytes == SubSeq(rest, 1, Taken(field))
  IN /\ outcome = "parsing"
     /\ read' = Append(read, bytes)
     /\ rest' = Stripped(SubSeq(rest, Taken(field) + 1, Len(rest)))
     /\ outcome' = Outcome(field.name, bytes)
     /\ UNCHANGED packet

Next == Unpack

Spec == Init /\ [][Next]_vars

(* What parse returns. *)
Sample == [time            |-> Got("ts_seconds"),
           fractional_loss |-> Number(Got("floss")),  \* in 256ths
           total_loss      |-> Number(Got("tloss")),
           jitter          |-> Got("jitter")]
-----------------------------------------------------------------------------
(* Properties *)

(* Reference: the first and the last byte of a field (RFC 3550, 6.4.1).    *)
Place == [headers |-> <<1, 1>>, type |-> <<2, 2>>, ts_seconds |-> <<9, 12>>,
          floss |-> <<33, 33>>, tloss |-> <<34, 36>>, jitter |-> <<41, 44>>]

FirstOf(name) == Place[name][1]
EndOf(name)   == Place[name][2]

(* What the packet has of a field. *)
Field(name) == SubSeq(packet, FirstOf(name), Min({EndOf(name), Len(packet)}))

(* From the last byte of the field on there are only zeros and spaces.     *)
BlankFrom(name) == \A i \in EndOf(name)..Len(packet) : packet[i] \in Blank

(* The figures of a sample are those of the packet, except that a field    *)
(* whose last byte, and all that follows it, is blank may be misread: then *)
(* the jitter is nil and a loss is too small, never too large.  A packet   *)
(* makes parse raise only if nothing follows its seconds, and is skipped   *)
(* only if it is no sender report (rtcp_tools.rb, 3-34).                   *)
SampleFaithful ==
  /\ outcome = "sample" /\ ReportCount(Field("headers")) # 0 =>
       /\ Sample.time = Field("ts_seconds")
       /\ Sample.jitter = IF BlankFrom("jitter") THEN <<>> ELSE Field("jitter")
       /\ Sample.total_loss <= Number(Field("tloss"))
       /\ Sample.total_loss = Number(Field("tloss")) \/ BlankFrom("tloss")
       /\ Sample.fractional_loss \in
            {Number(Field("floss"))} \cup IF BlankFrom("floss") THEN {0} ELSE {}
  /\ outcome = "raised" => BlankFrom("ts_seconds")
  /\ outcome = "nothing" =>
       Version(Field("headers")) # 2 \/ Number(Field("type")) # 200
=============================================================================
