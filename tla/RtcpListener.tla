---------------------------- MODULE RtcpListener ----------------------------
(***************************************************************************)
(* RTCPTools::Listener of one performance: a thread puts the loss and the  *)
(* jitter of every RTCP sender report into a hash of hashes of arrays,     *)
(* while the worker's thread stops it, without waiting for it, and         *)
(* computes maxima and averages of what it finds.                          *)
(*                                                                         *)
(* A sample is the packet it came with.  Threads switch between any two    *)
(* operations on the shared hash.                                          *)
(***************************************************************************)
EXTENDS Naturals, Sequences, FiniteSets, Functions

CONSTANTS
  Packets,  \* the sender reports that may arrive
  Seconds   \* the seconds they may be stamped with

VARIABLES
  thread,   \* where the thread is in Listener#run
  hand,     \* its local variables: the packet, its second, the field k
  running,  \* @running
  socket,   \* @socket
  data,     \* @data: second -> field -> samples, as far as assigned
  keys,     \* the seconds of @data, in the order of insertion
  blank,    \* packets whose jitter was parsed as nil
  received, \* history: packets that arrived
  due,      \* history: packets in @data when stop was called
  main,     \* where the worker's thread is in Runner#run
  row,      \* what organize_data read so far for one second
  report    \* organized_data

listenerVars == <<thread, hand, data, keys, blank, received>>
mainVars     == <<running, socket, due, main, row, report>>
vars         == <<listenerVars, mainVars>>

(* The order of [:fractional_loss, :jitter].each *)
Fields == <<"fractional_loss", "jitter">>

(* organize_data reads the arrays of a second for max, sum and length. *)
Reads == <<"jitter", "jitter", "jitter",
           "fractional_loss", "fractional_loss", "fractional_loss">>

Hand == [packet : Packets, second : Seconds, field : 1..Len(Fields)]

(* The hash f once f[k] = v is assigned *)
Put(f, k, v) == [x \in DOMAIN f \cup {k} |-> IF x = k THEN v ELSE f[x]]

(* The packets all of whose samples are in @data *)
Recorded == {p \in received :
               \E t \in DOMAIN data :
                 /\ DOMAIN data[t] = Range(Fields)
                 /\ \A f \in DOMAIN data[t] : p \in Range(data[t][f])}

Init == /\ thread = "checking"
        /\ hand \in {h \in Hand : h.field = 1}
        /\ running = TRUE
        /\ socket = "open"
        /\ data = <<>>
        /\ keys = <<>>
        /\ blank = {}
        /\ received = {}
        /\ due = {}
        /\ main = "loading"
        /\ row = <<>>
        /\ report = <<>>
-----------------------------------------------------------------------------
(* Listener#run *)

Goto(from, to) == thread = from /\ thread' = to

(* Variant: the loop does not look at @running. *)
CheckNothing ==
  /\ Goto("checking", "selecting")
  /\ UNCHANGED <<hand, data, keys, blank, received, mainVars>>

Check ==
  /\ Goto("checking", IF running THEN "selecting" ELSE "ended")
  /\ UNCHANGED <<hand, data, keys, blank, received, mainVars>>

(* No packet for three seconds, or one that is not a sender report. *)
Nothing ==
  /\ Goto("selecting", "checking")
  /\ UNCHANGED <<hand, data, keys, blank, received, mainVars>>

(* A sender report arrives.  The parser strips zero bytes from the end of  *)
(* a packet: what follows the jitter and the jitter itself may be missing. *)
Receive ==
  /\ socket = "open"
  /\ Goto("selecting", "entering")
  /\ \E p \in Packets \ received, t \in Seconds :
       /\ hand' = [packet |-> p, second |-> t, field |-> 1]
       /\ received' = received \cup {p}
       /\ blank' \in {blank, blank \cup {p}}
  /\ UNCHANGED <<data, keys, mainVars>>

(* A report that ends before its timestamp makes the parser raise; a       *)
(* socket that was closed meanwhile raises.  The thread is gone.           *)
Break ==
  /\ Goto("selecting", "dead")
  /\ UNCHANGED <<hand, data, keys, blank, received, mainVars>>

(* Variant: a known second is started afresh. *)
EnterAfresh ==
  /\ Goto("entering", "assigning")
  /\ data' = Put(data, hand.second, <<>>)
  /\ keys' = IF hand.second \in DOMAIN data THEN keys ELSE Append(keys, hand.second)
  /\ UNCHANGED <<hand, blank, received, mainVars>>

(* @data[t] ||= { }: Ruby raises where a key is added to a hash that is    *)
(* being iterated over, in the thread that adds it.                        *)
Enter ==
  /\ UNCHANGED <<hand, blank, received, mainVars>>
  /\ \/ /\ hand.second \in DOMAIN data
        /\ Goto("entering", "assigning")
        /\ UNCHANGED <<data, keys>>
     \/ /\ hand.second \notin DOMAIN data
        /\ main # "iterating"
        /\ Goto("entering", "assigning")
        /\ data' = Put(data, hand.second, <<>>)
        /\ keys' = Append(keys, hand.second)
     \/ /\ hand.second \notin DOMAIN data
        /\ main = "iterating"
        /\ Goto("entering", "dead")
        /\ UNCHANGED <<data, keys>>

(* @data[t][k] ||= [] *)
Assign ==
  LET t == hand.second
      k == Fields[hand.field]
  IN /\ Goto("assigning", "pushing")
     /\ data' = IF k \in DOMAIN data[t] THEN data
                ELSE Put(data, t, Put(data[t], k, <<>>))
     /\ UNCHANGED <<hand, keys, blank, received, mainVars>>

(* @data[t][k] << new_data[k], then the next k or the next packet *)
Push ==
  LET last == hand.field = Len(Fields) IN
  /\ Goto("pushing", IF last THEN "checking" ELSE "assigning")
  /\ data' = [data EXCEPT ![hand.second][Fields[hand.field]] = Append(@, hand.packet)]
  /\ hand' = [hand EXCEPT !.field = IF last THEN @ ELSE @ + 1]
  /\ UNCHANGED <<keys, blank, received, mainVars>>
-----------------------------------------------------------------------------
(* Runner#run, from the moment SIPp is over *)

(* Variant: the samples are organized before the listener is stopped. *)
OrganizeAtOnce ==
  /\ main = "loading"
  /\ main' = "iterating"
  /\ due' = Recorded
  /\ UNCHANGED <<listenerVars, running, socket, row, report>>

(* stop: @running = false ... *)
Stop ==
  /\ main = "loading"
  /\ main' = "closing"
  /\ running' = FALSE
  /\ due' = Recorded
  /\ UNCHANGED <<listenerVars, socket, row, report>>

(* ... @socket.close.  A performance that was stopped, or failed, does not *)
(* look at the samples.                                                    *)
Close ==
  /\ main = "closing"
  /\ socket' = "closed"
  /\ main' \in {"iterating", "skipped"}
  /\ UNCHANGED <<listenerVars, running, due, row, report>>

Current == keys[Len(report) + 1]

(* nil has no max and no sum with another sample. *)
Computable(s, read) == read \notin {1, 2} \/ Len(s) < 2 \/ Range(s) \cap blank = {}

(* One of max, sum and length of one of the arrays *)
Read ==
  LET read == Len(row) + 1
      k    == Reads[read]
      hash == data[Current]
  IN /\ main = "iterating"
     /\ Len(report) < Len(keys)
     /\ Len(row) < Len(Reads)
     /\ IF k \in DOMAIN hash /\ Computable(hash[k], read)
        THEN row' = Append(row, hash[k]) /\ UNCHANGED main
        ELSE main' = "raised" /\ UNCHANGED row
     /\ UNCHANGED <<listenerVars, running, socket, due, report>>

(* Variant: the last figure is forgotten. *)
EndRowEarly ==
  /\ main = "iterating"
  /\ Len(row) = Len(Reads) - 1
  /\ report' = Append(report, [time |-> Current, reads |-> row])
  /\ row' = <<>>
  /\ UNCHANGED <<listenerVars, running, socket, due, main>>

(* organized_data << ... *)
EndRow ==
  /\ main = "iterating"
  /\ Len(row) = Len(Reads)
  /\ report' = Append(report, [time |-> Current, reads |-> row])
  /\ row' = <<>>
  /\ UNCHANGED <<listenerVars, running, socket, due, main>>

Finish ==
  /\ main = "iterating"
  /\ Len(report) = Len(keys)
  /\ main' = "done"
  /\ UNCHANGED <<listenerVars, running, socket, due, row, report>>
-----------------------------------------------------------------------------
ThreadStep == Check \/ Nothing \/ Receive \/ Break \/ Enter \/ Assign \/ Push
MainStep   == Stop \/ Close \/ Read \/ EndRow \/ Finish

Next == ThreadStep \/ MainStep

Spec == Init /\ [][Next]_vars

(* The thread gets to run, IO.select returns after three seconds.  Nothing *)
(* is assumed of how long SIPp runs.                                       *)
Fairness == WF_vars(ThreadStep) /\ WF_vars(Close \/ Read \/ EndRow \/ Finish)

FairSpec == Spec /\ Fairness
-----------------------------------------------------------------------------
(* Properties *)

(* Every variable has its type. *)
TypeOK == /\ thread \in {"checking", "selecting", "entering", "assigning",
                         "pushing", "ended", "dead"}
          /\ hand \in Hand
          /\ running \in BOOLEAN
          /\ socket \in {"open", "closed"}
          /\ DOMAIN data \subseteq Seconds
          /\ \A t \in DOMAIN data :
               /\ DOMAIN data[t] \subseteq Range(Fields)
               /\ \A k \in DOMAIN data[t] : data[t][k] \in Seq(Packets)
          /\ keys \in Seq(Seconds)
          /\ blank \subseteq received
          /\ received \subseteq Packets
          /\ due \subseteq received
          /\ main \in {"loading", "closing", "iterating", "skipped", "raised", "done"}
          /\ row \in Seq(Seq(Packets)) /\ Len(row) <= Len(Reads)
          /\ report \in Seq([time : Seconds, reads : [1..Len(Reads) -> Seq(Packets)]])

(* Packets that are in some but not in all figures of a row *)
Torn(r) == LET counted(p) == {i \in DOMAIN r.reads : p \in Range(r.reads[i])}
           IN {p \in Packets : counted(p) \notin {{}, DOMAIN r.reads}}

(* Although nobody waits for the thread, and the worker reads six figures  *)
(* per second while it may still write, at most one packet of the whole    *)
(* report is in some figures of its second and not in others: the one the  *)
(* thread had in hand when it was stopped (listener.rb, 15 and 31-40).     *)
OneTornPacket == Cardinality(UNION {Torn(report[i]) : i \in DOMAIN report}) <= 1

(* A packet whose samples were in @data when the listener was stopped is   *)
(* in every figure of one row, whatever the thread does meanwhile.         *)
NothingLost ==
  main = "done" =>
    \A p \in due : \E i \in DOMAIN report :
      \A k \in DOMAIN Reads : p \in Range(report[i].reads[k])

(* Once stop is called at most one more packet gets into @data.            *)
OneLatePacket == main # "loading" => Cardinality(Recorded \ due) <= 1

(* The thread of a stopped listener ends, whether it was waiting, parsing  *)
(* or writing (listener.rb, 15 and 48-51).                                 *)
ListenerEnds == main = "closing" ~> thread \in {"ended", "dead"}
=============================================================================
