---------------------------- MODULE MCRtcpPacket ----------------------------
(***************************************************************************)
(* An instance of RtcpPacket for TLC: sender reports with and without a    *)
(* report block, receiver reports, other versions, and in every field that *)
(* is used zeros and spaces at every place that matters.                   *)
(***************************************************************************)
EXTENDS RtcpPacket

(* Version 2 with one report block, with none, and another version *)
Headers == {<<129>>, <<128>>, <<1>>}
Types == {<<200>>, <<201>>}

Words == {<<0, 0, 0, 0>>, <<0, 0, 32, 1>>, <<7, 0, 32, 0>>}
Counters == {[i \in 1..16 |-> byte] : byte \in {0, 9}}

SenderInfo ==
  {header \o type \o <<0, 12>> \o <<5, 5, 5, 5>> \o seconds \o counters :
     header \in Headers, type \in Types, seconds \in Words, counters \in Counters}

Blocks ==
  {source \o floss \o tloss \o sequence \o jitter \o after :
     source   \in {<<0, 0, 0, 0>>, <<5, 5, 5, 5>>},
     floss    \in {<<0>>, <<32>>, <<3>>},
     tloss    \in {<<0, 0, 0>>, <<0, 5, 0>>, <<1, 32, 0>>, <<0, 0, 4>>},
     sequence \in Words,
     jitter   \in Words,
     after    \in {<<0, 0, 0, 0, 0, 0, 0, 0>>, <<0, 0, 0, 0, 0, 0, 2, 0>>}}

Without == {info \in SenderInfo : info[1] = 128}

(* A packet may be empty, or end anywhere. *)
Cut == {SubSeq(<<129, 200, 0, 12, 5, 5, 5, 5, 7, 7, 7, 7>> \o [i \in 1..32 |-> 9], 1, n) : n \in 0..44}

SomeDatagrams ==
  Cut \cup Without \cup {info \o block : info \in SenderInfo, block \in Blocks}
=============================================================================
