--------------------------- MODULE MCRtcpListener ---------------------------
(***************************************************************************)
(* Instances of RtcpListener for TLC.                                      *)
(***************************************************************************)
EXTENDS RtcpListener
=============================================================================
