--------------------------- MODULE MCResultsPage ---------------------------
(***************************************************************************)
(* An instance of ResultsPage for TLC: two series, and of three charts the *)
(* last is behind one that may have no div.                                *)
(***************************************************************************)
EXTENDS ResultsPage

ThreeGraphs == <<"calls", "jitter", "callRate">>
=============================================================================
