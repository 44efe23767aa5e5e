--------------------------- MODULE MCTrafficLedger ---------------------------
(* TrafficLedger for TLC: one node, one user, both daemons. *)
EXTENDS TrafficLedger
=============================================================================
