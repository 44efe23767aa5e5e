------------------------------ MODULE MCAlerts ------------------------------
(* A node that is down and a user near the quota. *)
EXTENDS Alerts

MCNodeAlerts == {"node"}
MCUserAlerts == {"quota"}
=============================================================================
