----------------------------- MODULE MCTraffic -----------------------------
(* TLC instances of an upgrade and a rollback under traffic.  Requests do  *)
(* not influence one another: waitDrained only asks whether any is left.   *)
EXTENDS TrafficProperties, MCZeroDowntime

=============================================================================
