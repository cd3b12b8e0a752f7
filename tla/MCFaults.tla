------------------------------ MODULE MCFaults ------------------------------
(* TLC instances of upgrades and rollbacks disturbed by faults.            *)
EXTENDS Faults, TrafficProperties, MCZeroDowntime

=============================================================================
