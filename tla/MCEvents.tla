------------------------------ MODULE MCEvents ------------------------------
(* Events for TLC.                                                         *)
EXTENDS EventsProperties

=============================================================================
