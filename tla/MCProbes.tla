------------------------------ MODULE MCProbes ------------------------------
(* Probes for TLC.  Loops differ in the probe they run and nothing else.   *)
EXTENDS ProbesProperties, TLC

LoopsAlike == Permutations(Loop)

=============================================================================
