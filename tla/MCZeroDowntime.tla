--------------------------- MODULE MCZeroDowntime ---------------------------
(* TLC instances of the zero-downtime upgrader.  Clones are created under  *)
(* fresh names and never compared otherwise: they are interchangeable.     *)
EXTENDS ZeroDowntimeProperties, TLC

ClonesAlike == Permutations(Clones)

=============================================================================
