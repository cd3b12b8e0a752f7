\* Rollback and upgrade may overlap; a process may be interrupted and run again;
\* blue may be killed, or restarted, under them.
SPECIFICATION FaultsSpec
CONSTANTS
  Original = original
  Clones = {c1, c2}
  NoDb = none
  MaxChanges = 0
  Overlap = TRUE
  MaxFaults = 1
  MaxProcesses = 2
  Request = {q1}
  Retries = 1
SYMMETRY ClonesAlike
INVARIANTS
  WayBackIntact
  AppliedAtMostOnce
CHECK_DEADLOCK FALSE
