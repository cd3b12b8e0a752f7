\* The rollback's timer fires while the upgrade is still running; nothing fails.
SPECIFICATION Spec
CONSTANTS
  Original = original
  Clones = {c1}
  NoDb = none
  MaxChanges = 0
  Overlap = TRUE
  MaxFaults = 0
  MaxProcesses = 1

INVARIANT AlwaysServing
CHECK_DEADLOCK FALSE
