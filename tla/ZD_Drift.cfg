\* An operator changes metadata on blue during an upgrade.
SPECIFICATION Spec
CONSTANTS
  Original = original
  Clones = {c1}
  NoDb = none
  MaxChanges = 1
  Overlap = FALSE
  MaxFaults = 0
  MaxProcesses = 1

INVARIANT DriftIsRecorded
CHECK_DEADLOCK FALSE
