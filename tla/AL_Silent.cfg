\* No command fails but one query of the copy.
SPECIFICATION LogSpec
CONSTANTS
  Original = original
  Clones = {c1}
  NoDb = none
  MaxChanges = 0
  Overlap = FALSE
  MaxFaults = 0
  MaxProcesses = 1
  Action = {a1}
  MaxCopyFaults = 1
INVARIANT FailuresAreRecorded
CHECK_DEADLOCK FALSE
