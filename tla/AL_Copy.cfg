\* One upgrade, then a rollback; one command fails, one query of the copy fails.
SPECIFICATION LogSpec
CONSTANTS
  Original = original
  Clones = {c1}
  NoDb = none
  MaxChanges = 0
  Overlap = FALSE
  MaxFaults = 1
  MaxProcesses = 1
  Action = {a1}
  MaxCopyFaults = 1
INVARIANTS
  ActionLogTypeOK
  NoResultLeftBehind
  NoActionForgotten
PROPERTIES
  ResultsAreNeverUndone
  ResultReachesClient
CHECK_DEADLOCK FALSE
