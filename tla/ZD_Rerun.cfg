\* An upgrade that is cut short between the drain of blue and its stop, and the
\* one that a new process then starts.
SPECIFICATION Spec
CONSTANTS
  Original = original
  Clones = {c1, c2}
  NoDb = none
  MaxChanges = 0
  Overlap = FALSE
  MaxFaults = 1
  MaxProcesses = 2

INVARIANT ClonesWhatServes
CHECK_DEADLOCK FALSE
