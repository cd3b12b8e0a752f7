\* Three rows, two disturbances, attempts refused up to the third drop.
SPECIFICATION Spec
CONSTANTS
  MaxSeq = 3
  MaxTime = 1
  MaxDrops = 3
  MaxBroken = 2
INVARIANTS
  TypeOK
  NothingSkipped
  NoDropHides
PROPERTIES
  FeedKept
  CatchesUp
CHECK_DEADLOCK FALSE
