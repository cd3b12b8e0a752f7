\* One outage, with two attempts to reconnect during it.
SPECIFICATION Spec
CONSTANTS
  MaxSeq = 1
  MaxTime = 2
  MaxDrops = 2
  MaxBroken = 1
PROPERTY LossIsTimedFromItsStart
CHECK_DEADLOCK FALSE
