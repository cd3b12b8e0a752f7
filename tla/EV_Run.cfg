\* A tick is five seconds: the retry_conf of seed/metadata/metadata.json (three
\* retries, interval_sec 5, timeout_sec 10) and settleMs of the default profile.
SPECIFICATION Spec
CONSTANTS
  Plain = {p}
  Retries = {r}
  p = p
  r = r
  MaxRetries = 3
  Interval = 1
  Timeout = 2
  SettleTime = 6
  MaxFaults = 3
INVARIANTS
  EventsTypeOK
  LossIsReal
  NothingLostWithoutCause
  RetriesAreProved
  DuplicatesHaveCause
PROPERTY RunReconciles
CHECK_DEADLOCK FALSE
