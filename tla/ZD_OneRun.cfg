\* One orchestrator process: an upgrade, then a rollback, two commands fail,
\* and a request is sent at some point.
SPECIFICATION TrafficSpec
CONSTANTS
  Original = original
  Clones = {c1}
  NoDb = none
  MaxChanges = 1
  Overlap = FALSE
  MaxFaults = 2
  MaxProcesses = 1
  Request = {q1}
  Retries = 3
INVARIANTS
  TrafficTypeOK
  AlwaysServing
  OnlyProvenServes
  AbortIsNonEvent
  OutcomeIsExclusive
  NoRequestIsLost
PROPERTIES
  NeverStopsReadyServer
  PromiseKept
  UpgradeSettles
  RollbackSettles
  LoopStops
CHECK_DEADLOCK FALSE
