SPECIFICATION Spec
CONSTANTS
  Second = 2
  Probes <- MCProbes
  Action <- MCAction
  Kinds <- MCKinds
  Measured <- MCMeasured
  MaxTime = 2
  MaxRecords = 3
  MaxEntries = 5
INVARIANTS
  RunnerTypeOK
  OutageIsTheLongestStretch
  OutageIsNotUnderstated
  QuietIsQuiet
  HeadlineCoversWindows
  PassMeansNothingFailed
PROPERTIES
  TimelineIsFinal
  RunIsScored
CHECK_DEADLOCK FALSE
