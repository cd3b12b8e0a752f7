\* Two loops, two keys: an iteration after one whose answer was lost.
SPECIFICATION Spec
CONSTANTS
  Loop = {l1, l2}
  MaxKeys = 2
  MaxCounter = 2
  MaxLate = 1
SYMMETRY LoopsAlike
INVARIANTS
  ProbesTypeOK
  OutcomeNamesItsCause
  DefectIsReported
CHECK_DEADLOCK FALSE
