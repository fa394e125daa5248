\* Two snapshots with room for one block each, none left is a danger; a finished
\* copy is final.
CONSTANTS
  Snapshots = {s1, s2}
  Full = 1
  Reserve = 0
  MaxChunks = 2
  MaxReviews = 2
SPECIFICATION Spec
CHECK_DEADLOCK FALSE
INVARIANTS
  FailureHasCause
  SuccessMeansHeld
PROPERTIES
  NoUnreviewedOutput
