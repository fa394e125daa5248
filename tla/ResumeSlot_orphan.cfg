\* One operation is enough for a discard to leave an orphan behind.
CONSTANTS
  Controllers = {c1, c2}
  User = c1
  MaxOps = 1
  MaxWork = 1
  MaxRev = 4
  NoSlot = NoSlot
  Torn = Torn
  MaxFaults = 0
SYMMETRY ControllerSymmetry
SPECIFICATION Spec
CHECK_DEADLOCK FALSE
INVARIANTS
  EmptyMeansNoOrphan
