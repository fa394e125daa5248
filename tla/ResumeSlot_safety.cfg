\* Two controllers, two operations, one interference of a user or failed rollback.
CONSTANTS
  Controllers = {c1, c2}
  User = c1
  MaxOps = 2
  MaxWork = 1
  MaxRev = 4
  NoSlot = NoSlot
  Torn = Torn
  MaxFaults = 1
SYMMETRY ControllerSymmetry
SPECIFICATION Spec
CHECK_DEADLOCK FALSE
INVARIANTS
  TypeOK
  StageIsMine
  ReplaceHitsReviewed
  HeldSlotIsReviewed
  NoOverwrite
  SuccessMeansDone
PROPERTIES
  RecordLeadsToImage
  RetireOnlyIntact
  ImplementsStore
