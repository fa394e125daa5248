\* Two runs over the disk, three chunks each, one in the first and one in the
\* last MiB; a stopped target is a final state.
CONSTANTS
  Chunks = {c1, c2, c3}
  HeadChunks = {c1}
  TailChunks = {c3}
  MaxRuns = 2
  StyleOf <- MCStyleOf
  Zero = Zero
  Bad = Bad
  NoTable = NoTable
SPECIFICATION Spec
CHECK_DEADLOCK FALSE
INVARIANTS
  TypeOK
  TableImpliesData
  SuccessIsDurable
  CancelLeavesDiskSettled
  CancelHonoured
PROPERTIES
  ImplementsTarget
