\* Does an interrupted image survive every interruption of its writer?
CONSTANTS
  Chunks = 3
  Zeros = {2}
  MaxDamages = 2
SPECIFICATION Spec
INVARIANTS
  CheckpointIsDurable
  ResumeNotRefused
  SuccessIsWhole
