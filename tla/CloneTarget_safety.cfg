\* Every job on both routes; a clone that is over is a final state.
SPECIFICATION Spec
CHECK_DEADLOCK FALSE
INVARIANTS
  TargetProtected
  MandatoryVerification
  SourceGuarded
