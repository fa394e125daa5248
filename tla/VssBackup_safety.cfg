\* Two volumes in the set; an ended backup is a final state.
CONSTANT Volumes = {v1, v2}
SPECIFICATION Spec
CHECK_DEADLOCK FALSE
INVARIANTS
  PublishedMeansHeld
  FailureLeavesNothing
  WritersReleased
  ShadowsDeletedOrReported
