\* Three runs over one final name; the directory at rest is a final state.
CONSTANTS
  MaxRuns = 3
  Nothing = Nothing
  Foreign = Foreign
SPECIFICATION Spec
CHECK_DEADLOCK FALSE
INVARIANTS
  FinalIsWhole
PROPERTIES
  ImageNeverLost
  ForeignUntouched
  ImplementsStagedFile
