\* Can the pause button go on showing an older state of the operation?
CONSTANTS
  MaxChunks = 3
  MaxClicks = 4
  NoEvent = NoEvent
SPECIFICATION Spec
CHECK_DEADLOCK FALSE
INVARIANTS
  PausedShowsResume
