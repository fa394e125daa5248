\* Three chunks and four clicks, with a cancellation at any point; the threads are
\* scheduled, the user clicks or not, as he likes.
CONSTANTS
  MaxChunks = 3
  MaxClicks = 4
  NoEvent = NoEvent
SPECIFICATION FairSpec
CHECK_DEADLOCK FALSE
INVARIANTS
  TypeOK
  PausedAtBoundary
  NoPauseWhenNotPausable
  ButtonNeverReversed
PROPERTIES
  CancelIsFinal
  CancelStopsCopying
  CancelEnds
