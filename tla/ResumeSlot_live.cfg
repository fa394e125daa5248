\* Two controllers and one operation; users who come back.
CONSTANTS
  Controllers = {c1, c2}
  User = c1
  MaxOps = 1
  MaxWork = 1
  MaxRev = 4
  NoSlot = NoSlot
  Torn = Torn
  MaxFaults = 0

SPECIFICATION FairSpec
CHECK_DEADLOCK FALSE
PROPERTIES
  UserRecoversSlot
