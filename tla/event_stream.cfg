SPECIFICATION FairSpec
CONSTANTS
  Jobs = {j1, j2}
  Replay = 1
  Keep = 1
  MaxEvents = 3
  MaxDrops = 2
  None = None
PROPERTIES
  NothingIsTakenBack
  EventuallyCurrent
CHECK_DEADLOCK FALSE
