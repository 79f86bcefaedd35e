SPECIFICATION FairSpec
CONSTANTS
  r1 = r1
  r2 = r2
  Fetches = {r1, r2}
  MaxTime = 2
  MaxLinks = 1
  MaxCalls = 2
  None = None
INVARIANTS WaitersServed
PROPERTIES LoginKept DeadSessionEnds
CHECK_DEADLOCK FALSE
