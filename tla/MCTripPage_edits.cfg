SPECIFICATION Spec
CONSTANTS
  s1 = s1
  s2 = s2
  Stops = {s1, s2}
  Initial <- One
  MaxVersion = 3
  MaxCalls = 2
  None = None
INVARIANTS TypeOK CopyIsExact AddedOnce RouteFollows
CHECK_DEADLOCK FALSE
