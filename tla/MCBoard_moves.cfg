SPECIFICATION Spec
CONSTANTS
  s1 = s1
  s2 = s2
  d1 = d1
  d2 = d2
  Stops = {s1, s2}
  Order <- InOrder
  Days = {d1, d2}
  FirstPlans <- First
  Roles = {"editor", "viewer"}
  Others = {s1}
  Enough = 2
  MaxWrites = 2
  h1 = h1
  h2 = h2
  Slots = {h1, h2}
  Unscheduled = Unscheduled
  None = None
INVARIANTS TypeOK ChipsOnce BoardIsExact
SYMMETRY AnySlot
CHECK_DEADLOCK FALSE
