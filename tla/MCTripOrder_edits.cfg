SPECIFICATION OrderSpec
CONSTANTS
  Editors = {a, b}
  StopIds <- MCStopIds
  DayIds <- MCDayIds
  LastNumber = 4
INVARIANTS PositionsContiguous
PROPERTIES OnlyReorderReorders DaysKeepOrder
SYMMETRY Interchangeable
