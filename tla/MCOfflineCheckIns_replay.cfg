SPECIFICATION CheckInsFairSpec
CONSTANTS
  Stops = {s}
  Actions = {"arrived"}
  Flushes = {f, g}
  MaxTaps = 2
  MaxTrouble = 1
  None = None
INVARIANTS NothingVanishes ReplayInOrder
PROPERTIES CheckInsDrain
