SPECIFICATION Spec
CONSTANTS
  p1 = p1
  c1 = c1
  c2 = c2
  Places = {p1}
  Calls = {c1, c2}
  MaxVersion = 3
  Home <- Opened
  None = None
SYMMETRY Symmetry
CHECK_DEADLOCK FALSE
INVARIANTS TypeOK VotesFollow ListIsCurrent TalliesFollow
