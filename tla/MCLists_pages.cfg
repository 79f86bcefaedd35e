SPECIFICATION Spec
CONSTANTS
  Items = {m, v}
  Invites = {v}
  Link = v
  Recap = m
  Pages = {"packing", "budget", "comments", "members", "share"}
  MaxWrites = 3
  Slots = {c1, c2}
  New = new
  None = none
SYMMETRY Symmetry
CHECK_DEADLOCK FALSE
INVARIANTS TypeOK ListExact OwnShown
