SPECIFICATION Spec
CONSTANTS
  Requests = {p, q, r}
  Users = {u, v}
  Invites = {i, j}
  MaxUses = 1
INVARIANTS LinkLimit
PROPERTIES RevokedAdmitsNobody OnlyOwnerChangesRoles
SYMMETRY Interchangeable
CHECK_DEADLOCK FALSE
