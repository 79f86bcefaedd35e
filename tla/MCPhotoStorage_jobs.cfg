SPECIFICATION FairSpec
CONSTANTS
  Keys = {k, l}
  Requests = {q, r}
  Cleaners = {c, d}
  PhotoLimit = 2
  MaxAttempts = 2
INVARIANTS TypeOK PhotosHaveObjects NoObjectForgotten
PROPERTIES QueueKeepsKeys QueueDrains
CHECK_DEADLOCK FALSE
