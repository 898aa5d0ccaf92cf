CONSTANTS
  Blocks = {b1, b2, b3}
  MaxCapacity = 2
  Extended = TRUE
SPECIFICATION FreeListSpec
INVARIANT ListedAreInstancesOfT
CHECK_DEADLOCK FALSE
