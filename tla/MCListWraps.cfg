CONSTANTS
  MaxLen = 4
  MaxUsize = 6
SPECIFICATION ListSpec
INVARIANT ReadsAreInBounds
CHECK_DEADLOCK FALSE
