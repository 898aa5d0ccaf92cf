CONSTANTS
  Objects = {o1, o2}
  MaxDepth = 5
SPECIFICATION PayloadSpec
INVARIANT SoleAccessor
CHECK_DEADLOCK FALSE
