SPECIFICATION VmSpec
CONSTANTS
  VMs = {v1, v2}
  Embedded = Embedded
  NoVM = NoVM
  MaxDepth = 5
  MaxCalls = 6
CHECK_DEADLOCK FALSE
INVARIANTS TokensAreAlive
