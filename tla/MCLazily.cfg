SPECIFICATION LazilySpec
CONSTANTS
  Threads = {t1, t2, t3}
  NoThread = NoThread
  Values = {v1, v2, v3, v4}
  NoValue = NoValue
  MaxDepth = 2
  Attrs <- TwoAttrs
  MaxOps = 4
  MaxCalls = 2
SYMMETRY Symmetry
INVARIANTS UnwrapNeverFails OneOwner OneWriter TypeOK NoStaleThread ServedIsFilled DictIsWhole
PROPERTIES ImplementsWriteOnce FilledIsFinal
