SPECIFICATION Spec
CONSTANTS
  Threads = {t1, t2}
  NoThread = NoThread
  Attrs <- TwoAttrs
  MaxOps = 4
  MaxCalls = 2
INVARIANTS ReentrantCallJustReturns
