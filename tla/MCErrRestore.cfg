SPECIFICATION Spec
CONSTANTS
  Threads = {t1, t2}
  NoThread = NoThread
  MaxOps = 3
INVARIANTS RestoreFindsTheState
