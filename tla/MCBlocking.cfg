SPECIFICATION BlockingFairSpec
CONSTANTS
  Threads = {t1, t2, t3}
  NoThread = NoThread
  MaxLockOps = 3
  MaxOps = 4
INVARIANTS
  InitialisedOnReturn PoisonReported
  ReferencesAreNormalized InnerIsExclusive ReentryIsDetected PanicsOnlyIfDisturbed
PROPERTIES EveryCallReturns EveryThreadLeaves
