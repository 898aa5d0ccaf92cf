SPECIFICATION FairSpec
CONSTANTS
  h1 = h1
  o1 = o1
  Threads = {t1, t2}
  NoThread = NoThread
  Handles = {h1, h2, h3}
  Objects <- MCObjects
  InitialOf <- MCInitialOf
  Initial <- MCInitial
  MaxOps = 4
INVARIANTS CountImpliesGil RefcountExact
PROPERTIES RefcountUnderGil NoResurrection
PROPERTIES QueuedDecrefApplied EveryThreadLeaves
