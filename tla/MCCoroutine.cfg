SPECIFICATION Spec
CONSTANTS
  Threads = {t1, t2}
  MaxPolls = 8
  MaxEvents = 2
  MaxCancels = 1
  MaxYields = 1
  MaxAwaits = 1
INVARIANTS TypeOK NoLostWakeUp WakesOwnPoll
PROPERTIES DoneIsFinal EventIsPolled
CHECK_DEADLOCK FALSE
