SPECIFICATION FairSpec
CONSTANTS
  MaxTimers = 3
  MaxTime = 5
  Delays = {0, 2}
  Intervals = {1}
INVARIANTS
  NoAssertFails
  ArmedForEarliest
  RunsOnTime
PROPERTIES
  EveryTimerRuns
CHECK_DEADLOCK FALSE
