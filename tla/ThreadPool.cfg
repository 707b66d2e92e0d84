SPECIFICATION FairSpec
CONSTANTS
  Tasks = {t1, t2}
  Workers = {w1, w2}
  Helpers = {h}
  Owner = o
  Word = 8
  MaxCalls = 2
CHECK_DEADLOCK FALSE
INVARIANTS
  CountIsExact
  WaitIsABarrier
  PauseStopsWorkers
PROPERTIES
  NothingHangs
