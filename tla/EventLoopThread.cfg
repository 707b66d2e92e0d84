SPECIFICATION ThreadSpec
CONSTANTS
  Functors = {f1, f2, f3}
  Threads = {t1, t2}
  Owner = t1
  IoChannels = {io}
  Wakeup = wakeup
  EventfdMax = 2
CHECK_DEADLOCK FALSE
INVARIANTS
  NoLostWakeup
PROPERTIES
  ImplementsExecutor
  FunctorsAreRun
  DestructorReturns
