SPECIFICATION FairSpec
CONSTANTS
  Conns = {c1}
  Msgs = {m1, m2}
  MsgLen = 2
  HighWater = 2
  MaxCloses = 2
  Threads = {t1, t2}
  ThreadNums = {0, 1}
  RemoteOps = {"shutdown", "forceClose", "forceCloseWithDelay"}
  LocalOps = {"send", "shutdown", "forceClose"}
  LateCalls = TRUE
  UserHooks = {}
  Teardown = FALSE
CHECK_DEADLOCK FALSE
INVARIANTS
  UpThenDown
  FinAfterData
PROPERTIES
  ClosedIsDestroyed
  ShutdownCompletes
