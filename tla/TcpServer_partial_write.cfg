SPECIFICATION Spec
CONSTANTS
  Conns = {c1}
  Msgs = {m1}
  MsgLen = 2
  HighWater = 2
  MaxCloses = 1
  Threads = {t1}
  ThreadNums = {1}
  RemoteOps = {}
  LocalOps = {"send"}
  LateCalls = FALSE
  UserHooks = {}
  Teardown = FALSE
CHECK_DEADLOCK FALSE
INVARIANT StreamIsIntact
