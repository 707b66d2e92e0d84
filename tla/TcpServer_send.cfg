SPECIFICATION Spec
CONSTANTS
  Conns = {c1, c2}
  Msgs = {m1, m2}
  MsgLen = 2
  HighWater = 2
  MaxCloses = 1
  Threads = {t1}
  ThreadNums = {0, 2}
  RemoteOps = {"send", "shutdown"}
  LocalOps = {"send", "forceClose", "forceCloseWithDelay"}
  LateCalls = TRUE
  UserHooks = {"writeComplete", "highWater"}
  Teardown = TRUE
CHECK_DEADLOCK FALSE
SYMMETRY Symmetry
INVARIANTS
  NoAssertFails
  UnsplitStreamIsIntact
  DestroyedForGood
