SPECIFICATION FairSpec
CONSTANTS
  Conns = {c1, c2}
  InitDelay = 2
  MaxDelay = 5
  MaxConnects = 1
  MaxCalls = 2
  CallsInHandlers = FALSE
CHECK_DEADLOCK FALSE
INVARIANTS
  NoAssertFails
  OneAttempt
  StoppedIsQuiet
PROPERTIES
  ConnectCompletes
