SPECIFICATION PollerSpec
CONSTANTS
  Channels = {a}
  Fds = {0}
  kInitEventListSize = 1
  None = none
CHECK_DEADLOCK FALSE
INVARIANT IdleIsTemporary
