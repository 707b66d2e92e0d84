SPECIFICATION MCSpec
CONSTANTS
  Channels = {a, b, c, d}
  Fds = {0, 1, 2}
  kInitEventListSize = 1
  None = none
  Byte = {z, x, y}
  Zero = z
  Data <- MCData
  kCheapPrepend = 1
  kInitialSize = 2
  ExtraSize = 3
  MaxReadable = 4
CHECK_DEADLOCK FALSE
SYMMETRY Symmetry
INVARIANTS
  RegistrationHolds
  WatchedIsAsked
  SpaceIsMade
PROPERTIES
  ImplementsByteQueue
