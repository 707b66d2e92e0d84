SPECIFICATION LoggingSpec
CONSTANTS
  MaxLines = 4
  LinesPerBuffer = 1
  MaxBuffers = 2
  MaxStarts = 2
  kSmallBuffer = 17
  kMaxNumericSize = 5
  rollSize = 20
  flushInterval = 0
  checkEveryN = 2
  kRollPerSeconds = 3
  Statements <- MCStatements
  MaxTime = 3
  MaxSteps = 1
CHECK_DEADLOCK FALSE
INVARIANTS
  SpareBuffersSuffice
  LogIsInOrder
  LinesAreWhole
  FilesAreTheLog
PROPERTIES
  FilesAreRolled
  LinesAreWritten
