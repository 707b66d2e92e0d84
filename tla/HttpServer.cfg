SPECIFICATION FairSpec
CONSTANTS
  Requests <- MCRequests
  MaxRequests = 3
CHECK_DEADLOCK FALSE
INVARIANTS
  RequestsAreExact
  OneLastAnswer
PROPERTIES
  RefusedIsFinal
  ParsingEnds
