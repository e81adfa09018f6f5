SPECIFICATION Spec
CONSTANTS
  MaxQueries = 2
  MaxPings = 2
  MaxMissed = 3
INVARIANTS
  TypeOK
  OneInDoubt
PROPERTIES
  QueryReturns
  ServerThreadEnds
CHECK_DEADLOCK FALSE
