SPECIFICATION FairFeed
CONSTANTS
  Session = {s1, s2, s3}
  Sdk = {s3}
  NoSession = NoSession
  Limit = 1
  MaxWrites = 3
  MaxFaults = 1
INVARIANTS
  CoveredWasTold
PROPERTIES
  ErasedStaysErased
  EveryTurnIsCovered
CHECK_DEADLOCK FALSE
