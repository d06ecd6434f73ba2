SPECIFICATION RefreshSpec
CONSTANTS
  Worker = {w1, w2}
  MaxRequests = 4
INVARIANTS
  OneJob
  RequestRemembered
PROPERTIES
  Coalesces
  EveryRequestServed
CHECK_DEADLOCK FALSE
