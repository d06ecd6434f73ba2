SPECIFICATION Spec
CONSTANTS
  Worker = {w1, w2}
  Builder = {b1}
  Fact = {f1}
  NoThread = NoThread
  MaxRequests = 3
  MaxCrashes = 1
INVARIANTS
  OneBuild
  PulledFactOnItsWayOut
  StaleBuildNotLast
PROPERTIES PulledFactLeaves
CHECK_DEADLOCK FALSE
