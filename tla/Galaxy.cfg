SPECIFICATION FairGalaxy
CONSTANTS
  Id = {1, 2}
  Cap = 1
  Page = {p1, p2}
  Job = {1, 2}
  NoJob = 0
  NoCache = NoCache
  MaxChanges = 2
  MaxMishaps = 1
INVARIANTS SceneIsCurrent BusyIsWork
PROPERTY ShownInTheEnd
CHECK_DEADLOCK FALSE
