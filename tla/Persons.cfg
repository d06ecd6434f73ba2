SPECIFICATION Spec
CONSTANTS
  Person = {p1, p2}
  Sha = {s1, s2}
  Client = {app}
  Handler = {h1}
  Nobody = Nobody
  NoCopy = NoCopy
  MaxClips = 2
  MaxErasures = 2
  MaxRestores = 1
  MaxJudged = 1
  MaxBehind = 1
INVARIANTS
  ForgottenHasNothing
  UnusedWasLeftOut
  AudioIsThere
SYMMETRY Alike
CHECK_DEADLOCK FALSE
