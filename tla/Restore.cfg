SPECIFICATION Spec
CONSTANTS
  Fact = {f1, f2}
  Message = {m1}
  NoMessage = NoMessage
  Session = {s1}
  NoCopy = NoCopy
  MaxErasures = 1
  Keep = 3
  MaxRestores = 2
INVARIANTS
  ErasedStaysErased
  SourceErasedIsHeld
  EndedStaysEnded
PROPERTIES OnlyErasedGoes
SYMMETRY Alike
CHECK_DEADLOCK FALSE
