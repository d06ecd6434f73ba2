SPECIFICATION Spec
CONSTANTS
  Fact = {f1, f2}
  NoFact = NoFact
  Births = {"none", "grounding", "persona"}
INVARIANTS
  DismissedIsHeld
  DecisionStands
  DoubtHasACause
SYMMETRY FactSymmetry
CHECK_DEADLOCK FALSE
