SPECIFICATION FairSpec
CONSTANTS
  Fact = {f1, f2}
  Space = {small, large}
  NoSpace = NoSpace
  NoVector = NoVector
  Chunk = 1
  MaxText = 2
  MaxFaults = 2
INVARIANT ComparesLikeWithLike
PROPERTY EmbeddedUnlessLeft
CHECK_DEADLOCK FALSE
