SPECIFICATION Spec
CONSTANTS
  MaxMsg = 2
  MaxFact = 2
  Claim = {c1}
  Days = {0, 2}
  Runner = {r1, r2}
  NoRunner = NoRunner
  ChunkMsgs = 2
  Kinds = {"person", "seat"}
INVARIANTS
  NothingPassedOver
  NoTwins
  SkippedIsCovered
PROPERTIES
  WatermarkNeverBack
  SoundSupersession
  EveryTurnNarrows
SYMMETRY Symmetries
CHECK_DEADLOCK FALSE
