SPECIFICATION ScanSpec
CONSTANTS
  LiveFrames = 1
  Points = 3
INVARIANTS
  ExactUnlessDisturbed
PROPERTIES
  NewestJudged
  ScanEnds
CHECK_DEADLOCK FALSE
