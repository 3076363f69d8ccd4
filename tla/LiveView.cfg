SPECIFICATION Spec
CONSTANTS
  Frame = Frame
  p = p
  q = q
  Judges = {p, q}
  Depth = 2
  Scenarios <- MCScenarios
  None = None
INVARIANTS
  OneShotBoard
  EpochMeansApplied
PROPERTIES
  EditsInOrder
  BoardSettles
