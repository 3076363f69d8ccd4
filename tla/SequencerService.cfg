SPECIFICATION Spec
CONSTANTS
  Clients = {a, b}
  Programs = {p1, p3}
  Forever = {}
  Repeated = {p3}
  NoProgram = NoProgram
  Torn = Torn
  CachePrepared = FALSE
  LinkFails = TRUE
INVARIANTS
  SafeMeansReset
  WaitTruthful
PROPERTIES
  FiresPrepared
  ShotPlaysItsOwn
  CallsReturn
