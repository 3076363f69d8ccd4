SPECIFICATION BusSpec
CONSTANTS
  Fraction = 2
  EvtDepth = 3
  SegDepth = 3
  BusSafe = 4
  Tables = {2, 9}
  ScanTables = {4}
  DelayTables = {3, 4}
  LongGap = 6
  ShortestFrame = 3
  FromPulses = TRUE
  BusDelays = {0, 1, 2, 7}
  Programs <- First
  Reloads <- Again
INVARIANTS
  PrefetchKeepsUp
  OutputsSchedule
PROPERTIES
  OutputLines
  ImplementsReference
