SPECIFICATION BusSpec
CONSTANTS
  Fraction = 2
  EvtDepth = 3
  SegDepth = 3
  BusSafe = 4
  Tables = {2}
  ScanTables = {3, 4}
  DelayTables = {3}
  LongGap = 2
  ShortestFrame = 2
  FromPulses = FALSE
  BusDelays = {0}
  Programs <- First
  Reloads <- Again
INVARIANTS
  OutputsSchedule
