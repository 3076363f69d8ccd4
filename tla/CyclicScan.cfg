\* Five points in banks of two: three chunks, an odd number, the last one
\* partial.  Three sweeps, so the halt and the overshoot happen.
CONSTANTS
  N = 5
  BankSize = 2
  Cyclic = TRUE
  MaxSweeps = 5
  Repeats = 3
SPECIFICATION FairSpec
INVARIANTS
  NeverWrongPoint
  WrapCountExact
PROPERTIES
  StopsAfterSweeps
  PlaysInOrder
  FiniteScanHalts
