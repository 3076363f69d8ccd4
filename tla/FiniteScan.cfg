\* Seven points in banks of two: four chunks, each bank is loaded twice.
CONSTANTS
  N = 7
  BankSize = 2
  Cyclic = FALSE
  MaxSweeps = 0
SPECIFICATION FairSpec
PROPERTIES
  ScanCompletes
