SPECIFICATION Spec
CONSTANTS
  MaxTransactions = 5
  MaxFaults = 2
  Attempts = 2
  CloseAnyTime = FALSE
INVARIANTS
  HealsWithinTwo
  OneVivado
PROPERTIES
  ImplementsTransport
