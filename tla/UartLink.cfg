SPECIFICATION UartSpec
CONSTANTS
  Batches <- MCBatches
  SlowWords = 2
  WrongCounts = {0, 3}
  MaxExchanges = 4
  MaxFaults = 2
INVARIANTS
  QuietStartOwnAnswers
  SoundLineAnswers
