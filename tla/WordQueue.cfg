SPECIFICATION QueueSpec
CONSTANTS
  Rows = 2
  LastChunk = 3
  Sessions = {"jtag", "uart"}
  Reader = FALSE
INVARIANTS
  ArmedBankComplete
  CallHalts
  NothingLeftBehind
PROPERTIES
  CallReturns
