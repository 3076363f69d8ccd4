SPECIFICATION Spec
CONSTANTS
  Programs = {p1, p2}
  BusRows = 2
INVARIANTS
  LoadedMeansCopied
PROPERTIES
  SafeObeyed
  DoneShown
  ImplementsLifecycle
