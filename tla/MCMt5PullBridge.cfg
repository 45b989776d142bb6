SPECIFICATION Spec
CONSTANTS
  None = None
  MaxCommands = 2
  MaxOrders = 1
  MaxStop = 1
  Limit = 2
  MaxInFlight = 2
  Late = TRUE
  Deadlines = TRUE
  Losses = TRUE
INVARIANTS
  TypeOK
  ReceiptsAreGrounded
PROPERTIES
  SnapshotCoversFills
  ResultsAreFinal
  ImplementsExecutor
