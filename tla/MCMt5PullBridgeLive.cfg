SPECIFICATION FairSpec
CONSTANTS
  None = None
  MaxCommands = 3
  MaxOrders = 1
  MaxStop = 2
  Limit = 2
  MaxInFlight = 1
  Late = FALSE
  Deadlines = TRUE
  Losses = FALSE
PROPERTIES
  EveryCommandAnswered
  NeverWidened
