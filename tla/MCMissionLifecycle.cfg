SPECIFICATION FairSpec
CONSTANTS
  Command = command
  Callbacks = {r1, r2}
  Owner = owner
  Agent = agent
  Sweeper = sweeper
  MaxCalls = 2
  MaxCrashes = 1
INVARIANTS
  TypeOK
  LearnedIsTrue
PROPERTIES
  ImplementsLadder
  AcceptedEnds
CHECK_DEADLOCK FALSE
