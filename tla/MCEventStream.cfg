SPECIFICATION FairSpec
CONSTANTS
  Poll = poll
  Socket = socket
  PageSize = 1
  MaxRetained = 1
  MaxEvents = 2
  MaxRestarts = 1
INVARIANTS
  TypeOK
PROPERTIES
  ImplementsFeed
  EveryEventAnnounced
