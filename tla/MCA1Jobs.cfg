SPECIFICATION FairSpec
CONSTANTS
  Clients = {"main", "algorithm", "wifi"}
  Motors = {"brush"}
  MaxId = 2
  MaxRequests = 3
  Switches = FALSE
  Faults = TRUE
INVARIANTS TypeOK AnsweredOnce DoneMeansRest
PROPERTIES ImplementsCalls MoveEnds
CHECK_DEADLOCK FALSE
