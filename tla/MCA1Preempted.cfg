SPECIFICATION FairSpec
CONSTANTS
  Clients = {"algorithm", "wifi"}
  Motors = {}
  MaxId = 3
  MaxRequests = 2
  Switches = FALSE
  Faults = FALSE
PROPERTIES ExecutedIsAnswered
CHECK_DEADLOCK FALSE
