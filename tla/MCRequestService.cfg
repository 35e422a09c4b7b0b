SPECIFICATION FairSpec
CONSTANTS
  MaxConnections = 2
  MaxRequests = 3
  Kinds = {"ok", "unknown", "garbled"}
INVARIANTS TypeOK InOrder AnswerHome NothingLost
PROPERTIES LeavesOnlyClosed Released Answered
CHECK_DEADLOCK FALSE
