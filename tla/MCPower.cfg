SPECIFICATION FairSpec
CONSTANTS
  Worlds <- CalmAndRough
INVARIANTS TypeOK ShownIsTrue ShutdownUnderWay
PROPERTIES BootIsAcknowledged ShutdownEndsOff ImplementsPower
CHECK_DEADLOCK FALSE
