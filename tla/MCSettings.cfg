SPECIFICATION FairSpec
CONSTANTS
  Algorithms <- SimpleAndSmart
  Values = {"default", "other", "long"}
  Default = "default"
  Accepted = {"default", "other"}
  Saved <- OldOrSet
  MaxRequests = 2
  MaxEarly = 1
  A1Faults = TRUE
INVARIANTS TypeOK TornOnlyByCrash SettingsKept A1InStep AppliedIsSaved DiesOnlyOfTorn
PROPERTIES ComesUp
CHECK_DEADLOCK FALSE
