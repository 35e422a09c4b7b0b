SPECIFICATION FairSpec
CONSTANTS
  Thread = {t1}
  Algorithms = {"simple"}
  Commands = {"start", "stop"}
  Sensors = {"lid"}
  A1Faults = FALSE
  EarlyClients = FALSE
PROPERTIES StopIsAnswered
CHECK_DEADLOCK FALSE
