SPECIFICATION Spec
CONSTANTS
  Thread = {t1}
  Algorithms = {"simple"}
  Commands = {"start", "stop", "shutdown"}
  Sensors = {}
  A1Faults = FALSE
  EarlyClients = FALSE
INVARIANTS NothingMovesAtShutdown
CHECK_DEADLOCK FALSE
