SPECIFICATION Spec
CONSTANTS
  Thread = {t1, t2}
  Algorithms = {"simple"}
  Commands = {"start", "pause", "resume", "stop", "setAlgorithm", "shutdown"}
  Sensors = {"lid"}
  A1Faults = TRUE
  EarlyClients = TRUE
SYMMETRY Symmetry
INVARIANTS TypeOK OneDriver StoppedIsAtRest ParkedIsQuiet
PROPERTIES StopUndoneOnlyByCoreLoop
CHECK_DEADLOCK FALSE
