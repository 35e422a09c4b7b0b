SPECIFICATION FairSpec
CONSTANTS
  Thread = {t1}
  Algorithms = {"simple", "smart"}
  Commands = {"start", "pause", "resume", "stop", "setAlgorithm"}
  Sensors = {"lid", "dustBox"}
  A1Faults = FALSE
  EarlyClients = FALSE
PROPERTIES AlgorithmKept ImplementsLifecycle OpenStopsRobot ClosedResumes
CHECK_DEADLOCK FALSE
