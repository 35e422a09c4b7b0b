SPECIFICATION Spec
CONSTANTS
  Worlds <- RebootedAtShutdown
PROPERTIES CutAfterShutdown
CHECK_DEADLOCK FALSE
