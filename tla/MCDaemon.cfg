SPECIFICATION FairSpec
CONSTANTS
  Ambient = 2
  SHUTDOWN_TEMPERATURE = 1
  Targets = {0, 1}
  Commands = {"settemp", "shutdown", "status", "image", "abort"}
  MaxPending = 2
  MaxPolls = 2
  Signals = {"SIGINT", "SIGTERM"}
INVARIANTS
  TypeOK
  LeavesDetectorSafe
  AnsweredOnce
  StuckOnSilentOnly
PROPERTIES
  CoolingEnds
  ShutdownEnds
CHECK_DEADLOCK FALSE
