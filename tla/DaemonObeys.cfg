SPECIFICATION FairSpec
CONSTANTS
  Ambient = 1
  SHUTDOWN_TEMPERATURE = 1
  Targets = {0, 1}
  Commands = {"image", "status", "shutdown"}
  MaxPending = 2
  MaxPolls = 1
  Signals = {"SIGTERM"}
PROPERTY
  ShutdownIsObeyed
CHECK_DEADLOCK FALSE
