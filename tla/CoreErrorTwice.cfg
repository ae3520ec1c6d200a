SPECIFICATION FairSpec
CONSTANTS
  Daemon = FALSE
  NPlugins = 0
  TcpPlugins = FALSE
  Sources = {"error"}
  Traffic = FALSE
  StopDuringStartup = FALSE
  ReconnectInterval = 200
  MaxReconnectInterval = 1000
  UIntModulus = 4096
  MaxRuns = 3
PROPERTIES
  EveryErrorRestarts
CHECK_DEADLOCK FALSE
