SPECIFICATION FairSpec
CONSTANTS
  Daemon = FALSE
  NPlugins = 2
  TcpPlugins = TRUE
  Sources = {"error", "signal"}
  Traffic = TRUE
  StopDuringStartup = FALSE
  ReconnectInterval = 200
  MaxReconnectInterval = 1000
  UIntModulus = 4096
  MaxRuns = 3
INVARIANTS
  TypeOK
  CleanStop
  UpMeansServing
  FirstStopIsSafe
  BackoffNeverShrinks
PROPERTIES
  ErrorReconnects
  ServerIsHeard
  SignalEnds
CHECK_DEADLOCK FALSE
