SPECIFICATION FairSpec
CONSTANTS
  Sessions = {s1, s2}
  Tokens = {"good", "bad"}
  PluginTokens = {"good", "unset"}
  TimerFires = {s1}
  Stops = {TRUE, FALSE}
  MaxMessages = 2
  MaxBusyStop = 0
INVARIANTS
  RemovedClean
  FatalIsExplained
  NothingInvented
PROPERTIES
  SessionEnds
CHECK_DEADLOCK FALSE
