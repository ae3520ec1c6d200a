SPECIFICATION FairSpec
CONSTANTS
  Sessions = {s1}
  Tokens = {"good", "bad", "empty"}
  PluginTokens = {"good", "empty"}
  TimerFires = {}
  Stops = {FALSE}
  MaxMessages = 2
  MaxBusyStop = 0
PROPERTIES
  RefusedIsRemoved
CHECK_DEADLOCK FALSE
