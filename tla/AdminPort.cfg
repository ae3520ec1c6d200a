SPECIFICATION FairSpec
CONSTANTS
  c1 = c1
  c2 = c2
  p1 = p1
  p2 = p2
  f1 = f1
  Clients = {c1, c2}
  Plugins = {p1, p2}
  Files = {f1}
  Scenarios <- MCScenarios
  MaxVersion = 2
  MaxCommands = 2
  MaxRuns = 2
INVARIANTS
  NoUnmappedCode
  SafeAlone
PROPERTIES
  ReloadTakesNewVersion
  ClientsAreHeard
  ShutdownEnds
CHECK_DEADLOCK FALSE
