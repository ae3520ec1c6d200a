SPECIFICATION StreamFairSpec
CONSTANTS
  Digits = {"1"}
  Letters = {"a"}
  Others = {"#"}
  Lines <- AllLines
  CutAnywhere = FALSE
  MaxMessages = 3
  MaxBroken = 2
  MaxConnections = 2
INVARIANTS
  StreamDelivered
  OnlyNextLineDamaged
  ResyncAfterReconnect
PROPERTIES
  EventuallyTaken
CHECK_DEADLOCK FALSE
