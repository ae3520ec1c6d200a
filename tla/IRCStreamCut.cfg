SPECIFICATION StreamSpec
CONSTANTS
  Digits = {"1"}
  Letters = {"a"}
  Others = {"#"}
  Lines <- LinesWithParams
  CutAnywhere = TRUE
  MaxMessages = 1
  MaxBroken = 1
  MaxConnections = 1
INVARIANTS
  StreamDelivered
CHECK_DEADLOCK FALSE
