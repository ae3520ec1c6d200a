SPECIFICATION StreamSpec
CONSTANTS
  Digits = {"1"}
  Letters = {"a"}
  Others = {"#"}
  Lines <- AllLines
  CutAnywhere = FALSE
  MaxMessages = 1
  MaxBroken = 0
  MaxConnections = 1
INVARIANTS
  EveryLineDelivered
CHECK_DEADLOCK FALSE
