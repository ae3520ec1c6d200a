SPECIFICATION FairSpec
CONSTANTS
  Stoppers = {"io"}
  MaxMessages = 3
  MaxRestarts = 2
INVARIANTS
  QueueFifo
  QueueExclusive
  QuiescentOutsideRun
  AtMostOneAfterStop
PROPERTIES
  QueueServed
  StopReturnsOnceStarted
  ImplementsContract
CHECK_DEADLOCK FALSE
