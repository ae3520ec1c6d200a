SPECIFICATION FairSpec
CONSTANTS
  Nick = "nick"
  Alternatives <- MCAlternatives
  Channels = {"channel"}
  Room = 3
  MaxWaiting = 1
  MaxPings = 2
  MaxRestarts = 1
  MaxConnections = 2
INVARIANTS
  IndexStaysInside
  FirstFreeNick
PROPERTIES
  Registers
  PingsAreAnswered
  JoinsOnceRegistered
CHECK_DEADLOCK FALSE
