CONSTANTS
  Sessions <- MCSessions
  BodySize = 3
  MaxChatter = 2
  MaxUnbound = 2
SPECIFICATION FairSpec
INVARIANTS
  NothingLeftOver
  OneMessageUnderWay
PROPERTIES
  ImplementsRpc
  BothEnd
CHECK_DEADLOCK FALSE
