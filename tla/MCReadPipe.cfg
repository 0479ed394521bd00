CONSTANTS
  Clients <- MCAllClients
  DrainSize = 2
  InitialCapacity = 2
  MaxOutput = 5
SPECIFICATION Spec
INVARIANTS
  HandedOutInOrder
  NoSleepOnData
  AllIsDelivered
  EndedOutputIsWhole
PROPERTIES
  ReaderEnds
CHECK_DEADLOCK FALSE
