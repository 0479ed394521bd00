CONSTANTS
  Identifier <- MCIdentifier
  Number <- MCNumber
  Quoted <- MCQuoted
  Programs <- MCAll
  Std <- MCStd
  Libraries <- MCLibraries
  Library <- MCLibrary
SPECIFICATION CompilerSpec
INVARIANTS
  AcceptedIsWhole
  ParsedAsMeant
  EveryTurnTakes
  AcceptedIsBound
  SensibleIsAccepted
  BinderEnds
CHECK_DEADLOCK FALSE
