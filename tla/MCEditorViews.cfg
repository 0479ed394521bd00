CONSTANTS
  file_f = file_f
  file_g = file_g
  other = other
  NoName = NoName
  Empty = Empty
  Missing = Missing
  Name <- MCName
  Text <- MCText
  InitialDisk <- MCBoth
  Arguments <- MCArguments
  MaxBuffers = 3
  MaxVersion = 2
  MaxEdits = 1
  MaxSessions = 2
SPECIFICATION RoomySpec
INVARIANTS
  CurrentViewUsable
PROPERTIES
  NothingLostUnasked
  ClosedIsOnDisk
  SessionIsKept
CHECK_DEADLOCK FALSE
