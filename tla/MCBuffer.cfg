CONSTANTS
  a = a
  nl = nl
  watched_c = watched_c
  other_txt = other_txt
  NoName = NoName
  Missing = Missing
  Char <- MCChar
  Newline = nl
  Space = a
  Insertions <- MCInsertions
  Replacements <- MCReplacements
  Name <- MCName
  InitialDisk <- MCDisk
  Watched <- MCWatched
  MaxEdits = 2
  MaxVersion = 3
  MaxUndoBuffer = 2
  MaxText = 2
SPECIFICATION Spec
INVARIANTS
  TypeOK
  UndoRefsInBounds
  IndexIsCurrent
  CleanMeansStored
  AssertsHoldWithoutEmptyReplacement
CHECK_DEADLOCK FALSE
