CONSTANTS
  a = a
  nl = nl
  sp = sp
  file_c = file_c
  NoName = NoName
  Missing = Missing
  Char <- MCChar
  Newline = nl
  Space = sp
  Insertions <- MCInsertions
  Replacements <- MCReplacements
  Name <- MCName
  InitialDisk <- MCDisk
  Watched = {}
  MaxEdits = 2
  MaxVersion = 4
  MaxUndoBuffer = 3
  MaxText = 2
SPECIFICATION LinearSpec
PROPERTY
  ImplementsTextHistory
CHECK_DEADLOCK FALSE
