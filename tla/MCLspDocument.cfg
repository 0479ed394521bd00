CONSTANTS
  a = a
  nl = nl
  sp = sp
  file_c = file_c
  copy_c = copy_c
  NoName = NoName
  Missing = Missing
  Garbage = Garbage
  NotOpen = NotOpen
  Char <- MCChar
  Newline = nl
  Space = sp
  Insertions <- MCInsertions
  Replacements <- MCReplacements
  Name <- MCOneName
  InitialDisk <- MCOneDisk
  Watched <- MCOneName
  MaxOpens = 1
  MaxEdits = 2
  MaxVersion = 4
  MaxUndoBuffer = 2
  MaxText = 3
VIEW Unread
SPECIFICATION PromptSpec
INVARIANT
  ServerMirrorsText
CHECK_DEADLOCK FALSE
