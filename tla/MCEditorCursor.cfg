CONSTANTS
  Typed <- MCTyped
  Alnum = {"a"}
  Newline = "nl"
  Space = " "
  Nul = "NUL"
  Braces <- MCBraces
  Clips <- MCClips
  InitialTexts <- MCInitialTexts
  OtherTexts <- MCOtherTexts
  PageLines = 2
  MaxText = 3
  Followed = {"column", "undo", "place"}
  AstrayText = 0
  NoCut = NoCut
SPECIFICATION Spec
INVARIANTS
  CursorInText
  PosIsOfCursor
  VerticalKeepsColumn
PROPERTIES
  CutPasteRestores
  BraceIsMatched
CHECK_DEADLOCK FALSE
