SPECIFICATION Spec
CONSTANTS
  Word = 256
INVARIANTS
  WhatIsSaidIsHeard
  NothingIsMadeUp
CHECK_DEADLOCK FALSE
