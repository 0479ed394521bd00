SPECIFICATION Spec
CONSTANTS
  WordBits = 5
  ByteBits = 3
  Sources <- MCSources
  Folded <- MCFolded
  MaxStack = 12
INVARIANTS TypeOK NeverSaysElse PlainCodeEnds
CHECK_DEADLOCK FALSE
