SPECIFICATION RunSpec
CONSTANTS
  WordBits = 5
  ByteBits = 3
  Scratch = {9, 10, 11, 12, 13}
  Saved = {19, 20, 21, 22}
  Sources <- MCSources
  Operations <- MCOperations
  Steps = 2000
INVARIANTS ComputesMeaning LocationsHeld SlotsApart
CHECK_DEADLOCK FALSE
