CONSTANTS
  NWords = 3
  Bits = {1, 2}
  Keys <- MCKeys
  None = None
  MaxBoots = 3
SPECIFICATION FairSpec
INVARIANTS OneKey ClosedOverKey FInv
PROPERTIES StaysOpen BurnEnds
CHECK_DEADLOCK FALSE
