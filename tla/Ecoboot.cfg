CONSTANTS
  Chunk = 2
  MinSectors = 3
  BootSectors = 6
  Images <- MCImages
  Old = Old
  Junk = Junk
  Foreign = Foreign
  MaxRuns = 2
  MaxForeign = 1
SPECIFICATION FairSpec
INVARIANTS OnlyTheImage RefusedForSize FileKept EInv
PROPERTIES BootSpec LoopsEnd
CHECK_DEADLOCK FALSE
