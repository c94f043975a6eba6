SPECIFICATION StoresSpec
CONSTANTS
  Fates <- Overlapping
  High = 2
  Low = 1
  MaxTurns = 3
  MaxMessages = 8
  MaxLost = 0
CHECK_DEADLOCK FALSE
INVARIANT OverlapIsHarmless
