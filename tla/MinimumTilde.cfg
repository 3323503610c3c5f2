CONSTANTS
  IntMax = 3
  LLMax = 5
  Ranges <- TildeRanges
SPECIFICATION Spec
INVARIANT NoReadPastEnd
CHECK_DEADLOCK FALSE
