CONSTANTS
  IntMax = 3
  LLMax = 5
  Ranges <- TooLargeRanges
SPECIFICATION Spec
INVARIANT NoException
CHECK_DEADLOCK FALSE
