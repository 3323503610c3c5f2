CONSTANTS
  IntMax = 3
  LLMax = 5
  Ranges <- StarRanges
SPECIFICATION Spec
INVARIANT StarNeverOffered
CHECK_DEADLOCK FALSE
