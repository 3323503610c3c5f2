CONSTANTS
  IntMax = 4
  LLMax = 6
  Texts <- OneText
  MaxWalk = 4
SPECIFICATION Spec
PROPERTY DecrementDecreases
CHECK_DEADLOCK FALSE
