CONSTANTS
  Base = 2
  MaxLength = 9
  IntMax = 3
  Texts <- SomeTexts
  HandMade <- SomeHandMade
  MaxLine = 4
SPECIFICATION Spec
INVARIANTS LineIncreases EndsAtLimits
PROPERTY SkipsNoRelease
CHECK_DEADLOCK FALSE
