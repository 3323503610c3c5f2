CONSTANTS
  Base = 2
  IntMax = 4
  LLMax = 6
  Strings <- SomeStrings
  Texts <- SomeTexts
  MaxWalk = 4
SPECIFICATION StringSpec
INVARIANTS TypeOK BoundsOnPieces
PROPERTIES WalksOnPieces IncrementIncreases IncrementSkipsNothing IncrementStaysInForm DecrementStaysInForm CoerceSettles
CHECK_DEADLOCK FALSE
