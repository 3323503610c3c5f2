CONSTANTS
  Base = 2
  IntMax = 7
  LLMax = 9
  Versions <- Tagged
SPECIFICATION Spec
INVARIANT NumericPreReleaseIsLower
