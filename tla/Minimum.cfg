CONSTANTS
  IntMax = 3
  LLMax = 5
  Ranges <- AllRanges
SPECIFICATION Spec
INVARIANTS TypeOK BestIsLeast CandidateIsGreatestLower UpperBoundsKept AnswerMeetsRange NoLowerRelease BoundAdmitsItself
PROPERTIES KeepsPromise Termination
CHECK_DEADLOCK FALSE
