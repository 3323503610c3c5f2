CONSTANTS
  Base = 10
  IntMax = 17
  LLMax = 19
  Ranges <- NoRanges
  Inputs <- AllInputs
  Meaning <- Meanings
  TestAnswer <- Answers
SPECIFICATION StringSpec
INVARIANTS ReaderTypeOK ReadsAsWritten AnswersTests NoConstraintLost HyphenReadsAlike
PROPERTY ReadingAdvances
