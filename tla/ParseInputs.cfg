CONSTANTS
  Base = 2
  MaxLength = 9
  Inputs <- AllInputs
SPECIFICATION Spec
INVARIANTS TypeOK GrammarDecides NothingLost CleanExtendsParse
PROPERTY Termination
CHECK_DEADLOCK FALSE
