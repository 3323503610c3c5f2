CONSTANTS
  Base = 2
  MaxLength = 12
  Inputs <- UndocumentedInputs
SPECIFICATION Spec
INVARIANT IdentifiersDocumented
CHECK_DEADLOCK FALSE
