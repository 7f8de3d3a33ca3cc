SPECIFICATION Spec
CONSTANTS
  MaxConns = 2
  MaxPrompts = 2
INVARIANTS HandoffDoesNotFold
CHECK_DEADLOCK FALSE
