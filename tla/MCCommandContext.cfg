\* A function that takes the context.
SPECIFICATION Spec
CONSTANTS
  Params <- WithContext
  MaxParams = 2
  World <- Present
INVARIANTS
  PanicsOnlyForStates
CHECK_DEADLOCK FALSE
