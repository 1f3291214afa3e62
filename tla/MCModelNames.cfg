\* The names of getter messages.
SPECIFICATION Spec
CONSTANTS
  Methods <- DocumentedMethods
  MaxMethods = 2
  Arguments <- AllArguments
  Values = {v1, v2}
  Pascal <- PascalCase
  Signals = {"value"}
  Scope <- Types
INVARIANTS
  GetterMessagesAsDocumented
CHECK_DEADLOCK FALSE
