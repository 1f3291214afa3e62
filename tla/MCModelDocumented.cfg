\* Documented blocks: an argument that is called ctx, an argument with an attribute.
SPECIFICATION Spec
CONSTANTS
  Methods <- DocumentedMethods
  MaxMethods = 2
  Arguments <- AllArguments
  Values = {v1, v2}
  Pascal <- PascalCase
  Signals = {"value"}
  Scope <- Types
INVARIANTS
  DocumentedCompiles
CHECK_DEADLOCK FALSE
