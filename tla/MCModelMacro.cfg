\* Blocks of two methods of any shape.
SPECIFICATION Spec
CONSTANTS
  Methods <- AllMethods
  MaxMethods = 2
  Arguments <- AllArguments
  Values = {v1, v2}
  Pascal <- PascalCase
  Signals = {"value"}
  Scope <- Types
INVARIANTS
  ShapesAreRecognised
  
  CallsReachTheirBlocks
  NoMetaIsLost
\* An expansion ends, and the application handles one call.
CHECK_DEADLOCK FALSE
