\* Functions of up to three parameters, a context among them or not.
SPECIFICATION Spec
CONSTANTS
  Params <- AllParams
  MaxParams = 3
  World <- Present
INVARIANTS
  NamesMeanWhatIsAsked
  
  
\* An expansion ends.
CHECK_DEADLOCK FALSE
