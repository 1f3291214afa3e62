\* Two clients and the host on a tree of two models.
SPECIFICATION FairSpec
CONSTANTS
  root = root
  kid = kid
  new = new
  Clients = {c1, c2}
  Host = host
  Models = {root, kid, new}
  Root = root
  Children <- Tree
  Level <- Levels
  Spares = {new}
  MaxCalls = 4
INVARIANTS
  TypeOK
  GuardShowsWholeTree
  ReadYourWrites
  DeadlockNeedsInversion
PROPERTIES
  CallsEnd
  ImplementsSerialApp
\* Threads run out of calls, wait for each other or have panicked.
CHECK_DEADLOCK FALSE
