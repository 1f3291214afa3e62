\* Safety: every kind of command, panics, abandoned sends, a mailbox of one.
SPECIFICATION Spec
CONSTANTS
  c1 = c1
  c2 = c2
  here = here
  missing = missing
  own = own
  child = child
  Clients = {c1, c2}
  Self = self
  Buffer = 1
  Interceptors = 2
  States = {here, missing}
  World = {here}
  Signals = {own, child}
  Own = {own}
  MayPanic = TRUE
  CommandLists <- AllLists
  MaxSends <- TwoAndOne
  MaxSelf = 2
INVARIANTS
  TypeOK
  FifoExactlyOnce
  InterceptorsSeeFirst
  AnswersAreTrue
  RoundsDontOverlap
  MailboxBounded
PROPERTIES
  
  ImplementsSerialApp
\* A host that sends to itself may wait for ever; clients may be done.
CHECK_DEADLOCK FALSE
