\* A command that sends a message while the mailbox is full.
SPECIFICATION FairSpec
CONSTANTS
  c1 = c1
  c2 = c2
  here = here
  missing = missing
  own = own
  child = child
  Clients = {c1, c2}
  Self = self
  Buffer = 1
  Interceptors = 1
  States = {here, missing}
  World = {here}
  Signals = {own}
  Own = {own}
  MayPanic = FALSE
  CommandLists <- AllLists
  MaxSends <- OneEach
  MaxSelf = 1
PROPERTIES
  AcceptedIsHandled
CHECK_DEADLOCK FALSE
