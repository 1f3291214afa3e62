\* Liveness, with commands that never send and a mailbox without buffer.
SPECIFICATION FairSpec
CONSTANTS
  c1 = c1
  c2 = c2
  here = here
  missing = missing
  own = own
  child = child
  Clients = {c1, c2}
  Self = self
  Buffer = 0
  Interceptors = 1
  States = {here, missing}
  World = {here}
  Signals = {own}
  Own = {own}
  MayPanic = TRUE
  CommandLists <- QuietLists
  MaxSends <- TwoEach
  MaxSelf = 0
PROPERTIES
  AcceptedIsHandled
  SendsEnd
\* Clients may be done.
CHECK_DEADLOCK FALSE
