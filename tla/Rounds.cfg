\* The host's rounds around one signal, with another thread and a subscriber.
SPECIFICATION RFairSpec
CONSTANTS
  Block = block
  Threads = {block, t1}
  Subscribers = {s1}
  Host = host
  Nobody = nobody
  MaxOps = 1
  MaxMessages = 2
INVARIANTS
  RoundsTypeOK
  RoundsPublish
PROPERTIES
  FlushReachesAll
  DropReachesAll
  MessagesAreSeen
\* Threads run out of operations, subscribers and the host wait for ever.
CHECK_DEADLOCK FALSE
