\* Safety of the notification protocol: two writers race the flush and two
\* subscribers come and go; refinement of module Watch.
SPECIFICATION Spec
CONSTANTS
  Threads = {t1, t2}
  Subscribers = {s1, s2}
  Host = host
  Nobody = nobody
  MaxOps = 1
SYMMETRY Symmetry
INVARIANTS
  TypeOK
  LiveStaysRegistered
  StatusesBounded
  NoLostUpdate
  DropAnnounces
PROPERTIES
  ImplementsWatch
\* Threads run out of operations, subscribers wait for ever.
CHECK_DEADLOCK FALSE
