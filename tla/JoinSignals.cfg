\* Two inputs, written twice in all while the block and the task run.
SPECIFICATION FairSpec
CONSTANTS
  N = 2
  MaxWrites = 2
  MaxMoments = 3
INVARIANTS
  TypeOK
  OutputIsASnapshot
  NothingMissed
PROPERTIES
  FlushReachesOutput
  RaceIsHealed
\* The task waits for ever when nobody writes.
CHECK_DEADLOCK FALSE
