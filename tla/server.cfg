SPECIFICATION FairSpec
CONSTANTS
  w1 = w1  k1 = k1  k2 = k2
  Worker = {w1}
  Conn = {k1, k2}
  Stalled = {k2}
  SpawnMayFail = TRUE
  MaxRequests = 2
  Nobody = Nobody
INVARIANTS
  TypeOK
  FreedWhenUnused
  ActiveCounts
PROPERTIES
  DataOutlivesUsers
  ShutdownCompletes
  StopIsAnswered
  BacklogDrains
CHECK_DEADLOCK FALSE
