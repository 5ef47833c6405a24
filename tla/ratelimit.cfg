SPECIFICATION LimitSpec
CONSTANTS
  LOGIN = LOGIN  PLACEMENT = PLACEMENT  Never = Never
  t1 = t1  t2 = t2  i1 = i1
  Caller = {t1, t2}
  Char <- Characters
  Ip <- Addresses
  Type = {LOGIN, PLACEMENT}
  Digits <- Numbers
  Id = {i1}
  LimitOf <- Limits
  RateLimitMs = 3
  LongAgo = 10
  MaxEntries = 2
  MaxLag = 1
  MaxTime = 3
INVARIANTS
  LimitTypeOK
  MapBounded
PROPERTIES
  SpacedUpToLag
  RefusedOnlyWhenRecent
SYMMETRY Threads
CHECK_DEADLOCK FALSE
