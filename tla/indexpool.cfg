SPECIFICATION PoolSpec
CONSTANTS
  x1 = x1
  Item = {x1}
  Blank = Blank
  KeyLimit = 5
  MaxSize = 3
INVARIANTS
  PoolTypeOK
  ConsistentWhileHome
  EnoughItems
CHECK_DEADLOCK FALSE
