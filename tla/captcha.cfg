SPECIFICATION Spec
CONSTANTS
  t1 = t1  t2 = t2
  Thread = {t1, t2}
  PoolSize = 2
  KeyLimit = 3
  CountLimit = 4
  Blank = Blank
INVARIANTS
  TypeOK
  SpentIsDeleted
  PoolKeepsCount
SYMMETRY Interchangeable
CHECK_DEADLOCK FALSE
