SPECIFICATION Spec
CONSTANTS
  c1 = c1
  c2 = c2
  s1 = s1
  a = a
  b = b
  d = d
  Chunk = {c1, c2}
  Patch = {s1}
  Place = {a, b, d}
  Nowhere = Nowhere
  PatchOf <- InPatch
  Want <- Levels
  WantPatch <- Surface
  Near <- NoReset
  Far <- AtDespawnDistance
  QueueCap = 0
  PerTick = 1
  MaxMoves = 2
  MaxLeaves = 1
INVARIANTS
  TypeOK
  OneLevelShown
  MarksMatchDisplay
  NothingForgotten
CHECK_DEADLOCK FALSE
