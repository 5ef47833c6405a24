SPECIFICATION FairSpec
CONSTANTS
  c1 = c1
  c2 = c2
  s1 = s1
  a = a
  b = b
  d = d
  Chunk = {c1, c2}
  Patch = {s1}
  Place = {a, b, d}
  Nowhere = Nowhere
  PatchOf <- InPatch
  Want <- Levels
  WantPatch <- Surface
  Near <- NoReset
  Far <- AtDespawnDistance
  QueueCap = 0
  PerTick = 1
  MaxMoves = 2
  MaxLeaves = 0
PROPERTIES
  TerrainArrives
  FarIsDropped
  ExitCompletes
CHECK_DEADLOCK FALSE
