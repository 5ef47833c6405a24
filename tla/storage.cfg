SPECIFICATION StorageSpec
CONSTANTS
  stone = stone  wood = wood
  client = client  server = server
  Material = {stone, wood}
  Spelling <- Spellings
  CoorBits = 3
  MatBits = 2
  Side = {client, server}
  Block <- Placed
  MaxBlocks = 3
INVARIANTS
  ContentsKept
CHECK_DEADLOCK FALSE
