SPECIFICATION Spec
CONSTANTS
  stone = stone  wood = wood
  Material = {stone, wood}
  Spelling <- Spellings
  CoorBits = 12
  MatBits = 13
  Message <- Messages
  Following <- Followers
  MaxMessages = 2
  ChunkBits = 28
  PackedMost = 2
INVARIANTS
  ReadAsSent
PROPERTIES
  LengthIsStable
CHECK_DEADLOCK FALSE
