SPECIFICATION FairSpec
CONSTANTS
  Chunks = 3
  MaxRequests = 3
  None = None
INVARIANTS
  TypeOK
  DisplayIsLatest
  NoGroupShowsTwo
PROPERTIES
  RequestsAreAnswered
  ExitCompletes
CHECK_DEADLOCK FALSE
