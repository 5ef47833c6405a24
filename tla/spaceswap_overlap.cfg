SPECIFICATION Spec
CONSTANTS
  Chunks = 3
  MaxRequests = 3
  None = None
PROPERTY SwapsDoNotOverlap
CHECK_DEADLOCK FALSE
