SPECIFICATION FairSpec
CONSTANTS
  login = login  puzzle = puzzle
  Kind = {login, puzzle}
  AskSize <- AskSizes
  AnswerSize <- AnswerSizes
  MaxCalls = 3
  MaxSockets = 2
INVARIANTS
  TypeOK
  KeepsPlace
PROPERTIES
  IsExchange
  CallsEnd
CHECK_DEADLOCK FALSE
