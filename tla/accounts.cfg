SPECIFICATION Spec
CONSTANTS
  a1 = a1  a2 = a2  c1 = c1  c2 = c2
  p1 = p1  p2 = p2  p3 = p3  p4 = p4  pw1 = pw1
  Ip = {a1, a2}
  Id = {p1, p2, p3, p4}
  Pw = {pw1}
  Conn = {c1, c2}
  Worker = {w1}
  ConnIp <- OwnAddress
  Loaded = {p1, p2}
  Established = {p1}
  LoadedPw <- DiskPw
  MaxAccounts = 1
  SweepTries = 1
  NoId = NoId
  NoHash = NoHash
  NoEntry = NoEntry
INVARIANTS
  TypeOK
  SessionsOfAccounts
  ListedIdsHavePlayers
  AccountCap
SYMMETRY FreshIds
CHECK_DEADLOCK FALSE
