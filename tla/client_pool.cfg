CONSTANTS
  MaxIdle = 1
  MaxTotal = 2
  Client = {t1, t2, t3}
  Conn = {c1, c2, c3}
  NoConn = NoConn
  MaxRetries = 1
  Timeouts = TRUE
  MaxCalls = 1
SPECIFICATION Spec
SYMMETRY Symmetry
INVARIANTS
  SlotsAccounted
  ConnectionsExclusive
  RepliesMatch
  DeleteTruthful
