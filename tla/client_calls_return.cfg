CONSTANTS
  MaxIdle = 1
  MaxTotal = 2
  Client = {t1, t2}
  Conn = {c1, c2}
  NoConn = NoConn
  MaxRetries = 1
  Timeouts = FALSE
  MaxCalls = 2
SPECIFICATION FairSpec
PROPERTY CallsReturn
