CONSTANTS
  Conn = {c1, c2}
  Key = {1, 2, 3}
  Requests <- AllRequests
  Number <- Numbers
  Size <- Sizes
  UnitsPerSec = 2
  MaxCommands = 3
  MaxClock = 2
SPECIFICATION Spec
SYMMETRY Symmetry
INVARIANTS
  DelNeverOvercounts
  LogComplete
  LogRealTimeOrder
  TopKeysRanked
