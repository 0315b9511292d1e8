CONSTANTS
  Key <- Keys2
  Value <- Values2
  NoNode = NoNode
  Thread = {t1, t2}
  NumShards = 2
  ShardOf <- TwoShards
  KeyLen <- KeyLengths
  ValueLen <- ValueLengths
  MaxBytes = 2
  UsizeMax = 100
  Requests <- Contention
  MaxClock = 2
  MaxToken = 1
SPECIFICATION FairSpec
INVARIANTS
  UsedBytesAccounts
  QuiescentWithinBudget
PROPERTIES
  CallsReturn
  ExpiredReclaimed
  StopJoins
