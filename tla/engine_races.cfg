CONSTANTS
  Key <- Keys1
  Value <- Values1
  NoNode = NoNode
  Thread = {t1, t2}
  NumShards = 1
  ShardOf <- OneShard
  KeyLen <- KeyLengths
  ValueLen <- ValueLengths
  MaxBytes = 100
  UsizeMax = 100
  Requests <- WithTtl
  MaxClock = 3
  MaxToken = 2
SPECIFICATION Spec
SYMMETRY Symmetry
INVARIANTS
  DeadlinesScheduled
  HeapTokensUnique
PROPERTIES
  ImplementsStore
