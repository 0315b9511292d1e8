CONSTANTS
  Key <- Keys3
  Value <- Values2
  NoNode = NoNode
  Thread = {t1}
  NumShards = 1
  ShardOf <- OneShard
  KeyLen <- KeyLengths
  ValueLen <- ValueLengths
  MaxBytes = 4
  UsizeMax = 100
  Requests <- Resizing
  MaxClock = 1
  MaxToken = 3
SPECIFICATION Spec
INVARIANTS
  UsedBytesAccounts
  FreeStacksExact
  MapsMatchArenas
  ListsAreChains
PROPERTIES
  ImplementsStore
