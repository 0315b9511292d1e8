CONSTANTS
  Conn <- Peers
  Kinds <- PeerKinds
  MaxRequests = 2
SPECIFICATION FairSpec
INVARIANTS
  RequestsAccounted
  RepliesInOrder
  OrderlyShutdown
PROPERTY ShutdownCompletes
