SPECIFICATION Spec
CONSTANTS
  c1 = c1
  c2 = c2
  Conns <- MCTwoConns
  MaxData = 1
  MaxSends = 1
SYMMETRY Symmetry
INVARIANTS
  TypeOK
  UniqueIDs
  IDsAccounted
  PeerMapExact
  WellBracketed
  DisconnectFindsClient
  OwnAfterInitialized
