SPECIFICATION FairSpec
CONSTANTS
  r1 = r1
  r2 = r2
  Host = host
  Remotes <- MCOneRemote
  Types <- MCTypes
  Children <- MCChildren
  Calls = {"create", "delete"}
  MaxCalls = 2
  Leavers <- MCRemotes
  MaxQueue = 2
  WatchedIDs = {1, 2}
INVARIANT
  DeletionsReachClients
PROPERTY
  DeletionCompletes
