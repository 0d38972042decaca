SPECIFICATION Spec
CONSTANTS
  r1 = r1
  r2 = r2
  Host = host
  Remotes <- MCRemotes
  Types <- MCFlatTypes
  Children <- MCNoChildren
  Calls = {"create", "delete", "mutate", "tick"}
  MaxCalls = 3
  Leavers <- MCRemotes
  MaxQueue = 3
  WatchedIDs = {1, 2}
SYMMETRY Symmetry
INVARIANTS TypeOK ReplicasAgree CreationsReachClients DeletionsReachClients StateReachesClients
PROPERTY OwnerNeverSetBack
