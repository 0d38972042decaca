SPECIFICATION FairSpec
CONSTANTS
  host = host
  r1 = r1
  r2 = r2
  Host = host
  Remotes <- MCRemotes
  Entities = {1}
  RPCs <- MCRPCs
  Lacks <- MCLacks
  Carried = {1}
  MaxCalls = 2
  Leavers = {r2}
  Mortal = {1}
INVARIANTS TypeOK CountedOnce ScoresAgree
PROPERTIES KeepsContract CallsArrive
CHECK_DEADLOCK FALSE
