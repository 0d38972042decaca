SPECIFICATION Spec
CONSTANTS
  Host = host
  Conns = {c1, c2}
  Leavers = {c1}
  Sides = {5}
  MaxActs = 1
  MaxQueue = 1
  MaxLag = 1
  MaxBreaks = 1
INVARIANTS TypeOK OneShip ShipsNotAdopted ShieldsAgree
