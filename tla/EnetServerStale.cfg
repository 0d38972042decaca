SPECIFICATION Spec
CONSTANTS
  c1 = c1
  c2 = c2
  Conns <- MCTwoConns
  MaxData = 0
  MaxSends = 0
INVARIANT
  OnlyOwnPackets
