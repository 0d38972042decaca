SPECIFICATION FairSpec
CONSTANTS
  c1 = c1
  c2 = c2
  Conns <- MCTwoConns
  MaxData = 1
  MaxSends = 0
PROPERTY
  IDsComeBack
