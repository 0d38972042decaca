SPECIFICATION Spec
CONSTANTS
  Signal = {s1, s2}
  Plain = {p1}
  Managed = {m1, m2}
  None = None
  MaxConnects = 2
INVARIANTS TypeOK NoOrphans Accounted
CHECK_DEADLOCK FALSE
