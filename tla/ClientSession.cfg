SPECIFICATION FairSpec
CONSTANTS
  StopsFreely = FALSE
  MaxSessions = 2
  MaxSends = 2
  Stale <- MCStale
  MaxData = 2
INVARIANTS TypeOK Bracketed IDKnown SendsKept CleanDestruction
PROPERTIES Stops LearnsOfLoss
CHECK_DEADLOCK FALSE
