SPECIFICATION FairSpec
CONSTANTS
  Requests = {r1, r2}
  MaxDeletes = 2
INVARIANTS
  OrphansExplained
PROPERTIES
  CancelledEarlyNeverStarts
  CancelSettles
CHECK_DEADLOCK FALSE
