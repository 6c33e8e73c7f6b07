SPECIFICATION FairSpec
CONSTANTS
  Aggregate = {a1}
  Writer = {w1, w2}
  Limit = 1
  None = None
  MaxTime = 3
  MaxEvents = 3
  MaxConnects = 2
CHECK_DEADLOCK FALSE
INVARIANTS StampOrder OnlyLateOrTiedSkipped
PROPERTY AheadArrives
