SPECIFICATION Spec
CONSTANTS
  Reviewer = {r1, r2}
  Unclaimed = {r2}
  Operator = {o1, o2}
  None = None
  MaxDecisions = 2
  MaxReleases = 2
  MaxFaults = 1
CHECK_DEADLOCK FALSE
SYMMETRY Symmetry
INVARIANTS GateHonoured ReleasesAreReviewed 
PROPERTY ClaimsExclude
VIEW View
