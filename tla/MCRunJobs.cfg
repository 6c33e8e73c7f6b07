SPECIFICATION FairSpec
CONSTANTS
  r1 = r1
  r2 = r2
  Request = {r1}
  MaxSubmissions = 3
  MaxCrashes = 1
INVARIANTS
  DuplicateOnlyAfterLostAnswer
PROPERTIES
  PublishedJobsFinish
CHECK_DEADLOCK FALSE
