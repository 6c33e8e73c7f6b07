SPECIFICATION FairSpec
CONSTANTS
  t1 = t1
  c1 = c1
  c2 = c2
  w1 = w1
  w2 = w2
  NoTask = NoTask
  Task = {t1}
  Client = {c1, c2}
  Worker = {w1, w2}
  Retries = 1
  MaxPending = 1
  MaxCrashes = 1
INVARIANTS
  ApprovalBeforeExecution
PROPERTIES
  ReleasedTasksSettle
