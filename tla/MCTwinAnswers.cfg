SPECIFICATION TwinSpec
CONSTANTS
  group_manager = group_manager
  cfo = cfo
  margin_q2 = margin_q2
  Twin = {group_manager, cfo}
  Human = Human
  Kpi = {margin_q2}
  OwnerOf <- TwoOwners
  PathOf <- TwoPaths
  Job = {j1}
  MaxCounter = 2
  MaxChain = 3
  MaxCycles = 5
  MaxFaults = 0
CHECK_DEADLOCK FALSE
INVARIANT AnswersEnd
