SPECIFICATION Spec
CONSTANTS
  m1 = m1
  m2 = m2
  m3 = m3
  m4 = m4
  m5 = m5
  m6 = m6
  m7 = m7
  approve = approve
  old = old
  new = new
  observation = observation
  group_manager = group_manager
  cfo = cfo
  ceo = ceo
  margin_q2 = margin_q2
  \* ConversationState
  Persona = {m1, m2}
  Device = {m3, m4}
  NoScope = NoScope
  MaxMessages = 2
  MaxVersion = 2
  MaxOpened = 2
  MaxSwitches = 2
  MaxSaves = 1
  \* DecisionLifecycle
  Caller = {m1, m2}
  Choice = {approve, old}
  Approve = approve
  Evidence = {m7}
  EffectKey = {m7}
  Observation = observation
  FirstAction = old
  Title = new
  MaxClock = 0
  \* BoardMemory
  Closer = {m1, m2}
  Run = {m3, m4}
  NoPacket = NoPacket
  MaxSource = 1
  \* ExecutiveDecisions
  Requester = {m1, m2}
  DecisionKey = {m7}
  IdempotencyKey = {m5, m6}
  Content = {old, new}
  MaxEventId = 3
  \* InferenceAudit
  Call = {m1, m2, m7}
  Units = {1, 2}
  Quota = 3
  RequestLimit = 2
  LastDay = 1
  \* ToolEffects
  Attempt = {m1, m2, m7}
  NoInvocation = NoInvocation
  NoOutcome = NoOutcome
  \* AgentHandoffs
  Source = {m1, m2}
  MaxHandoffDepth = 3
  MaxChildTasks = 8
  \* FindingReview
  Finding = {m1, m2}
  Minimum = 1
  MaxRounds = 3
  \* SourcePacks
  File = {m1, m2}
  Role = {m3, m4}
  Request = {m5, m6}
  Period = {1, 2}
  NoContext = NoContext
  \* Projections
  Node = {m1, m2}
  Chunk = {m3, m4}
  \* LocalRuns
  LocalRun = {m1, m2}
  Actor = {m3, m4}
  Nobody = Nobody
  NoSummary = NoSummary
  NoDir = NoDir
  MaxRequests = 4
  \* ReviewFiles
  Upload = {m1, m2}
  FileName = {m3, m4}
  Cap = 1
  MaxStamp = 1
  MaxMisreads = 1
  \* RecoveryLedger
  EventId = {m1, m2, m7}
  RecoveryCase = {m3, m4}
  MaxAmount = 2
  MaxRows = 3
  \* TwinRecords
  Cycle = {m1, m2}
  EventJob = {m3, m4}
  Dispatch = {m5, m6}
  MaxRestarts = 1
  \* TwinMessaging
  Twin = {group_manager, cfo, ceo}
  Human = Human
  Kpi = {margin_q2}
  OwnerOf <- Owners
  PathOf <- Escalation
  Job = {m3, m4}
  MaxCounter = 1
  MaxChain = 3
  MaxCycles = 4
  MaxFaults = 1
CHECK_DEADLOCK FALSE
SYMMETRY Symmetry
INVARIANTS OncePerKindInOrder ToldWhatIsRecorded OneClosedPacket OneEventPerKey
  BudgetHeld OneReservedEffect StartsAfterSource WeakAreChallenged
  PublishedIsEvidenced FullRunsAreComplete LeftOutForCause
  ProjectionFollowsPostgres OwnDirectory ReleaseWasApproved LostOnlyToMisread
  ReconcilesTheSet OnlyRacesRepeat PendingIsSomewhere
  VettedBeforeShown
PROPERTIES LostOnlyAcrossScopes OnlyStaleWritersUndecide
