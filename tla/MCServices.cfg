SPECIFICATION ServicesSpec
CONSTANTS
  c1 = c1
  c2 = c2
  m1 = m1
  m2 = m2
  m3 = m3
  i1 = i1
  i2 = i2
  NoModel = NoModel
  Null = Null
  None = None
  Callers = {c1, c2}
  Models = {m1, m2, m3}
  candidates <- SomeCandidates
  Configured = m1
  FAILURE_THRESHOLD = 2
  ATTEMPTS = 3
  MaxEpochs = 2
  MaxOutages = 1
  MindFrames = {"f1", "f2"}
  MindKinds <- SomeKinds
  Cadence = 1
  MaxRounds = 3
  CallTicks = 2
  High = 1
  Stall = 2
  Items = 1
  MaxTime = 4
  PipeSize = 1
  Input = 2
  Output = 3
  max_stdout = 2
  max_attempts = 2
  SafeAttempts = 2
  Answers <- SomeAnswers
  Mounts <- SomeMounts
  NameRest <- SomeNames
  Role <- SomeRoles
  RoomOf <- SomeRooms
  Offers <- SomeOffers
  Ids = {i1, i2}
  Values = {"v"}
  MaxWrites = 2
  MaxCrashes = 1
  Sizes = {1}
  SystemTokens = 1
  Budget = 2
  Gap = 1
  Limit = 3
  MaxFrames = 3
  HeadTime = 1
  MaxEnds = 1
  FileAgents = {"a1", "a2"}
  Hands = {"h1"}
  DoorRooms = {"r1"}
  MaxLines = 1
  MaxResults = 1
  MaxIters = 1
  MaxCalls = 1
  MaxFailures = 1
  MaxFileCalls <- SomeCalls
INVARIANT OneRecovery
INVARIANT ResumedUsesFallback
INVARIANT ActivityIsShown
INVARIANT OutputIsWhole
INVARIANT AnswerIsHeard
INVARIANT AnswersAreOfDocuments
INVARIANT PromptIsRecent
INVARIANT WrittenIsKept
PROPERTY RecoveryEnds
PROPERTY MigratesOnce
CHECK_DEADLOCK FALSE
