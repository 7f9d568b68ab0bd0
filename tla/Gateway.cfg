CONSTANTS
  N = 2
  Requests = {r1}
  Keepalive = Keepalive
  NoOne = NoOne
  MaxTokens = 3
  ClaudeBackends = {1, 2}
  ClaudeCalls = {1, 2}
  Rotates = TRUE
  MaxPairs = 3
  Conversations = {"x", "y"}
  ModelOf <- MCModelOf
  CoreRequests <- MCCoreRequests
  ProactiveLimit = 3
  SecondLimit = 2
  MaxRetries = 4
  Max429Retries = 1
  ToolRoundLimit = 3
  MaxSystem = 7
  Instruction = 1
  KeepSystem = 3
  CutSystem = 4
  Bodies <- MCBodies
  BuiltinAgents <- MCBuiltin
  AgentFolders <- MCFolders
  FoldersWithKey = {"b"}
  AgentOverrides <- MCOverrides
  RequireAgentId = FALSE
  SessionHeaders <- MCHeaders
  GeneratedIds = {"g1"}
  NoAgent = "none"
  Anonymous = "anonymous"
  NoId = "no id"
  Visits = {1}
  MaxPerAgent = 2
  MaxSessions = 3
  IdleTimeout = 0
  PruneAfter = 1
  TrackExpired = TRUE
  LastMoment = 2
  Burners = {1, 2}
  EnergyDoors <- MCEnergyDoors
  Meters <- MCMeters
  Readings <- MCReadings
  NoReading = NoReading
  NoMeter = NoMeter
  EnergyModel <- MCEnergyModel
  Coefficients <- MCCoefficients
  TokenCounts <- MCTokenCounts
  EolErrors = 1
  EolSilences = 1
  EolAbsences = 1
  SuspectAbsences = 1
  Promotion = 2
  ServedModels = {"m1", "m2"}
  CatalogDoors <- MCCatalogDoors
  FetchOrder <- MCFetchOrder
  StoredModels <- MCStored
  WrapperSeeds = {}
  Wrapper = 0
  ReconcileMode = "flag"
  ExcludedModels = {}
  FocusedAliases <- MCFocusedAliases
  GenericBuckets <- MCGenericBuckets
  CapableModels = {"m1", "m2"}
  Refreshes = {1, 2}
  MaxChanges = 2
  CapModels = {1, 2}
  Truth <- MCTruth
  CapabilityBudget = 1
  CapabilityInterval = 2
  Assertions <- MCAssertions
  Rungs = 2
  MaxMoments = 2
  MaxBatteries = 2
SPECIFICATION MCSpec
INVARIANTS
  LoginSurvives
  ClaudeLoginSurvives
  LoopIsCut
  IndexesAgree
  OverlapIsSeen
  AliasRestsOnAnswers
  MeasurementsAreTrue
PROPERTIES
  NoStaleHeader
CHECK_DEADLOCK FALSE
