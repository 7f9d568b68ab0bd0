CONSTANTS
  HealthRequests = {r1, r2, r3}
  HealthWindow <- MCHealthWindow
  DegradedPercent <- MCDegradedPercent
  DownPercent <- MCDownPercent
  HealthThreshold <- MCThreshold
  RequireObserved = TRUE
  N = 2
  Gated = {}
  ClaimRequests = {r1, r2}
  ClaimThreshold = 2
  LocalRequests = {r1, r2}
  VerdictTtl = 2
  EolErrors = 2
  EolSilences = 2
  EolAbsences = 2
  SuspectAbsences = 1
  Promotion = 2
  NModels = 2
  NProviders = 1
  Declared <- MCDeclared
  ProbeBudget = 1
  MaxEvents = 2
  Executions = {"x", "y"}
  Engines <- MCEngines
  CircuitThreshold = 1
  ToolAttempts = 2
  Alternates = 1
  BackendAttempts = 1
  TextAttempts = 1
  Max429 = 1
SPECIFICATION MCSpec
PROPERTIES
  OtherRecordsKept
CHECK_DEADLOCK FALSE
