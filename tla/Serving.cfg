CONSTANTS
  Visits = {v1, v2}
  BatchRows = 3
  MaxFaults = 1
  AuthzRequests = {a1, a2}
  Subjects = {"s1"}
  CacheTtl = 2
  MaxCache = 1
  PdpTimeout = 1
  CredentialLife = 1
  MaxRotations = 1
  MaxMessages = 9
  MaxCalls = 2
  KeepEnd = 4
  Ids = {"i", "j"}
  MaxFrames = 4
  MaxSlots = 2
  MaxTurns = 2
  MaxBlocks = 2
  MaxLines = 5
  RotateLines = 2
  KeepFiles = 2
  FlushBatch = 2
  MaxSeconds = 3
  Outputs = {o1, o2}
  MaxBuffer = 2
  MaxEmitted = 4
  MaxHooked = 4
  MaxPending = 2
  BatchSize = 2
  Optional = {"model_limits"}
  Settings = {"low", "high"}
  MaxActive = 2
SYMMETRY MCSymmetry
SPECIFICATION MCSpec
INVARIANTS
  ActiveIsInFlight
  PairsStayWhole
  EventsInOrder
  DropsOnlyWhenBehind
  NoOverlap
  StreamIsComplete
  ReemissionSaysTheSame
  WireIsPaired
  AnswerIsWhole
PROPERTIES
  AllowIsTold
  BoundaryStands
CHECK_DEADLOCK FALSE
