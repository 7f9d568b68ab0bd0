CONSTANTS
  None = None
  Doors = {"a", "b", "c"}
  DoorPriority <- MCPriority
  LastPriority = 2
  AdmissionGated = {"a"}
  Pure = {"b"}
  Discovering = {"c"}
  Restricted = {"b"}
  FailoverEnabled = TRUE
  MaxChanges = 2
  ProviderOrder <- MCOrder
  ModelOrder <- MCModels
  RemotePools = {"b"}
  Setups <- MCSetups
  Claims <- MCClaims
  Backends <- MCBackends
  Sessions <- MCSessions
  Keys = {"k1", "k2"}
  KeyOf <- MCKeyOf
  NoKey = "none"
  AffinityEntries = 1
  AffinityTtl = 1
  Wishes <- MCWishes
  MaxTurns = 3
  Requests <- MCRequests
  Documents <- MCDocuments
  Settings <- MCSettings
  Catalogs <- MCCatalogs
  ServingDoors <- MCServingDoors
  Excluded = {"m4"}
  Scored <- MCScored
  Aliases <- MCAliases
  SkNames = {"sk-default", "sk-tools", "sk-auto", "sk-opus", "sk-codex", "sk-l-secret", "sk-l-secrets"}
  BucketIds = {"sk-l-secret"}
  NearMisses = {"sk-l-secrets"}
  CodexNames = {"sk-codex"}
  PureDoors = {"cdx"}
  Claimed = {"m1", "m2", "m3"}
  ExactlyOwned = {"m1"}
  Discoverable = {"m9"}
  FallbackDoor = "cloud"
  FallbackZone = 2
  TopK = 2
  MaxOut = 1
  MaxStamp = 2
SPECIFICATION MCSpec
INVARIANTS
  OwnersAnswer
  DeadIsNotTried
  DecisionsAreCurrent
  WeightedShare
PROPERTIES
  SessionKeepsItsPick
