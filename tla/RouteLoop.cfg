CONSTANTS
  a1 = a1
  a2 = a2
  k = k
  A = A
  K = K
  Requests = {r1, r2}
  Candidates <- MCCandidates
  Domains <- MCDomains
  DomainOf <- MCDomainOf
  ModelOf <- MCModelOf
  FamilyOf <- MCFamilyOf
  ContextLimit <- MCContextLimit
  BodyLimit <- MCBodyLimit
  Routes <- MCRoutes
  Sizes = {1, 2}
  Slots <- MCSlots
  MaxQueue <- MCMaxQueue
SPECIFICATION FairSpec
INVARIANTS
  SlotsFollowRequests
  ResponseIsTheResult
PROPERTIES
  NoDoorUntried
  RequestEnds
