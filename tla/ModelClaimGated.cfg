CONSTANTS
  N = 1
  Gated = {1}
  ClaimRequests = {r1, r2, r3}
  ClaimThreshold = 2
SPECIFICATION ClaimFairSpec
PROPERTIES
  ClaimIsProbed
