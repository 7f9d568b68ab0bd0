CONSTANTS
  glm5 = glm5
  glm46 = glm46
  glmX = glmX
  Models <- MCModels
  Recovery <- MCRecovery
  Ticks = {t1, t2}
  Synthetics = {s1}
  Callers = {c1}
  Provider = Provider
  NoOwner = NoOwner
  NoModel = NoModel
  MaxStops = 1
  LongStops = TRUE
SPECIFICATION FairSpec
PROPERTIES
  ExhaustedIsProbed
CHECK_DEADLOCK FALSE
