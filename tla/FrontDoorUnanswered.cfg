CONSTANTS
  Visits = {v1, v2}
  BatchRows = 3
  MaxFaults = 1
SPECIFICATION FrontDoorSpec
INVARIANTS
  AnsweredUnlessGone
CHECK_DEADLOCK FALSE
