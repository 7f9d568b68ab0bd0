CONSTANTS
  Calls = {c1, c2, c3, c4}
  Backends <- MCBackends
  Members <- MCMembers
  MaxConcurrent <- MCMaxConcurrent
  MaxQueue <- MCMaxQueue
SPECIFICATION FairSpec
PROPERTIES
  ImplementsSlotDoor
  WaiterSettles
CHECK_DEADLOCK FALSE
