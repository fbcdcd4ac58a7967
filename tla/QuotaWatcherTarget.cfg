SPECIFICATION Safety
CONSTANTS
  OtherNames <- MCOtherNames
  UserRefs <- MCUserRefs
  InitialRefs = {}
  PodEvents = {}
  Immediate = {}
  MaxDisturbances = 3
  None = None
INVARIANTS
  EvaluatesTarget
CHECK_DEADLOCK FALSE
