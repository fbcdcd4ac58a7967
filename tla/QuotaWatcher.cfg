SPECIFICATION Spec
CONSTANTS
  OtherNames <- MCOtherNames
  UserRefs <- MCUserRefs
  InitialRefs = {"team-quota"}
  PodEvents <- MCPodEvents
  Immediate <- MCImmediate
  MaxDisturbances = 3
  None = None
INVARIANTS
  TypeOK
  ConsumedOnce
PROPERTIES
  NeverRevertsScaler
  Converges
  OmittedTargetIsSet
CHECK_DEADLOCK FALSE
