SPECIFICATION Spec
CONSTANTS
  n1 = n1
  n2 = n2
  s1 = s1
  s2 = s2
  c1 = c1
  c2 = c2
  c3 = c3
  Namespaces <- MCNamespaces
  Senders <- MCSenders
  Calls <- MCCalls
  UpdateInterval = 2
  ResultCap = 1
  None = None
INVARIANTS
  TypeOK
  OneCallPerNamespace
  InProgressIsAccurate
  PendingHasCarrier
PROPERTIES
  PeriodicRespectsInterval
  ImmediateNeverDropped
  ImmediateServed
  ContractSafety
  ContractFairness
