SPECIFICATION Spec
CONSTANTS
  None = None
  n1 = n1
  c1 = c1
  c2 = c2
  Namespaces = {n1}
  Calls <- MCCalls
  Scaler <- MCScaler
  Defaults <- MCDefaults
  NodeScaling = TRUE
  QueueCap = 1
  ApiFails = TRUE
  Kinds = {"FailedCreate"}
  Quotas <- MCQuotas
  MaxPods = 1
  MaxWorkers = 1
INVARIANTS
  TypeOK
  OneHolder
  HolderHasFlag
PROPERTIES
  FlagIsReleased
  CallsEnd
