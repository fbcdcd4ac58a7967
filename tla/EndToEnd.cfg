SPECIFICATION LoopSpec
CONSTANTS
  None = None
  n1 = n1
  c1 = c1
  c2 = c2
  Namespaces = {n1}
  Calls = {c1}
  Scaler <- MCScaler
  Defaults <- MCDefaults
  NodeScaling = TRUE
  QueueCap = 1
  ApiFails = FALSE
  Kinds = {"FailedCreate"}
  Quotas <- MCQuotas
  MaxPods = 2
  MaxWorkers = 2
PROPERTIES
  DeniedPodsAreCreated
