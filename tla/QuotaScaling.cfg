SPECIFICATION Spec
CONSTANTS
  None = None
  Defaults <- MCDefaults
  CpuValues = {0, 1, 3, 4}
  CpuUsage = {0, 1, 3}
  MemoryValues = {0, 2}
  InitialHard <- MCInitialHard
  Usage <- MCUsage
  Objects <- MCObjects
  Scalers <- MCScalers
  Passes = 3
INVARIANTS
  TypeOK
  DemandIsMet
PROPERTIES
  RequestsStayWithinLimits
  NeverCutsBelowUse
  NoMixedResize
  Settles
  RaisesStayBelowMax
