SPECIFICATION Spec
CONSTANTS
  None = None
  MaxNodes = 3
  PreparedSpares = 1
  Counts = {0, 1, 2}
  InitialContents <- MCContents
  OtherContents <- MCOtherContents
  NetworkFails = TRUE
  MaxFaults = 2
INVARIANTS
  TypeOK
  CleanUnlessFaulty
PROPERTIES
  ManifestSafety
  CatchesUp
