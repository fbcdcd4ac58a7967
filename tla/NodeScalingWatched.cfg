SPECIFICATION Safety
CONSTANTS
  w1 = w1
  w2 = w2
  Nodes = {1, 2}
  Slots <- MCSlots
  MaxNodes = 2
  PreparedSpares = 1
  ActivatedSpares = 1
  QueueCap = 1
  InitialReplicas = {2}
  BaseFree = 1
  ForceEnabled = TRUE
  ApiFails = FALSE
  Relabels = TRUE
  MaxRequests = 2
  MaxCrashes = 0
  None = None
SYMMETRY MCSlotSymmetry
INVARIANTS
  ReservedIsWatched
