SPECIFICATION Safety
CONSTANTS
  w1 = w1
  w2 = w2
  Nodes = {1, 2}
  Slots <- MCSlots
  MaxNodes = 3
  PreparedSpares = 1
  ActivatedSpares = 1
  QueueCap = 1
  InitialReplicas = {0, 2}
  BaseFree = 1
  ForceEnabled = TRUE
  ApiFails = TRUE
  Relabels = TRUE
  MaxRequests = 2
  MaxCrashes = 1
  None = None
SYMMETRY MCSlotSymmetry
INVARIANTS
  TypeOK
  RegistryEntriesAreLive
  NoDuplicateEntries
PROPERTIES
  ReservesOnlyRemovable
  RaisesWithinMax
  SpareFloorKept
  SyncPreservesUse
