SPECIFICATION Spec
CONSTANTS
  Kinds = {"plain", "big", "hidden"}
  Hidden = {"hidden"}
  Size <- MCSize
  Clients = {c1}
  Capacity = 1
  MaxBytes = 3
  SegmentBytes = 3
  TotalBytes = 3
  Limit = 2
  PageBytes = 2
  MaxEvents = 3
  MaxFaults = 0
  MaxCrashes = 1
INVARIANTS EvictionIsAnnounced
CHECK_DEADLOCK FALSE
