SPECIFICATION FairSpec
CONSTANTS
  Kinds = {"plain", "big", "huge", "hidden"}
  Hidden = {"hidden"}
  Size <- MCSize
  Clients = {c1}
  Capacity = 1
  MaxBytes = 4
  SegmentBytes = 3
  TotalBytes = 3
  Limit = 2
  PageBytes = 2
  MaxEvents = 3
  MaxFaults = 1
  MaxCrashes = 1
INVARIANTS PagesAreExact JournalIsWhole
PROPERTIES FollowersCatchUp
CHECK_DEADLOCK FALSE
