SPECIFICATION FairSpec
CONSTANTS
  a = a
  b = b
  Docs = {a, b}
  Values = {"old", "new", "broken"}
  Invalid = {"broken"}
  First = "old"
  Presets = {p1}
  NoPreset = NoPreset
  Callers = {c1, c2}
  Requests <- MCRequests
  Nobody = Nobody
  MaxEdits = 1
  MaxFaults = 1
  MaxCrashes = 1
INVARIANTS FilesAreWhole ActiveIsServed
PROPERTIES NoSwapUnderRoot CallsAreAnswered
CHECK_DEADLOCK FALSE
