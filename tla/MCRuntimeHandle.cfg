CONSTANTS
  Roots = {r1, r2}
  Services = {s1}
  Configs = {c1}
  Closer = closer
  NoTask = NoTask
  MaxGeneration = 2
SPECIFICATION FairSpec
INVARIANTS LeasedGenerationIsLive OneGenerationPublishes
PROPERTIES GenerationPinned WaitersGetOn CloseReturns
