SPECIFICATION FairSpec
CONSTANTS
  MaxDay = 3
  MaxFaults = 3
INVARIANTS
  TurnsWorkOnOneDay
  FactsKeptByDay
  OnlyCrowdingRefuses
PROPERTIES
  RolloverIsAtomic
  DayIsReached
