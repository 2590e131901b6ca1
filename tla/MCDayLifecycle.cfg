SPECIFICATION DayFairSpec
CONSTANTS
  Root = root
  Nobody = nobody
  Services = {s1, s2}
  MaxDay = 2
  MaxFaults = 1
INVARIANTS
  WorkOnOwnDay
  SleepersAreHeldUp
PROPERTIES
  CallsEnd
