SPECIFICATION DaySpec
CONSTANTS
  Root = root
  Nobody = nobody
  Services = {s1, s2}
  MaxDay = 2
  MaxFaults = 0
INVARIANTS
  SourcesBoundAgain
