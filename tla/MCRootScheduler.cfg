SPECIFICATION FairSpec
CONSTANTS
  Requests = {r1, r2, r3}
  Callers = {c1}
  Worker = worker
  Nothing = nothing
  Exit = exit
  Capacity = 2
  Retained = 1
INVARIANTS
  NothingLost
  ResultsHaveACause
PROPERTIES
  ServedInOrder
  ShutdownEnds
  ExitStops
CHECK_DEADLOCK FALSE
