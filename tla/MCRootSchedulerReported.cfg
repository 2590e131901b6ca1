SPECIFICATION Spec
CONSTANTS
  Requests = {r1, r2}
  Callers = {c1}
  Worker = worker
  Nothing = nothing
  Exit = exit
  Capacity = 2
  Retained = 1
INVARIANT CompletedIsReported
CHECK_DEADLOCK FALSE
