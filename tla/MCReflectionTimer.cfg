SPECIFICATION FairSpec
CONSTANTS
    Loops = {l1, l2}
    Preflights = {p1, p2}
    NoLoop = none
    LastDay = 2
    MaxFills = 2
    MaxFailures = 1
    MaxEvictions = 1
\* The clock stops at the last day.
CHECK_DEADLOCK FALSE
INVARIANT AcceptedOnce
INVARIANT JoinedWhenPaused
PROPERTY DueIsReflected
PROPERTY StopReturns
