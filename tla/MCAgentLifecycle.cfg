SPECIFICATION FairSpec
CONSTANTS
    MaxCalls = 6
    MaxFailures = 2
\* Nobody has to call.
CHECK_DEADLOCK FALSE
INVARIANT RunningIsServed
INVARIANT ShutdownIsFinal
PROPERTY ExitIsKept
PROPERTY OperationsEnd
