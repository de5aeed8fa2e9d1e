SPECIFICATION FairSpec
CONSTANTS
    PlanLength = 1
    RetryMode <- AlwaysRetried
    RetryCount = 1
    MaxResolveFailures = 2
    AttemptBound = 3
PROPERTIES
    StopEndsRun
    ResolveFailuresEnd
CHECK_DEADLOCK FALSE
