SPECIFICATION UndisturbedSpec
CONSTANTS
    PlanLength = 2
    RetryMode <- TwoCaptures
    RetryCount = 1
    MaxResolveFailures = 2
    AttemptBound = 3
INVARIANT StashHasFolder
CHECK_DEADLOCK FALSE
