SPECIFICATION UndisturbedSpec
CONSTANTS
    PlanLength = 2
    RetryMode <- TwoCaptures
    RetryCount = 1
    MaxResolveFailures = 2
    AttemptBound = 3
PROPERTY RemuxKeepsRun
CHECK_DEADLOCK FALSE
