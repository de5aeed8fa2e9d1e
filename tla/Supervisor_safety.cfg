SPECIFICATION Spec
CONSTANTS
    PlanLength = 2
    RetryMode <- TwoCaptures
    RetryCount = 1
    MaxResolveFailures = 2
    AttemptBound = 3
INVARIANTS
    TypeOK
    MediaFiledOnce
    EngineWithinAttempt
    RecordingIsStashed
    RetryBudget
PROPERTIES
    OnlyCompletedDeleted
    FollowsWalk
    ImplementsPlan
CHECK_DEADLOCK FALSE
