SPECIFICATION Spec
CONSTANTS
    MaxAttempts = 3
    MaxAuthRetries = 2
    MaxWaiting = 2
INVARIANTS
    SocketsInOrder
    NeverFlattered
PROPERTIES
    EventsReturn
    StormEnds
CHECK_DEADLOCK FALSE
