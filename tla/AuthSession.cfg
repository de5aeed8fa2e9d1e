SPECIFICATION Spec
CONSTANTS
    MaxSessions = 2
    MaxTokens = 3
    MaxEntries = 1
    MaxTimers = 1
    MaxFaults = 2
    Flights = {f1, f2}
INVARIANTS
    SignedOutStaysOut
    SessionConsistent
    RotationNeverRaces
PROPERTIES
    DeadSessionEnds
CHECK_DEADLOCK FALSE
