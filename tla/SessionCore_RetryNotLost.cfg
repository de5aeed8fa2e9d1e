SPECIFICATION SafetySpec
CONSTANTS
    MaxId = 2
    MaxBirths = 2
    Walked = {}
    Autoruns = {a1}
    NoAutorun = NoAutorun
    Requests = {}
PROPERTIES
    RetryNotLost
CHECK_DEADLOCK FALSE
