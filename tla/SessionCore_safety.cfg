SPECIFICATION SafetySpec
CONSTANTS
    MaxId = 3
    MaxBirths = 4
    Walked = {"completed"}
    Autoruns = {a1}
    NoAutorun = NoAutorun
    Requests = {r1}
INVARIANTS
    SlotOnce
    KeyUnique
    DriversKnown
PROPERTIES
    WatchdogFailsDead
CHECK_DEADLOCK FALSE
