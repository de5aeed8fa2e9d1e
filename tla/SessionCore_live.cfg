SPECIFICATION LiveSpec
CONSTANTS
    MaxId = 2
    MaxBirths = 2
    Walked = {"playing", "completed"}
    Autoruns = {a1}
    NoAutorun = NoAutorun
    Requests = {r1}
INVARIANTS
    TypeOK
PROPERTIES
    NoRowStranded
    RequestsEnd
    WindowCloses
CHECK_DEADLOCK FALSE
