SPECIFICATION FairSpec
CONSTANTS
    Kinds = {"session", "autorun", "recording", "profile"}
    Ids = {1, 2}
    Visited = {2}
    PageSize = 1
    MaxVersion = 3
    MaxEvents = 2
    MaxFaults = 1
PROPERTIES
    DeletionsHold
    ListCatchesUp
    DetailSettles
CHECK_DEADLOCK FALSE
