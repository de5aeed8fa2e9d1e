SPECIFICATION ConsoleSpec
CONSTANTS
    None = "none"
    EmptyConfig = "{}"
    Engines = {"e1", "e2"}
    Resolvers = {"r1", "r2"}
    Configs = {"{}", "c"}
    ChainProfiles = {"p1", "p2"}
    Bases <- ChainBases
    Drafts <- ChainDrafts
    ProfileRows <- ChainRows
    Edited <- ChainEdited
    MaxRungs = 2
    MaxEdits = 3
    MaxChanges = 1
    People = {"u1", "u2"}
    Groups = {"g"}
    Capabilities <- AccessCapabilities
    Offered = {"VIEW", "OPERATE"}
    Nobody = "nobody"
    Items = {"i1", "i2"}
    Cached = {"i1"}
    NewItem = "i3"
    Me = "u1"
    StartAccess <- ItemAccess
    OthersWrite <- AccessOthersWrite
    MaxPanels = 1
    MaxAccessEdits = 2
    MaxForeign = 1
    MaxAccessFailures = 1
    Bundles <- SomeBundles
    BadBundle = "bad"
    NoBundle = "none"
    Installed <- InstalledPlugins
    StartProfiles <- OwnProfiles
    MaxLoads = 2
    MaxChoices = 2
    MaxApplies = 2
    RowIds = {1, 2}
    StartRows <- ListRows
    Protected = {1}
    MaxBirths = 2
    MaxEvents = 1
    MaxOrders = 2
    MaxReads = 1
    FormProfiles = {"p", "q"}
    Custom = "custom"
    MaxTime = 3
    MaxFormEdits = 2
    MaxSaves = 1
    MaxOthers = 1
    MaxRefreshes = 1
    Modes <- EngineModes
    Browses <- ResolverBrowses
    PresetProfiles <- PresetRows
    Sources <- SourceRows
    Unpicked = "-"
    MaxDialogs = 2
    MaxTyped = 3
    MaxSent = 1
    PlanLength = 2
    MaxAttempts = 2
    MaxPresses = 2
    MaxLost = 1
    Startable = {"p1", "p2"}
    Nothing = "nothing"
    MaxOpened = 2
    MaxPicked = 4
    MaxPressed = 2
    MaxUnheard = 1
    Urls = {"u1", "u2"}
    NoUrl = "none"
    MaxMounts = 3
    MaxMoves = 6
INVARIANTS
    ChainEditsKept
    PresetFits
    PreviewFollowsWatcher
PROPERTIES
    ChainAgrees
    AccessAsAsked
    ImportAsReported
    BulkWorkIsHonest
    SavesWhatWasTouched
    PageTellsTheRun
    StarterIsHonest
CHECK_DEADLOCK FALSE
