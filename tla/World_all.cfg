SPECIFICATION HalvesSpec
CONSTANTS
    Robots = {"r1"}
    Things = {"RedCube"}
    Colours = {"red"}
    Colour <- MCColour
    Spots = {0, 1}
    Hidden = Hidden
    MaxLinks = 2
    MaxQueue = 1
    Full = 2
    StaleBelow = 1
    RefreshBelow = 2
    TTL = 1
    Window = 2
    Old = 3
    Starts <- MCStarts
    Arms = {"Robot1", "Robot2"}
    Objects = {"cube", "red"}
    Listed = {"cube"}
    Bases <- MCBases
    Assigned <- MCAssigned
    Regions <- MCRegions
    Cell = 2
    MaxReach = 5
    BaseColumn = 1
    MinSeparation = 4
    StaticRadius = 1
    SafetyMargin = 1
    Lift = 1
    NearThreshold = 5
    Blocking = 1
    EEExclusion = 1
    Worlds <- MCWorlds
    Reports <- MCReports
    MaxReports = 2
INVARIANTS VerdictFollowsStream
PROPERTIES WorldCatchesUp ConflictsAreSound GraphCatchesUp
CHECK_DEADLOCK FALSE
