\* The list is read again at a map change, from another directory.
CONSTANTS
    p1 = p1
    p2 = p2
    alpha = alpha
    bravo = bravo
    m1 = m1
    m2 = m2
    m3 = m3
    Person <- OnePerson
    Teams <- NoTeams
    TeamGame = FALSE
    BootList <- ThreeMaps
    ReloadList <- EmptyList
    Missing <- NoMaps
    Broken <- NoMaps
    NoMap = NoMap
    KillLimit = 2
    TimeLimit = 13
    MapChangeTime = 4
    Second = 3
    PauseFloor = 10
    PauseValue = 30
    BulletTime = 2
    MaxMoves = 1
    MaxCommands = 0
SPECIFICATION Spec
INVARIANT MapsListKept
