\* Somebody plays for points, against the clock, with votes and a map that cannot be loaded.
CONSTANTS
    p1 = p1
    p2 = p2
    alpha = alpha
    bravo = bravo
    m1 = m1
    m2 = m2
    m3 = m3
    Person <- TwoPersons
    Teams <- NoTeams
    TeamGame = FALSE
    BootList <- ThreeMaps
    ReloadList <- ThreeMaps
    Missing <- NoMaps
    Broken <- SecondMap
    NoMap = NoMap
    KillLimit = 2
    TimeLimit = 13
    MapChangeTime = 4
    Second = 3
    PauseFloor = 10
    PauseValue = 30
    BulletTime = 2
    MaxMoves = 3
    MaxCommands = 0
SPECIFICATION Spec
INVARIANTS TypeOK LimitNoticed
PROPERTIES GraceKept TimeLimitEndsMap
