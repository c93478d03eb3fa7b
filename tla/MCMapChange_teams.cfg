\* Two teams score, somebody comes and goes, the admin interferes; a listed map is
\* missing and one is broken.
CONSTANTS
    p1 = p1
    p2 = p2
    alpha = alpha
    bravo = bravo
    m1 = m1
    m2 = m2
    m3 = m3
    Person <- OnePerson
    Teams <- TwoTeams
    TeamGame = TRUE
    BootList <- ThreeMaps
    ReloadList <- ThreeMaps
    Missing <- ThirdMap
    Broken <- SecondMap
    NoMap = NoMap
    KillLimit = 1
    TimeLimit = 9
    MapChangeTime = 4
    Second = 3
    PauseFloor = 10
    PauseValue = 18
    BulletTime = 1
    MaxMoves = 1
    MaxCommands = 2
SPECIFICATION Spec
PROPERTIES FairEnd MapChangeEnds
