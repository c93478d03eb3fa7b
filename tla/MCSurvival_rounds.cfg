\* Four sprites of two teams, two of whom change sides.
CONSTANTS
    MaxSprites = 4
    RespawnTime = 5
    WaveTimes = {3, 4}
    Choices <- TwoAndTwo
    MaxMoves = 7
SPECIFICATION Spec
INVARIANTS TypeOK
PROPERTIES NobodyEntersMidRound RoundStartsComplete SurvivorsScoreOnce DeathEndsRound NextRoundComes
