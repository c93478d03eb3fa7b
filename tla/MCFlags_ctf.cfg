\* Two sprites and a table of two things, which a parachute fills: safety and
\* liveness.
CONSTANTS
    MaxSprites = 2
    MaxThings = 2
    FlagTimeout = 2
    GrabCooldown = 2
    CheckPeriod = 2
    Choices <- FirstMovesSecondWatches
    MaxMoves = 1
SPECIFICATION Spec
INVARIANTS TypeOK OneFlagEach NobodyCarriesOwnFlag DeadCarryNothing
PROPERTIES HandlesStayHonest CaptureCountsOnce FlagComesBack
