\* Two clients and a bot or a recorder on two slots: safety and liveness.
CONSTANTS
    Ann = Ann
    Ben = Ben
    Clients <- TwoClients
    MaxSprites = 2
    Bots = TRUE
    Recordings = TRUE
    MaxMoves = 3
    Nobody = Nobody
    Bot = Bot
    DemoCam = DemoCam
SPECIFICATION Spec
INVARIANTS TypeOK ListsFollow AdoptsOwn
PROPERTIES FreshHeartbeats SpriteArrives Implements
