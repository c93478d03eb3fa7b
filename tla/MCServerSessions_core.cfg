\* Three connections in turn on two slots, one of them an admin by address, one seat
\* for the others, with bots and demo recordings.
CONSTANTS
    c1 = c1
    c2 = c2
    c3 = c3
    Conn <- ThreeConns
    MaxPlayers = 2
    SvMaxPlayers = 1
    RemoteAdmins <- ThirdConn
    PasswordAdmins <- NoConns
    BotsAllowed = TRUE
    DemoRecording = TRUE
    Dummy = Dummy
    Bot = Bot
    DemoCam = DemoCam
SPECIFICATION Spec
SYMMETRY PlainSymmetry
INVARIANTS TypeOK NoOrphanSprite SeatsRespected
PROPERTIES MessageAuthority NoTakeover Implements
