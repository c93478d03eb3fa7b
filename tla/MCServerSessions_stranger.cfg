\* The loss of a kicked connection whose slot has a new player.
CONSTANTS
    c1 = c1
    c2 = c2
    c3 = c3
    Conn <- TwoConns
    MaxPlayers = 1
    SvMaxPlayers = 1
    RemoteAdmins <- NoConns
    PasswordAdmins <- NoConns
    BotsAllowed = FALSE
    DemoRecording = FALSE
    Dummy = Dummy
    Bot = Bot
    DemoCam = DemoCam
SPECIFICATION Spec
PROPERTY LossKillsOwnSprite
