\* Two connections and bots fill two slots; the server's loop is fair.
CONSTANTS
    c1 = c1
    c2 = c2
    c3 = c3
    Conn <- TwoConns
    MaxPlayers = 2
    SvMaxPlayers = 2
    RemoteAdmins <- NoConns
    PasswordAdmins <- NoConns
    BotsAllowed = TRUE
    DemoRecording = FALSE
    Dummy = Dummy
    Bot = Bot
    DemoCam = DemoCam
SPECIFICATION Spec
INVARIANT SpriteAlwaysFound
PROPERTY LossHandled
