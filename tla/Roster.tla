-------------------------------- MODULE Roster --------------------------------
(***************************************************************************)
(* Who the clients think is in the game.                                   *)
(*                                                                         *)
(* The server tells every connected client, those that have not joined yet *)
(* too, who comes and who goes; a client that asks for the game is sent    *)
(* the list of those who are there.  These messages are reliable: they     *)
(* arrive once and in order, some time later.  Once a second the players   *)
(* are also sent a heartbeat, which is not: it may be lost or overtake the *)
(* others, and it names nobody: its n-th entry is about the n-th sprite in *)
(* the game, on the server when it is sent and on the client when it       *)
(* arrives.                                                                *)
(*                                                                         *)
(* Code: src/shared/network/NetworkServerConnection.cpp,                   *)
(* NetworkServerHeartbeat.cpp, NetworkServerGame.cpp,                      *)
(* NetworkClientConnection.cpp, NetworkClientGame.cpp,                     *)
(* NetworkClientHeartbeat.cpp, src/client/Client.cpp,                      *)
(* src/server/Server.cpp, src/shared/Demo.cpp.                             *)
(***************************************************************************)
EXTENDS Naturals, Sequences, FiniteSets

CONSTANTS
    Clients,        \* clients, each with one connection
    MaxSprites,     \* max_sprites
    Bots,           \* whether the admin adds bots
    Recordings,     \* whether the admin uses /record and /stop
    MaxMoves,       \* bounds heartbeats, kicks, changes of team, bots and recordings
    Nobody,         \* any TServerPlayer made to fill sprite.player
    Bot,            \* the TServerPlayer of a bot
    DemoCam         \* the TServerPlayer of the demo recorder

ASSUME SpritesAssumption == MaxSprites \in Nat \ {0}
ASSUME MovesAssumption == MaxMoves \in Nat /\ Bots \in BOOLEAN /\ Recordings \in BOOLEAN
ASSUME PlayersAssumption ==
    /\ Nobody \notin Clients /\ Bot \notin Clients /\ DemoCam \notin Clients
    /\ Nobody # Bot /\ Nobody # DemoCam /\ Bot # DemoCam

VARIABLES
    session,        \* the connection of each client
    gamerequested,  \* TServerPlayer::gamerequested
    spritenum,      \* tplayer::spritenum of each client's player
    active,         \* Sprite::active on the server
    player,         \* Sprite::player on the server
    recording,      \* tdemo::factive on the server
    toClient,       \* reliable messages on their way to each client, in order
    heartbeats,     \* heartbeats on their way: how many sprites each counts
    requestinggame, \* NetworkClient::requestinggame of each client
    view,           \* the sprites that are active on each client
    mysprite,       \* FGlobalStateClient::mysprite of each client
    hidden,         \* history: the sprites a client lacks by a heartbeat or a missing map
    unannounced,    \* history: the slots emptied without a message
    moves

server == <<session, gamerequested, spritenum, active, player, recording>>
client == <<requestinggame, view, mysprite, hidden>>
vars == <<server, toClient, heartbeats, client, unannounced, moves>>

Slots == 1 .. MaxSprites
Players == Clients \cup {Nobody, Bot, DemoCam}

\* "yours" is a NewPlayer message with adoptspriteid = 1.
Message == [kind : {"list", "new", "yours", "left"}, slots : SUBSET Slots]

Open(c) == session[c] = "open"
Listed(i) == active[i] /\ player[i] # DemoCam
PlayersNum == Cardinality({i \in Slots : Listed(i)})

-----------------------------------------------------------------------------
(* What the server sends.  A definition whose name ends in Early, Playing,     *)
(* OffByOne, Again or Stuck is a slip of the definition that follows it, kept  *)
(* to see which property notices.                                              *)

NewPlayerEarly(i, num) ==
    [c \in Clients |-> [kind |-> IF spritenum[c] = i THEN "yours" ELSE "new", slots |-> {i}]]
NewPlayer(i, num) ==
    [c \in Clients |-> [kind |-> IF num[c] = i THEN "yours" ELSE "new", slots |-> {i}]]

PlayerDisconnect(i) == [c \in Clients |-> [kind |-> "left", slots |-> {i}]]

PlayersList == [kind |-> "list", slots |-> {i \in Slots : Listed(i)}]

\* serversendnewplayerinfo and serverplayerdisconnect go to all of mPlayers, "also
\* to pending players to avoid desynchronization of the players list".
SentPlaying(queues, m) ==
    [c \in Clients |-> IF Open(c) /\ spritenum[c] # 0 THEN Append(queues[c], m[c]) ELSE queues[c]]
Sent(queues, m) ==
    [c \in Clients |-> IF Open(c) THEN Append(queues[c], m[c]) ELSE queues[c]]

\* All open connections have been told of slot i.
Announced(i) == unannounced' = unannounced \ {i}

\* The connection ends: nothing more is sent, and ExitToMenu clears the client.
EndSession(c) ==
    /\ session' = [session EXCEPT ![c] = "over"]
    /\ heartbeats' = [heartbeats EXCEPT ![c] = {}]
    /\ view' = [view EXCEPT ![c] = {}]
    /\ hidden' = [hidden EXCEPT ![c] = {}]
    /\ mysprite' = [mysprite EXCEPT ![c] = 0]
    /\ requestinggame' = [requestinggame EXCEPT ![c] = FALSE]

-----------------------------------------------------------------------------
(* The server handles the connection of a client and its messages *)

\* JoinServer asks for the game at once; the second request, of the connection
\* callback, finds gamerequested set and is ignored.
Connected(c) ==
    /\ session[c] = "away"
    /\ session' = [session EXCEPT ![c] = "open"]
    /\ requestinggame' = [requestinggame EXCEPT ![c] = TRUE]
    /\ UNCHANGED <<gamerequested, spritenum, active, player, recording, toClient, heartbeats,
                   view, mysprite, hidden, unannounced, moves>>

\* serversendunaccepted closes the connection; clienthandleunaccepted exits to the menu.
Unaccepted(c) ==
    /\ EndSession(c)
    /\ toClient' = [toClient EXCEPT ![c] = <<>>]
    /\ UNCHANGED <<gamerequested, spritenum, active, player, recording, unannounced, moves>>

HandleRequestGame(c) ==
    /\ Open(c)
    /\ spritenum[c] = 0 /\ ~gamerequested[c]
    /\ \/ Unaccepted(c)
       \/ /\ gamerequested' = [gamerequested EXCEPT ![c] = TRUE]
          /\ toClient' = [toClient EXCEPT ![c] = Append(@, PlayersList)]
          /\ UNCHANGED <<session, spritenum, active, player, recording, heartbeats, client,
                         unannounced, moves>>

FirstFree(i) == ~active[i] /\ \A j \in Slots : ~active[j] => i <= j

SpriteNumberOffByOne(c, i) == [spritenum EXCEPT ![c] = i + 1]
SpriteNumber(c, i) == [spritenum EXCEPT ![c] = i]

\* A client sends PlayerInfo once it has the list and as long as it has no sprite (from
\* the menu, when the map was missing).
\* Whoever joins too often is kicked at the end of the same handler.  (Without a free
\* slot the player is turned down or the server ends: see ServerSessions.)
Join(c, i) ==
    /\ player' = [player EXCEPT ![i] = c]
    /\ spritenum' = SpriteNumber(c, i)
    /\ \E flooding \in BOOLEAN :
        LET told == Sent(toClient, NewPlayer(i, spritenum'))
        IN /\ active' = [active EXCEPT ![i] = ~flooding]
           /\ toClient' = IF flooding THEN Sent(told, PlayerDisconnect(i)) ELSE told
    /\ Announced(i)
    /\ UNCHANGED <<session, gamerequested, recording, heartbeats, client, moves>>

HandlePlayerInfoAgain(c) ==
    /\ Open(c)
    /\ ~requestinggame[c] /\ mysprite[c] = 0
    /\ gamerequested[c]
    /\ Unaccepted(c) \/ \E i \in Slots : FirstFree(i) /\ Join(c, i)
HandlePlayerInfo(c) ==
    /\ Open(c)
    /\ ~requestinggame[c] /\ mysprite[c] = 0
    /\ spritenum[c] = 0 /\ gamerequested[c]
    /\ Unaccepted(c) \/ \E i \in Slots : FirstFree(i) /\ Join(c, i)

\* serverhandleplayerdisconnect: clientdisconnect names the sprite the client thinks
\* is its own, the server takes away the one it knows of.
HandleLeave(c) ==
    /\ Open(c)
    /\ mysprite[c] # 0
    /\ spritenum[c] # 0 /\ player[spritenum[c]] = c
    /\ active' = [active EXCEPT ![spritenum[c]] = FALSE]
    /\ player' = [player EXCEPT ![spritenum[c]] = Nobody]
    /\ toClient' = [Sent(toClient, PlayerDisconnect(spritenum[c])) EXCEPT ![c] = <<>>]
    /\ Announced(spritenum[c])
    /\ EndSession(c)
    /\ UNCHANGED <<gamerequested, spritenum, recording, moves>>

\* The disconnection callback startserver installs, for whoever is in the slot.
Lost(c) ==
    /\ Open(c)
    /\ EndSession(c)
    /\ gamerequested' = [gamerequested EXCEPT ![c] = FALSE]
    /\ spritenum' = [spritenum EXCEPT ![c] = 0]
    /\ \/ /\ spritenum[c] = 0
          /\ toClient' = [toClient EXCEPT ![c] = <<>>]
          /\ UNCHANGED <<active, player, unannounced>>
       \/ /\ spritenum[c] # 0
          /\ active' = [active EXCEPT ![spritenum[c]] = FALSE]
          /\ player' = [player EXCEPT ![spritenum[c]] = Nobody]
          /\ toClient' = [Sent(toClient, PlayerDisconnect(spritenum[c])) EXCEPT ![c] = <<>>]
          /\ Announced(spritenum[c])
    /\ UNCHANGED <<recording, moves>>

-----------------------------------------------------------------------------
(* What else comes and goes on the server *)

Move == moves < MaxMoves /\ moves' = moves + 1

\* changeteam_ServerVariant makes the sprite anew in its slot.
ChangeTeam(i) ==
    /\ Listed(i)
    /\ Move
    /\ toClient' = Sent(toClient, NewPlayer(i, spritenum))
    /\ Announced(i)
    /\ UNCHANGED <<server, heartbeats, client>>

\* kickplayer, and apponidle when a player has been silent for too long.
KickPlayer(i) ==
    /\ active[i]
    /\ Move
    /\ active' = [active EXCEPT ![i] = FALSE]
    /\ toClient' = Sent(toClient, PlayerDisconnect(i))
    /\ Announced(i)
    /\ UNCHANGED <<session, gamerequested, spritenum, player, recording, heartbeats, client>>

\* addbotplayer; nothing is sent of a bot whose file is not found.
AddBotPlayer(i) ==
    /\ Bots
    /\ PlayersNum # MaxSprites
    /\ FirstFree(i)
    /\ Move
    /\ player' = [player EXCEPT ![i] = Bot]
    /\ \/ /\ active' = [active EXCEPT ![i] = TRUE]
          /\ toClient' = Sent(toClient, NewPlayer(i, spritenum))
          /\ Announced(i)
       \/ UNCHANGED <<active, toClient, unannounced>>
    /\ UNCHANGED <<session, gamerequested, spritenum, recording, heartbeats, client>>

\* stoprecord kills whatever is in the last slot and says nothing of it.
LastKilled ==
    unannounced' = IF Listed(MaxSprites) THEN unannounced \cup {MaxSprites} ELSE unannounced

StopRecord ==
    /\ recording
    /\ active' = [active EXCEPT ![MaxSprites] = FALSE]
    /\ recording' = FALSE
    /\ LastKilled
    /\ UNCHANGED <<session, gamerequested, spritenum, player, toClient, heartbeats, client, moves>>

\* /record: stoprecord, then startrecord, which stops again when the last slot is
\* taken.
StartRecord ==
    /\ Recordings
    /\ Move
    /\ LastKilled
    /\ \/ /\ recording \/ ~active[MaxSprites]
          /\ active' = [active EXCEPT ![MaxSprites] = TRUE]
          /\ player' = [player EXCEPT ![MaxSprites] = DemoCam]
          /\ recording' = TRUE
       \/ /\ ~recording /\ active[MaxSprites]
          /\ active' = [active EXCEPT ![MaxSprites] = FALSE]
          /\ UNCHANGED <<player, recording>>
    /\ UNCHANGED <<session, gamerequested, spritenum, toClient, heartbeats, client>>

\* serverheartbeat: an entry for each active sprite, the recorder's too, to every
\* human in the game.
ServerHeartbeat ==
    /\ Move
    /\ heartbeats' =
         [c \in Clients |->
            IF \E i \in Slots : active[i] /\ player[i] = c
            THEN heartbeats[c] \cup {Cardinality({i \in Slots : active[i]})}
            ELSE heartbeats[c]]
    /\ UNCHANGED <<server, toClient, client, unannounced>>

-----------------------------------------------------------------------------
(* The client handles what arrives *)

Arrives(c, kinds) ==
    /\ Open(c)
    /\ toClient[c] # <<>>
    /\ Head(toClient[c]).kind \in kinds
    /\ toClient' = [toClient EXCEPT ![c] = Tail(@)]
    /\ UNCHANGED <<server, heartbeats, unannounced, moves>>

Shows(c) ==
    /\ view' = [view EXCEPT ![c] = @ \cup Head(toClient[c]).slots]
    /\ hidden' = [hidden EXCEPT ![c] = @ \ Head(toClient[c]).slots]

\* The list adds sprites and takes none away.  A client that lacks the map (nothing is
\* downloaded) stays connected and shows none of them.  There is one list to a
\* connection, so the return for a list that was not asked for is never taken.
HandlePlayersList(c) ==
    /\ Arrives(c, {"list"})
    /\ requestinggame[c]
    /\ requestinggame' = [requestinggame EXCEPT ![c] = FALSE]
    /\ \/ Shows(c) /\ mysprite' = [mysprite EXCEPT ![c] = 0]
       \/ /\ hidden' = [hidden EXCEPT ![c] = @ \cup (Head(toClient[c]).slots \ view[c])]
          /\ UNCHANGED <<view, mysprite>>

\* The map is there and cannot be loaded.
CannotLoadMap(c) ==
    /\ Open(c) /\ requestinggame[c]
    /\ toClient[c] # <<>> /\ Head(toClient[c]).kind = "list"
    /\ EndSession(c)
    /\ toClient' = [toClient EXCEPT ![c] = <<>>]
    /\ UNCHANGED <<gamerequested, spritenum, active, player, recording, unannounced, moves>>

HandleNewPlayer(c) ==
    /\ Arrives(c, {"new", "yours"})
    /\ Shows(c)
    /\ \/ /\ Head(toClient[c]).kind = "yours"
          /\ \E i \in Head(toClient[c]).slots : mysprite' = [mysprite EXCEPT ![c] = i]
       \/ Head(toClient[c]).kind = "new" /\ UNCHANGED mysprite
    /\ UNCHANGED requestinggame

\* A message about a sprite that is not there is put back.
HandlePlayerDisconnectStuck(c) ==
    /\ Arrives(c, {"left"})
    /\ Head(toClient[c]).slots \subseteq view[c]
    /\ view' = [view EXCEPT ![c] = @ \ Head(toClient[c]).slots]
    /\ hidden' = [hidden EXCEPT ![c] = @ \ Head(toClient[c]).slots]
    /\ UNCHANGED <<mysprite, requestinggame>>

\* A client that is told of its own sprite keeps mysprite.
HandlePlayerDisconnect(c) ==
    /\ Arrives(c, {"left"})
    /\ view' = [view EXCEPT ![c] = @ \ Head(toClient[c]).slots]
    /\ hidden' = [hidden EXCEPT ![c] = @ \ Head(toClient[c]).slots]
    /\ UNCHANGED <<mysprite, requestinggame>>

\* The first n of a set of slots.
FirstOffByOne(S, n) == {i \in S : Cardinality({j \in S : j <= i}) < n}
First(S, n) == {i \in S : Cardinality({j \in S : j < i}) < n}

\* sprite.active = heartbeat->active[c] for the c-th active sprite.  Heartbeats
\* arrive in any order, or never.
HandleHeartbeat(c, n) ==
    /\ Open(c)
    /\ n \in heartbeats[c]
    /\ heartbeats' = [heartbeats EXCEPT ![c] = @ \ {n}]
    /\ view' = [view EXCEPT ![c] = First(@, n)]
    /\ hidden' = [hidden EXCEPT ![c] = @ \cup (view[c] \ First(view[c], n))]
    /\ UNCHANGED <<server, toClient, requestinggame, mysprite, unannounced, moves>>

HandleReliable(c) ==
    HandlePlayersList(c) \/ CannotLoadMap(c) \/ HandleNewPlayer(c) \/ HandlePlayerDisconnect(c)

-----------------------------------------------------------------------------
Init ==
    /\ session = [c \in Clients |-> "away"]
    /\ gamerequested = [c \in Clients |-> FALSE]
    /\ spritenum = [c \in Clients |-> 0]
    /\ active = [i \in Slots |-> FALSE]
    /\ player = [i \in Slots |-> Nobody]
    /\ recording = FALSE
    /\ toClient = [c \in Clients |-> <<>>]
    /\ heartbeats = [c \in Clients |-> {}]
    /\ requestinggame = [c \in Clients |-> FALSE]
    /\ view = [c \in Clients |-> {}]
    /\ mysprite = [c \in Clients |-> 0]
    /\ hidden = [c \in Clients |-> {}]
    /\ unannounced = {}
    /\ moves = 0

ServerStep ==
    \/ \E c \in Clients :
        Connected(c) \/ HandleRequestGame(c) \/ HandlePlayerInfo(c) \/ HandleLeave(c) \/ Lost(c)
    \/ \E i \in Slots : ChangeTeam(i) \/ KickPlayer(i) \/ AddBotPlayer(i)
    \/ StartRecord \/ StopRecord \/ ServerHeartbeat

ClientStep(c) ==
    HandleReliable(c) \/ \E n \in 0 .. MaxSprites : HandleHeartbeat(c, n)

\* Every client has come and gone.
Ended == (\A c \in Clients : session[c] = "over") /\ UNCHANGED vars

Next == ServerStep \/ (\E c \in Clients : ClientStep(c)) \/ Ended

\* GNS delivers what is reliable, and a client handles what has arrived.
Spec == Init /\ [][Next]_vars /\ \A c \in Clients : WF_vars(HandleReliable(c))

-----------------------------------------------------------------------------
(* Properties *)

\* Every variable stays in its type.
TypeOK ==
    /\ session \in [Clients -> {"away", "open", "over"}]
    /\ gamerequested \in [Clients -> BOOLEAN]
    /\ spritenum \in [Clients -> 0 .. MaxSprites]
    /\ active \in [Slots -> BOOLEAN]
    /\ player \in [Slots -> Players]
    /\ recording \in BOOLEAN
    /\ toClient \in [Clients -> Seq(Message)]
    /\ heartbeats \in [Clients -> SUBSET (0 .. MaxSprites)]
    /\ requestinggame \in [Clients -> BOOLEAN]
    /\ view \in [Clients -> SUBSET Slots]
    /\ mysprite \in [Clients -> 0 .. MaxSprites]
    /\ hidden \in [Clients -> SUBSET Slots]
    /\ unannounced \subseteq Slots
    /\ moves \in 0 .. MaxMoves

\* The k-th message to c is the last one about slot i.
LastAbout(c, i, k) ==
    /\ i \in toClient[c][k].slots
    /\ \A l \in DOMAIN toClient[c] : l > k => i \notin toClient[c][l].slots

\* What c will have of slot i once the reliable messages under way have arrived.
WillShow(c, i) ==
    \/ \E k \in DOMAIN toClient[c] : LastAbout(c, i, k) /\ toClient[c][k].kind # "left"
    \/ /\ \A k \in DOMAIN toClient[c] : i \notin toClient[c][k].slots
       /\ i \in view[c] \cup hidden[c]

\* Whoever has been let in will see exactly those who are in the game as soon as
\* what is under way has arrived: nobody is missed between the list and the news
\* that follow it, nobody stays behind.  (But for sprites a heartbeat has switched
\* off, those of a list whose map was missing, and slots stoprecord has emptied without
\* a word.)
ListsFollow ==
    \A c \in Clients : Open(c) /\ gamerequested[c] =>
        \A i \in Slots \ unannounced : WillShow(c, i) <=> Listed(i)

InPlay(c) == spritenum[c] # 0 /\ active[spritenum[c]] /\ player[spritenum[c]] = c

\* The k-th message to c is the last one that says which sprite is its own.
LastGift(c, k) ==
    /\ toClient[c][k].kind = "yours"
    /\ \A l \in DOMAIN toClient[c] : l > k => toClient[c][l].kind \notin {"list", "yours"}

\* A client in play controls the sprite the server gave it, or will when what is
\* under way has arrived; no list and no news of others takes it away.
AdoptsOwn ==
    \A c \in Clients : InPlay(c) =>
        \/ \E k \in DOMAIN toClient[c] :
            LastGift(c, k) /\ toClient[c][k].slots = {spritenum[c]}
        \/ /\ \A k \in DOMAIN toClient[c] : toClient[c][k].kind \notin {"list", "yours"}
           /\ mysprite[c] = spritenum[c]

Counted == Cardinality({i \in Slots : active[i]})

TakesGhostsOnly ==
    \A c \in Clients :
        gamerequested[c] /\ toClient[c] = <<>> /\ HandleHeartbeat(c, Counted) =>
            view[c] \ view'[c] \subseteq unannounced

\* A heartbeat that counts those who are there switches off nobody on a client that
\* is up to date, but for the ghosts stoprecord leaves.  (One that is late, or comes
\* before the news of somebody who has left, does: the sprites shown from there on
\* stand for the wrong entries.)
FreshHeartbeats == [][TakesGhostsOnly]_vars

\* Whoever has been given a sprite comes to control it, or loses it first.
SpriteArrives ==
    \A c \in Clients : InPlay(c) ~> (~InPlay(c) \/ mysprite[c] = spritenum[c])

-----------------------------------------------------------------------------
(* The promise to those who connect, see Sessions *)

stages ==
    [c \in Clients |->
        IF session[c] = "over" THEN "gone"
        ELSE IF session[c] = "away" THEN "away"
        ELSE IF InPlay(c) THEN "player"
        ELSE IF spritenum[c] # 0 THEN "benched"
        ELSE IF gamerequested[c] THEN "admitted"
        ELSE "guest"]

seats == [c \in Clients |-> IF Open(c) THEN spritenum[c] ELSE 0]

\* Every slot is for the public here: sv_maxplayers is left to ServerSessions.
Promise == INSTANCE Sessions WITH
    Conn <- Clients, MaxPlayers <- MaxSprites, SvMaxPlayers <- MaxSprites, RemoteAdmins <- {},
    stage <- stages, seat <- seats

\* What comes and goes here is what Sessions allows, as it is on the server that
\* ServerSessions has in more detail: each client passes through the stages in their
\* order, and a slot that is told to be a client's own was empty and asked for.
Implements == Promise!Spec

=============================================================================
