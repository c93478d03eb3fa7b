---------------------------- MODULE ServerSessions ----------------------------
(***************************************************************************)
(* Connections, player objects and sprite slots of the dedicated server.   *)
(*                                                                         *)
(* A connection of GameNetworkingSockets (GNS) becomes a TServerPlayer, a  *)
(* TServerPlayer asks for the game, joins it and is given a sprite slot;   *)
(* the slot is taken away by a kick, a timeout, a farewell message or the  *)
(* loss of the connection.  The life of the connection, of the player      *)
(* object and of the sprite are three different things kept in three       *)
(* different places, and the module is about how they stay together.       *)
(*                                                                         *)
(* Code: src/shared/network/NetworkServer.cpp, NetworkServerConnection.cpp,*)
(* NetworkServerGame.cpp, src/server/Server.cpp, ServerLoop.cpp,           *)
(* src/shared/mechanics/Sprites.cpp, SpriteSystem.cpp, src/shared/Demo.cpp.*)
(***************************************************************************)
EXTENDS Naturals, Sequences, FiniteSets

CONSTANTS
    Conn,           \* connection handles; GNS never hands one out twice
    MaxPlayers,     \* max_players = max_sprites: the number of sprite slots
    SvMaxPlayers,   \* sv_maxplayers
    RemoteAdmins,   \* connections from an address of remoteips
    PasswordAdmins, \* connections that present sv_adminpassword
    BotsAllowed,    \* whether the admin adds bots
    DemoRecording,  \* whether the admin uses /record and /stop
    Dummy,          \* any TServerPlayer made to fill sprite.player
    Bot,            \* the TServerPlayer of a bot
    DemoCam         \* the TServerPlayer of the demo recorder

ASSUME SlotsAssumption == MaxPlayers \in Nat \ {0}
ASSUME CvarAssumption == SvMaxPlayers \in Nat
ASSUME AdminAssumption == RemoteAdmins \subseteq Conn /\ PasswordAdmins \subseteq Conn
ASSUME FlagAssumption == BotsAllowed \in BOOLEAN /\ DemoRecording \in BOOLEAN
ASSUME PlayerAssumption ==
    /\ Dummy \notin Conn /\ Bot \notin Conn /\ DemoCam \notin Conn
    /\ Dummy # Bot /\ Dummy # DemoCam /\ Bot # DemoCam

VARIABLES
    gns,            \* what GNS knows of each connection
    posted,         \* status changes GNS has queued and not yet dispatched
    queued,         \* mQueuedCallbacks of TNetwork
    phase,          \* where RunServer's loop is, or why it ended
    mPlayers,       \* NetworkServer::mPlayers
    mConnectionMap, \* the keys of NetworkServer::mConnectionMap
    gamerequested,  \* TServerPlayer::gamerequested of each connection's player
    spritenum,      \* tplayer::spritenum of each connection's player
    active,         \* Sprite::active
    player,         \* Sprite::player
    recording       \* tdemo::factive

netvars == <<gns, posted, queued>>
mapvars == <<mPlayers, mConnectionMap>>
plvars == <<gamerequested, spritenum>>
sprvars == <<active, player>>
vars == <<netvars, phase, mapvars, plvars, sprvars, recording>>

Slots == 1 .. MaxPlayers
Players == Conn \cup {Dummy, Bot, DemoCam}
GnsStates == {"none", "connecting", "connected", "refused", "lost", "closed"}
Event == [conn : Conn, state : {"Connecting", "Connected", "Lost"}]
Crashes == {"assert_map", "null_player", "no_sprite"}
Phases == {"events", "ticks", "stopped"} \cup Crashes

Running == phase \in {"events", "ticks"}
Admins == RemoteAdmins \cup PasswordAdmins

-----------------------------------------------------------------------------
(* The sprite table.  Here and below, a definition whose name ends in          *)
(* Unchecked, Unasked, Skipped, TooLate, Forgetful or OffByOne is a slip of    *)
(* the definition that follows it, kept to see which property notices.         *)

\* sortplayers counts every active sprite but the demo recorder's.
PlayersNum == Cardinality({i \in Slots : active[i] /\ player[i] # DemoCam})
BotsNum == Cardinality({i \in Slots : active[i] /\ player[i] = Bot})

TotallyFullTooLate == PlayersNum > MaxPlayers
TotallyFull == PlayersNum >= MaxPlayers

HumansFull == PlayersNum - BotsNum >= SvMaxPlayers
ServerFull == HumansFull \/ TotallyFull

\* CreateSprite(Invalid) searches for the first sprite that is not active.
FreeSlotsUnchecked == Slots
FreeSlots == {i \in Slots : ~active[i]}
FirstFree(i) == i \in FreeSlots /\ \A j \in FreeSlots : i <= j

\* createsprite: the TSprite is constructed anew in its slot, so the player it
\* had is not told (sprite.player is null when createsprite looks at it).
CreateSprite(i, p, stays) ==
    /\ active' = [active EXCEPT ![i] = stays]
    /\ player' = [player EXCEPT ![i] = p]

\* Sprite::kill leaves sprite.player and player->spritenum as they are.
Kill(i) ==
    /\ active' = [active EXCEPT ![i] = FALSE]
    /\ UNCHANGED player

Crash(why) ==
    /\ phase' = why
    /\ UNCHANGED <<netvars, mapvars, plvars, sprvars, recording>>

-----------------------------------------------------------------------------
(* GNS and the peers *)

ClientConnects(c) ==
    /\ Running
    /\ gns[c] = "none"
    /\ gns' = [gns EXCEPT ![c] = "connecting"]
    /\ posted' = Append(posted, [conn |-> c, state |-> "Connecting"])
    /\ UNCHANGED <<queued, phase, mapvars, plvars, sprvars, recording>>

\* The peer closes, or GNS gives the connection up.
ConnectionDies(c) ==
    /\ Running
    /\ gns[c] \in {"connecting", "connected"}
    /\ gns' = [gns EXCEPT ![c] = IF gns[c] = "connecting" THEN "refused" ELSE "lost"]
    /\ posted' = Append(posted, [conn |-> c, state |-> "Lost"])
    /\ UNCHANGED <<queued, phase, mapvars, plvars, sprvars, recording>>

\* CloseConnection forgets the user data first: GNS reports nothing more.
CloseConnectionSkipped(c) == UNCHANGED gns
CloseConnection(c) == gns' = [gns EXCEPT ![c] = "closed"]

-----------------------------------------------------------------------------
(* NetworkServer::ProcessLoop: every queued event, then one message *)

RunCallbacks ==
    /\ phase = "ticks"
    /\ queued' = posted
    /\ posted' = <<>>
    /\ phase' = "events"
    /\ UNCHANGED <<gns, mapvars, plvars, sprvars, recording>>

NextEvent(c, s) ==
    /\ phase = "events"
    /\ queued # <<>>
    /\ Head(queued) = [conn |-> c, state |-> s]

\* AcceptConnection fails when the peer has gone in the meantime.
ProcessConnecting(c) ==
    /\ NextEvent(c, "Connecting")
    /\ queued' = Tail(queued)
    /\ \/ /\ gns[c] = "connecting"
          /\ gns' = [gns EXCEPT ![c] = "connected"]
          /\ posted' = Append(posted, [conn |-> c, state |-> "Connected"])
       \/ /\ gns[c] # "connecting"
          /\ UNCHANGED <<gns, posted>>
    /\ UNCHANGED <<phase, mapvars, plvars, sprvars, recording>>

ProcessConnected(c) ==
    /\ NextEvent(c, "Connected")
    /\ c \notin mConnectionMap
    /\ queued' = Tail(queued)
    /\ mPlayers' = mPlayers \cup {c}
    /\ mConnectionMap' = mConnectionMap \cup {c}
    /\ UNCHANGED <<gns, posted, phase, plvars, sprvars, recording>>

\* The disconnection callback startserver installs.
DisconnectionCallbackForgetful(c) == UNCHANGED sprvars
DisconnectionCallback(c) ==
    \/ /\ spritenum[c] = 0
       /\ UNCHANGED sprvars
    \/ /\ spritenum[c] # 0
       /\ CreateSprite(spritenum[c], Dummy, FALSE)

\* ClosedByPeer and ProblemDetectedLocally; the player object dies with its
\* entry of mConnectionMap.
ProcessLost(c) ==
    /\ NextEvent(c, "Lost")
    /\ c \in mConnectionMap
    /\ queued' = Tail(queued)
    /\ DisconnectionCallback(c)
    /\ mPlayers' = mPlayers \ {c}
    /\ mConnectionMap' = mConnectionMap \ {c}
    /\ gamerequested' = [gamerequested EXCEPT ![c] = FALSE]
    /\ spritenum' = [spritenum EXCEPT ![c] = 0]
    /\ CloseConnection(c)
    /\ UNCHANGED <<posted, phase, recording>>

\* SoldatAssert on mConnectionMap, in the Lost and in the Connected case.
AssertMap(c) ==
    /\ \/ NextEvent(c, "Lost") /\ c \notin mConnectionMap
       \/ NextEvent(c, "Connected") /\ c \in mConnectionMap
    /\ Crash("assert_map")

ProcessEvents ==
    \E c \in Conn :
        ProcessConnecting(c) \/ ProcessConnected(c) \/ ProcessLost(c) \/ AssertMap(c)

\* A message of c is at the head of the poll group; the client is free to send
\* any message at any time, so which one it is is chosen here.
Receive(c) ==
    /\ phase = "events"
    /\ queued = <<>>
    /\ gns[c] \in {"connected", "lost"}

MessageOf(c) == Receive(c) /\ c \in mConnectionMap

\* HandleMessages uses what GetPlayer returns without a check.
HandleUnknownPeer(c) ==
    /\ Receive(c)
    /\ c \notin mConnectionMap
    /\ Crash("null_player")

\* No message, or one that HandleMessages and its handlers leave alone.
NothingToHandle ==
    /\ phase = "events"
    /\ queued = <<>>
    /\ phase' = "ticks"
    /\ UNCHANGED <<netvars, mapvars, plvars, sprvars, recording>>

\* serversendunaccepted: tell why and close.
Unaccepted(c) ==
    /\ CloseConnection(c)
    /\ phase' = "ticks"
    /\ UNCHANGED <<posted, queued, mapvars, plvars, sprvars, recording>>

\* The decision of serverhandlerequestgame; "turnedDown" stands for a ban of the
\* address or the hardware, or a wrong game password.
RequestAccepted(c, turnedDown) ==
    /\ ~TotallyFull
    /\ \/ c \in Admins
       \/ ~turnedDown /\ ~ServerFull

HandleRequestGame(c) ==
    /\ MessageOf(c)
    /\ spritenum[c] = 0 /\ ~gamerequested[c]
    /\ \E turnedDown \in BOOLEAN :
        \/ /\ RequestAccepted(c, turnedDown)
           /\ gamerequested' = [gamerequested EXCEPT ![c] = TRUE]
           /\ phase' = "ticks"
           /\ UNCHANGED <<netvars, mapvars, spritenum, sprvars, recording>>
        \/ /\ ~RequestAccepted(c, turnedDown)
           /\ Unaccepted(c)

\* serverhandleplayerinfo checks the seats again.
SeatLeftUnchecked(c) == ~TotallyFull
SeatLeft(c) ==
    /\ ~TotallyFull
    /\ ~HumansFull \/ c \in RemoteAdmins

MayJoinUnasked(c) == spritenum[c] = 0
MayJoin(c) == spritenum[c] = 0 /\ gamerequested[c]

\* The number of a sprite is its index plus one.
JoinOffByOne(c, i) ==
    /\ CreateSprite(i, c, TRUE)
    /\ spritenum' = [spritenum EXCEPT ![c] = i + 1]
    /\ phase' = "ticks"
    /\ UNCHANGED <<netvars, mapvars, gamerequested, recording>>

\* The join, and the kick for joining too often that may end it at once.
Join(c, i) ==
    \E flooding \in BOOLEAN :
        /\ flooding => c \notin Admins
        /\ CreateSprite(i, c, ~flooding)
        /\ spritenum' = [spritenum EXCEPT ![c] = i]
        /\ phase' = "ticks"
        /\ UNCHANGED <<netvars, mapvars, gamerequested, recording>>

HandlePlayerInfo(c) ==
    /\ MessageOf(c)
    /\ MayJoin(c)
    /\ \/ Unaccepted(c)     \* no seat left, a team that does not exist, spectators full
       \/ /\ SeatLeft(c)
          /\ \E i \in FreeSlots : FirstFree(i) /\ Join(c, i)
       \/ /\ SeatLeft(c)
          /\ FreeSlots = {}
          /\ Crash("no_sprite")

\* What HandleMessages asks before every other message.
OwnerUnchecked(c) == MessageOf(c) /\ spritenum[c] # 0
Owner(c) ==
    /\ MessageOf(c)
    /\ spritenum[c] # 0
    /\ player[spritenum[c]] = c

\* serverhandleplayerdisconnect when a kick vote against the player is running:
\* kicked and banned, but neither closed nor forgotten.
HandleLeaveVotedOut(c) ==
    /\ Owner(c)
    /\ \/ Kill(spritenum[c])
       \/ c \in Admins /\ UNCHANGED sprvars
    /\ phase' = "ticks"
    /\ UNCHANGED <<netvars, mapvars, plvars, recording>>

\* serverhandleplayerdisconnect otherwise; it erases the player from a copy of
\* mPlayers.
HandleLeave(c) ==
    /\ Owner(c)
    /\ CreateSprite(spritenum[c], Dummy, FALSE)
    /\ CloseConnection(c)
    /\ phase' = "ticks"
    /\ UNCHANGED <<posted, queued, mapvars, plvars, recording>>

\* A message whose handler kicks its sender: flooding, a weapon not allowed.
HandleOffence(c) ==
    /\ Owner(c)
    /\ active[spritenum[c]]
    /\ Kill(spritenum[c])
    /\ phase' = "ticks"
    /\ UNCHANGED <<netvars, mapvars, plvars, recording>>

HandleMessage(c) ==
    \/ HandleUnknownPeer(c)
    \/ HandleRequestGame(c)
    \/ HandlePlayerInfo(c)
    \/ HandleLeaveVotedOut(c)
    \/ HandleLeave(c)
    \/ HandleOffence(c)

-----------------------------------------------------------------------------
(* The ticks between two calls of ProcessLoop *)

\* kickplayer, whoever calls it: an admin, a vote, ping and flood warnings.
KickPlayer(i) ==
    /\ phase = "ticks"
    /\ active[i]
    /\ Kill(i)
    /\ UNCHANGED <<netvars, phase, mapvars, plvars, recording>>

\* apponidle drops a human that has been silent for disconnection_time ticks.
NoResponse(i) ==
    /\ phase = "ticks"
    /\ active[i] /\ player[i] \in Conn
    /\ Kill(i)
    /\ UNCHANGED <<netvars, phase, mapvars, plvars, recording>>

\* addbotplayer; the bot goes again at once when its file is not found.
AddBotPlayer ==
    /\ phase = "ticks"
    /\ BotsAllowed
    /\ PlayersNum # MaxPlayers
    /\ \/ \E i \in FreeSlots, found \in BOOLEAN :
            /\ FirstFree(i)
            /\ CreateSprite(i, Bot, found)
            /\ UNCHANGED <<netvars, phase, mapvars, plvars, recording>>
       \/ /\ FreeSlots = {}
          /\ Crash("no_sprite")

\* stoprecord kills whatever sprite is in the last slot.
StopRecord ==
    /\ phase = "ticks"
    /\ recording
    /\ Kill(MaxPlayers)
    /\ recording' = FALSE
    /\ UNCHANGED <<netvars, phase, mapvars, plvars>>

\* /record: stoprecord, then startrecord.  startrecord is already active when
\* createdemoplayer finds the last slot taken and calls stoprecord.
StartRecord ==
    /\ phase = "ticks"
    /\ DemoRecording
    /\ \/ /\ recording \/ ~active[MaxPlayers]
          /\ CreateSprite(MaxPlayers, DemoCam, TRUE)
          /\ recording' = TRUE
       \/ /\ ~recording /\ active[MaxPlayers]
          /\ Kill(MaxPlayers)
          /\ recording' = FALSE
    /\ UNCHANGED <<netvars, phase, mapvars, plvars>>

\* ShutDown: serverdisconnect kills the human sprites, DeinitServerNetwork lets
\* the network object go without running its destructor.
ShutDown ==
    /\ phase = "ticks"
    /\ active' = [i \in Slots |-> active[i] /\ player[i] = Bot]
    /\ phase' = "stopped"
    /\ UNCHANGED <<netvars, mapvars, plvars, player, recording>>

-----------------------------------------------------------------------------
Init ==
    /\ gns = [c \in Conn |-> "none"]
    /\ posted = <<>>
    /\ queued = <<>>
    /\ phase = "ticks"
    /\ mPlayers = {}
    /\ mConnectionMap = {}
    /\ gamerequested = [c \in Conn |-> FALSE]
    /\ spritenum = [c \in Conn |-> 0]
    /\ active = [i \in Slots |-> FALSE]
    /\ player = [i \in Slots |-> Dummy]
    /\ recording = FALSE

Poll == NothingToHandle \/ \E c \in Conn : HandleMessage(c)

ServerLoop == RunCallbacks \/ ProcessEvents \/ Poll

\* The process is over: ShutDown has run or it has crashed.
Ended == ~Running /\ UNCHANGED vars

Next ==
    \/ \E c \in Conn : ClientConnects(c) \/ ConnectionDies(c)
    \/ ServerLoop
    \/ \E i \in Slots : KickPlayer(i) \/ NoResponse(i)
    \/ AddBotPlayer \/ StartRecord \/ StopRecord \/ ShutDown
    \/ Ended

\* RunServer calls apponidle, and apponidle ProcessLoop, for as long as the
\* server runs; nothing is assumed of the peers or of the admin.
Spec == Init /\ [][Next]_vars /\ WF_vars(ServerLoop)

-----------------------------------------------------------------------------
(* Properties *)

\* Every variable stays in its type.
TypeOK ==
    /\ gns \in [Conn -> GnsStates]
    /\ posted \in Seq(Event)
    /\ queued \in Seq(Event)
    /\ phase \in Phases
    /\ mPlayers \subseteq Conn
    /\ mConnectionMap \subseteq Conn
    /\ gamerequested \in [Conn -> BOOLEAN]
    /\ spritenum \in [Conn -> 0 .. MaxPlayers]
    /\ active \in [Slots -> BOOLEAN]
    /\ player \in [Slots -> Players]
    /\ recording \in BOOLEAN

\* A sprite in play that belongs to a human belongs to a connection the server
\* still serves, and that connection's player points back at it: whichever of
\* kick, timeout, farewell and loss comes first, no sprite is left standing
\* that nobody can move, kick or time out.
NoOrphanSprite ==
    \A i \in Slots : active[i] /\ player[i] \in Conn =>
        /\ player[i] \in mPlayers \cap mConnectionMap
        /\ gns[player[i]] \in {"connected", "lost"}
        /\ spritenum[player[i]] = i

\* A message can take from the game no sprite but its sender's: a kicked player
\* whose slot has been given away keeps its old slot number and its connection,
\* and HandleMessages must not act on the new owner.
MessageAuthority ==
    [][\A c \in Conn : HandleMessage(c) =>
         \A i \in Slots : active[i] /\ player[i] # c =>
            active'[i] /\ player'[i] = player[i]]_vars

\* A slot in play is never handed to another player without being vacated first
\* (/record restarts a recording in one step, so the recorder's own slot is let
\* out while it records).
NoTakeover ==
    [][\A i \in Slots : active[i] /\ active'[i] /\ (i = MaxPlayers => ~recording) =>
         player'[i] = player[i]]_vars

\* PlayerInfo is accepted once in the life of a connection ("allowed once after
\* RequestGame was received", HandleMessages): the slot number never moves.
JoinOnce ==
    [][\A c \in Conn : spritenum[c] # 0 => spritenum'[c] \in {spritenum[c], 0}]_vars

\* However many connections passed the check at RequestGame together, the humans
\* in play who are not remote admins never exceed sv_maxplayers.
SeatsRespected ==
    Cardinality({i \in Slots : active[i] /\ player[i] \in Conn \ RemoteAdmins})
        <= SvMaxPlayers

\* createsprite never runs out of sprites (CreateSprite would call std::abort).
SpriteAlwaysFound == phase # "no_sprite"

\* A connection GNS reports lost is closed and forgotten, unless the server ends
\* first.
LossHandled ==
    \A c \in Conn : gns[c] = "lost" ~> (gns[c] = "closed" \/ ~Running)

-----------------------------------------------------------------------------
(* The promise to those who connect, see Sessions *)

InPlay(c) == spritenum[c] # 0 /\ active[spritenum[c]] /\ player[spritenum[c]] = c

stages ==
    [c \in Conn |->
        IF gns[c] = "closed" THEN "gone"
        ELSE IF c \notin mConnectionMap THEN "away"
        ELSE IF InPlay(c) THEN "player"
        ELSE IF spritenum[c] # 0 THEN "benched"
        ELSE IF gamerequested[c] THEN "admitted"
        ELSE "guest"]

seats == [c \in Conn |-> IF gns[c] = "closed" THEN 0 ELSE spritenum[c]]

Promise == INSTANCE Sessions WITH stage <- stages, seat <- seats

\* Whatever the messages, the events of GNS, the kicks and the recordings do to the
\* three tables, for each connection it comes to the stages of Sessions, one after
\* the other.
Implements == Promise!Spec

-----------------------------------------------------------------------------
(* Statements of the repository that the code does not keep *)

\* The disconnection callback is about the sprite of the player that was lost.
LossKillsOwnSprite ==
    [][\A c \in Conn : ProcessLost(c) =>
         \A i \in Slots : active[i] /\ player[i] # c => active'[i]]_vars

=============================================================================
