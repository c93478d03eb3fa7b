# soldat_cpp: a TLA+ model of the game server

soldat_cpp is a C++ port of the game Soldat: a dedicated server, a client and the
code they share. The program's own logic that is discrete, and hard to test, sits
in the server: who is connected and which sprite is whose, votes, the end of a
game and the change of map, the flags of a capture-the-flag game, the rounds of the
survival mode; and between server and client: which sprites a client shows and which
it takes for its own. That is what is modelled here, from the C++ sources
(file names and lines below are those under the repository's `src/`).

## Inventory

The server is one thread. `RunServer` (server/Server.cpp) calls `apponidle`
(server/ServerLoop.cpp) for ever; `apponidle` polls the network once
(`NetworkServer::ProcessLoop`: all queued status changes, then one message) and
runs `updateframe` once for every tick that has passed. GameNetworkingSockets (GNS)
is the only other actor inside the process; clients and admins act through messages.
So the hard behaviours are not data races. They are orders of events: a connection
that ends at an awkward moment, a slot that changes hands while something still
refers to it by number, several writers of one counter.

| component | state | operations | hard behaviour | what makes it correct |
|---|---|---|---|---|
| server sessions (shared/network/NetworkServer.cpp, NetworkServerConnection.cpp) | `mPlayers`, `mConnectionMap`, `gamerequested`, `spritenum` | connection events, RequestGame, PlayerInfo, farewell | events and messages in any order, loss at any point | a sprite in play belongs to a live connection; no message touches somebody else's sprite |
| sprite slots (shared/mechanics/SpriteSystem.cpp, Sprites.cpp) | `active`, `player` | create, kill | slots reused while numbers are remembered | no slot taken over, never more sprites than slots |
| demo recorder (shared/Demo.cpp) | `factive`, the last slot | start, stop | half-failed start | recording leaves players alone |
| voting (shared/Game.cpp, NetworkServerGame.cpp, ServerCommands.cpp) | `Vote*` fields | start, ballot, timer, cooldown | two kinds of vote share the fields; slots change hands | a ballot each, decisions backed, every vote ends |
| map change (ServerLoop.cpp, Game.cpp, Server.cpp) | `mapchangecounter`, `mapchange`, `mapslist`, `timelimitcounter`, points | countdown, pause, limits, rotation | five writers of one counter; missing and broken maps | games that have to end do, the announced map comes, limits are noticed |
| bans and flood control (server/BanSystem.cpp, NetworkUtils.cpp) | ban lists, flood counters | ban, unban, expire, match | lists indexed from 1; flood addresses are never taken off their list | who floods is kicked; no ban takes effect in this port |
| things and flags (shared/mechanics/Things.cpp, Sprites.cpp) | `holdingsprite`, `holdedthing`, `inbase`, `timeout`, `teamscore` | grab, throw, capture, return, respawn, parachute | who holds what is written down twice; holders die, leave or change team; the table is full | a team has one flag, in the right hands; a capture counts once; a lost flag comes back |
| survival rounds, respawn (Sprites.cpp, Game.cpp) | `respawncounter`, `survivalendround`, counts of the living | die, respawn, capture, join, change team | a round ends by a flag set in one frame and cleared frames later, with deaths, joins and kicks in between | nobody enters a round being played, a round is won once, the next one comes |
| bot balance (server/ServerHelper.cpp) | team counts | `dobalancebots` | recursion, array of four | teams end up balanced |
| client connection (shared/network/NetworkClient*.cpp) | `requestinggame`, the active sprites, `mysprite`, local copies of vote and map change | request, list, new player, player gone | a list and the news that overtake or follow it; two clients on one slot number | the client shows who is in the game and controls its own sprite |
| heartbeat (NetworkServerHeartbeat.cpp, NetworkClientHeartbeat.cpp) | entries by index of active sprites | send, receive | unreliable and unordered, names nobody | a heartbeat switches off nobody who is there |
| console variables (shared/Cvar.cpp) | value, default, change flag | set, reset, sync | bounds, order of sync | a client ends with the server's values |
| console, log files, texture packing (common/Console.cpp, LogFile.cpp, client/BinPack.cpp) | ring of lines, file sizes, free rectangles | add, rotate, insert | limits | no overlap, no loss |
| physics, bullets, weapons, bots' AI, graphics, sound, menus, files | floating-point and I/O | | | not modelled: out of TLC's reach |

`PROJECT.json` lists the components with their status and, under `hazards`, what is hard
to test, each at its line.

## Modules

| module | models | checked by | proofs |
|---|---|---|---|
| `ServerSessions` | connections, players, slots, demo recorder | `MCServerSessions` | `ServerSessions_proofs` |
| `Sessions` | what the server promises a connection: an abstract specification | `Implements` in `sessions_core` and `roster_views` | `SessionsFacts`; `Sessions_proofs` (that `ServerSessions` implements it), `Roster_proofs` (that `Roster` does) |
| `Roster` | who the clients think is in the game: join protocol, lists, news, heartbeats | `MCRoster` | `Roster_proofs` |
| `Voting` | map votes and kick votes | `MCVoting` | `Voting_proofs` |
| `Poll` | what a vote promises to those who vote: an abstract specification | `Implements` in `voting_core` | `Voting_proofs` (that `Voting` implements it) |
| `MapChange` | countdown, limits, pause, rotation of maps | `MCMapChange` | `MapChange_proofs` |
| `Flags` | flags, parachutes and their carriers in a CTF game | `MCFlags` | `Flags_proofs` |
| `Survival` | rounds of the survival mode in a CTF game | `MCSurvival` | `Survival_proofs` |

The modules are separate so that each can be checked alone; where they touch, one
module's choice is left open in the other: whether a farewell is a ban (`Voting` decides,
`ServerSessions` allows both), which map a vote announces (`MapChange` takes any listed map),
when a slot loses its player (`ServerSessions` decides, the others allow it at any time),
when somebody dies or is near a flag (physics; every module that needs it allows it at any
time). `Roster` composes the two ends of a connection: the server's half of the join protocol,
in less detail than `ServerSessions` has it, the queues between, and the client's half.

Definitions carry the names of the C++ functions and fields they translate. An operator
whose name ends in a word such as `Unchecked`, `Forgetful` or `Late` (the module's first
section lists them) is a deliberate slip of the definition that follows it; `PROJECT.json` pairs it with the property that
notices (its `mutants`).

### ServerSessions

A connection moves through `gns`; GNS appends status changes to `posted`,
`RunCallbacks` takes them over into `queued` (`mQueuedCallbacks`), and `ProcessEvents`
handles them one at a time, each handler whole. Only when all are handled is one
message polled. `phase` says where the loop is: `events`, `ticks` (everything that
happens between two polls: kicks, timeouts, bots, demo commands, shutdown) or why the
process ended: an assertion, a null player, no sprite left.

Abstractions. Which message a client sends is chosen when the server polls it. A ban, a
wrong password and a wrong version are one nondeterministic `turnedDown`. All reasons to
kick are `KickPlayer` between two polls and `HandleOffence` inside a handler. A change
of team builds the sprite anew in its slot with the same player and changes nothing
here. The bot balance is off (`sv_botbalance` is false by default). The kick vote
that makes a farewell a ban is a nondeterministic choice here and modelled in `Voting`.
`AcceptConnection` fails when the peer is gone. What GNS has already posted stays
posted when the server closes the connection.

### Sessions, and how ServerSessions and Roster implement it

`Sessions` says what the server promises and nothing of how: everybody passes through the
stages away, guest, admitted, player, benched and gone, in their order and once; a seat
(slot) is given to one who was admitted while nobody sits in it, and the seats of the public are
counted; who is sent off stays off. The mapping (`stages`, `seats` at the end of
`ServerSessions`) reads a connection's stage off `gns`, `mConnectionMap`, `gamerequested`,
`spritenum` and the slot. The promise one would like to make of a farewell, that it clears the
seat of the one who parts, is not kept by the disconnection callback, and `Sessions` says what is: `Part`
clears the seat whoever sits in it by then (run `sessions_stranger` shows that case).
`Implements` is `Promise!Spec` with these two substitutions.

`Roster` has the same server in less detail and the clients beside it, and implements the same
`Sessions` with a mapping of its own (`session` instead of GNS's states, no seats kept from the public). So the two
modules, written from the same handlers for different questions, are held to one promise. What the promise
amounts to is said in `Sessions` itself: `SeatsSound` (whoever plays has a seat of their own) and `NoWayBack`
(nobody comes back from the bench or from outside, and nobody changes seats).

### Roster

`toClient` holds the reliable messages on their way to a client, one queue in order for each, as GNS
delivers them. `heartbeats` is an unordered set of heartbeats under way, for they are sent
unreliable (Net.hpp 268): they overtake, come late or never. A heartbeat has one entry for
each active sprite, the recorder's too, and names nobody, so all it carries here is how many it
counts: `HandleHeartbeat` keeps the first so many sprites of the client and switches off the others. The
client's state is `requestinggame`, `view` (its active sprites) and `mysprite`.
Two history variables say what a client may be wrong about: `hidden`, the sprites it lacks because
a heartbeat switched them off or the list came while it had no map; `unannounced`, slots
`stoprecord` has emptied without telling anybody.

Abstractions. One connection for each client. A message of a client is chosen when the server polls it,
within what the client could have sent (`mysprite`, `requestinggame`). Refusals (ban, version,
password, seats) are one choice, `Unaccepted`; a refused or ended session loses what is under way to it. A
`RequestGame` the flood control swallows is no step. A second one on the same connection is
ignored by the server, so there is one list to a connection and the client's early return for a list
it has not asked for is never taken. A missing map is the second disjunct of `HandlePlayersList`, a map
that does not load `CannotLoadMap`. Votes, map changes, positions and scores are not modelled.

### Voting

`vote` is the record of the `Vote*` fields. `ProcessLoop` handles one message (a kick
ballot, a map vote, a farewell, a join) and `Frame` is the part of `updateframe` that
concerns votes, in its order: the mass-flag detector, `TickVote`, `timervote`. A slot
also changes hands when its player is kicked, times out or is lost (`SpriteGone`).
`ballots`, `accused` and `waited` are history: who has voted in the running vote, whose
kick it was called on, how long ago a slot's player joined or started a vote. Only the
map a vote prepares is kept of a map change, and a target that cannot be found leaves it
as it was. Not modelled: the ban that goes with a kick and its length (`cheattag`), the
demo recorder, which counts as a voter and never votes, and the client's copy of the
vote.

### Poll, and how Voting implements it

`Poll` knows people, a question and the set of those who have said yes; no slots, marks or counters. One
question is open at a time; a ballot is cast by somebody who has not voted on it; it decides, and at
once, exactly when with it the share `sv_votepercent` of the electorate is reached; nothing but the map asked for is
announced; and a question is closed otherwise only on its last tick or by the farewell of the accused. The
mapping reads `vote.target`, `vote.max`, `vote.time`, `mapchange` and the history `ballots`; that
`VoteNumVotes` and `VoteHasVoted`, which are booked by slot and survive a vote that replaces another, come to a set
of people is what there is to show. Two promises one would like are not made, because the code does not
keep them: a running vote is not left alone (the mass-flag detector calls its own over it), and the
accused may have a ballot (`/votemap` with a slot number). Whose sprite a decided kick removes is not part of
`Poll` (see `voting_accused`).

### MapChange

`game` is a record of the fields of `Game` and `GlobalStateServer` that decide when a
game ends; the code's functions are operators from a record to a record and are composed
in the code's order. `updateframe` is two steps, because points are scored in its first
half (only while the counter is negative) and the counters move in its second half
(only outside a bullet time). `BeginFrame` opens the first half, `Scores` and
`BulletTimeOn` happen in it, `EndFrame` is the second half with `changemap` in it.
`sortplayers` is modelled as the code has it: it calls `nextmap` once for each sprite at
the limit as long as that has not started a countdown, so a list with missing maps is
searched as far as there are sprites at the limit. `age` and `made` are history:
frames since the announcement, points made since the map was loaded. The numbers of the code are constants: `Second` is the
60 of the idle value, `MapChangeTime` the 320 frames of a countdown, `PauseValue` and
`PauseFloor` the 999999999 and 99999999 of the pause.

Abstractions. Points come one or two at a time and only rise; above the limit they are
all alike. `/loadcon` and the commands that edit the map list are left out. A map that
`loadmap` fails on is not half loaded.

### Flags

`things` is the table of `TThingSystem`; of a thing its `active`, `style`, `holdingsprite`, `inbase` and
`timeout` are kept. Who carries what is written down twice, in the thing
(`holdingsprite`) and in the sprite (`holdedthing`), and the second is only copied from the first when the
thing is updated. A frame goes through messages, sprites and things; things are updated
one by one in the order of the table (`turn`), and at its end, every `CheckPeriod`
frames, `updateframe` looks for missing flags (`CheckFlags`). A map change is three steps with nothing
between them (phase `changemap`). The handlers call several functions that change things, so these are
operators from one world (things, handles, score) to the next and are composed in the order of the code.
Where a sprite is, is a choice: near a flag or not, near the other flag or not, within bounds or not.

Abstractions. `teamscore` holds the points of the current frame only. That a team nobody is left in
loses its points is modelled in `Survival`. Of the other things only parachutes are modelled, because they
share the table and the sprite's handle; weapons, kits, bows and the yellow flag share the table only, and
a smaller table stands for them. When the table is full `creatething` returns -1 and the
parachute code writes `things[-1]`; what that does is undefined, and the model opens no parachute then. The guard
of a capture in survival mode is in `Survival`, not here.

### Survival

The code has no action "the round ends". A death that leaves one team at most sets
`survivalendround` and starts everybody's countdown anew; every corpse counts down by itself, and the first to reach its
last frame kills the winners; the respawn that finds nobody else dead clears the flag. The actions are
these: `Die`, `UpdateDead` (the dead part of `Sprite::update` with `Respawn` and `LastFrame`), `Capture`,
and the comings and goings, each with the respawn and the death the code puts in it. A frame goes through
messages, sprites (one after the other), bullets and things.

Abstractions. The counters of the living are never read before a death sets them and are kept 0.
`KillTheLiving` and `RespawnEverybody` are what the code's loops come to: the last death of the first sees nobody
alive; in the second, the first death that leaves one team at most ends the round for those after it. Flags are
reduced to who carries one. The length of a respawn wave is any of `WaveTimes`, all above 2 (the default minimum
`sv_respawntime_minwave` is 120). Only CTF scoring; deathmatch, pointmatch and the other styles score elsewhere.

## Runs

Runs that pass:

| run | instance | shows |
|---|---|---|
| `sessions_core` | 3 connections (one may use a remote admin's seat), 2 slots, 1 seat for humans, bots, recordings | types, `NoOrphanSprite`, `SeatsRespected`, `MessageAuthority`, `NoTakeover`; `Implements` (every step is one of `Sessions`) |
| `sessions_loss` | 2 connections, 2 slots, bots | `SpriteAlwaysFound`; with the fairness of the loop `LossHandled` |
| `voting_core` | 3 persons (one an admin), 2 slots, 60 %, 1 detection | types, `NoResidue`, `OneBallotEach`, `Patience`, `AdminsStay`; `Implements` (every step is one of `Poll`); with fairness `VoteEnds` |
| `mapchange_rounds` | 2 persons, 3 maps (one broken), limit of 2 points, no admin | types, `LimitNoticed`, `GraceKept`; with fairness `TimeLimitEndsMap` |
| `mapchange_teams` | 2 teams, 1 person, 2 commands, one map missing and one broken | `FairEnd`; with fairness `MapChangeEnds` |
| `flags_ctf` | 2 sprites (one changes teams, one may watch), a table of 2 things, 1 move, timeouts of 2 | types, `OneFlagEach`, `NobodyCarriesOwnFlag`, `DeadCarryNothing`, `HandlesStayHonest`, `CaptureCountsOnce`; with fairness `FlagComesBack` |
| `survival_rounds` | 4 sprites, two of whom change sides, 7 moves, waits of 5, 3 or 4 frames | types, `NobodyEntersMidRound`, `RoundStartsComplete`, `SurvivorsScoreOnce`, `DeathEndsRound`; with fairness `NextRoundComes` |
| `roster_views` | 2 clients, 2 slots, bots, recordings, 3 moves | types, `ListsFollow`, `AdoptsOwn`, `FreshHeartbeats`; `Implements` (every step is one of `Sessions`); with fairness `SpriteArrives` |

What the properties say:

- `NoOrphanSprite`: a sprite in play that belongs to a human belongs to a connection the
  server still serves and whose player points back at it. Kick, timeout, farewell and loss may
  come in any order.
- `MessageAuthority`: a message takes from the game no sprite but its sender's. A kicked
  player keeps its old slot number and its connection; only the comparison of the sprite's
  player with the sender stands between its messages and the slot's new owner.
- `NoTakeover`, `SeatsRespected`, `SpriteAlwaysFound`: no slot in use is given to
  somebody else, seats are not oversold though they are checked at two
  different messages, and the search for a slot never ends in `abort`.
- `LossHandled`: every connection reported lost is closed and its player forgotten.
- `OneBallotEach`, `Implements` (of `Poll`): ballots are counted once for each person, and what is
  decided has enough of them, though ballots are booked by slot, slots change hands, and one
  kind of vote replaces the other. A ballot counted twice shows in `Implements` (the second
  ballot decides), a count carried over from the replaced vote in `OneBallotEach`.
- `NoResidue`, `Patience`, `AdminsStay`, `VoteEnds`: nothing of a vote is left for the next, who
  starts a vote has waited, admins stay, votes end.
- `LimitNoticed`: nobody plays on past the point limit. `GraceKept`: no announcement, however
  many overlap, brings a map early. `FairEnd`: a game ended by points or by people coming and
  going has been won in this game. `MapChangeEnds`, `TimeLimitEndsMap`: a countdown ends, a game
  ends.
- `OneFlagEach`: a team never has two flags, though respawn, the check every two seconds and a map change
  each create one; it may have none. `NobodyCarriesOwnFlag`: nobody carries their own team's flag, not with a
  change of teams and not in the slot of a carrier that has gone, though `Sprite::kill` lets go only of what the
  sprite's handle names. `DeadCarryNothing`: a corpse, a dead player still in play, carries no flag.
  `HandlesStayHonest`: once a handle names a flag only if the flag names the sprite, only a flag created in a
  place where it was not can end it; the other direction does not hold, a flag names its carrier an update earlier.
- `CaptureCountsOnce`: two flags lie together for several frames and both look for each other, and
  still one point is counted, for a carrier whose own flag was at home. `FlagComesBack`: a flag that is lost,
  thrown away or covered by a parachute is taken or in its base again in the end, unless again and again
  there is neither the flag nor room for it in the table. A flag that `Sprite::kill` has left with an empty slot
  counts as taken in `FlagComesBack`, and no property says that it leaves that slot: the code does not see to it
  (Sprites.cpp:1496 in the table below).
- `NobodyEntersMidRound`: the dead stay dead, and who joins or changes sides dies, until the round is over; only
  bots enter alive. `RoundStartsComplete`: nobody who waited is left dead when a round starts, except one whose own
  change of teams starts it. `SurvivorsScoreOnce`: a round gives its point once, though several deaths of a frame, a
  farewell and a kick all find the same team left over; the same change of teams (`Moves`), made when nobody else
  waits, can give a second one and is excepted by name (Sprites.cpp:4405 in the table below).
  `DeathEndsRound`: no round goes on without an opponent after a death. `NextRoundComes`: a round that is over
  is followed by the next one, unless people die again and again in the one frame in which some
  have come back and others have not.
- `ListsFollow`: the list and the news that follow it leave no gap: what a client that has been let
  in shows, once what is under way has arrived, is who is in the game. `AdoptsOwn`, `SpriteArrives`: who is in play
  controls, or will control, the sprite the server gave it. `FreshHeartbeats`: a heartbeat that is not
  late switches off only ghosts. `ListsFollow` and `FreshHeartbeats` leave out exactly what the two history
  variables record.
- `Implements` (of `Sessions`): what all messages, events of GNS, kicks and recordings do to the server's tables
  comes, for each connection, to the stages of `Sessions`; in `roster_views` with the clients as actors.

Bounds. Slots are contended when there are more people than slots, and everything wrong
with slots needs one stranger at most: three connections on two slots have every order
of join, loss, reuse and late message between an old owner, a new owner and a third.
Connections are never reused by GNS, so their number bounds the length of a run; no
other counter does. The loss run has two connections because its property is about each
connection by itself. A vote needs a starter, a voter and a newcomer; with two slots and
60 % a vote is decided by its second ballot. A countdown of 4 frames and an idle value of
-3 keep the order of the code's thresholds (-60 < -59 < 0 < 320 < 99999999 < 999999999),
and a time limit of 13 frames lets a point limit, a vote and the clock fall into the same
countdown. `MaxMoves`, `MaxCommands` and `MaxDetections` bound what people do, not what the
server does: `MaxMoves` joins, leaves, changes of team, votes and bullet times, `MaxCommands`
commands of the admin, `MaxDetections` kick votes called by the mass-flag detector. In
`mapchange_teams` the pause is 18 instead of 30, which still outlasts two `/unpause`.

In `flags_ctf` two flags fill the table, so that a parachute opens only over a flag and a flag that comes
back finds no room: the two cases a bigger table would make rare. The timeouts of 2 tell "now" from "not
yet". With three things (one move, no liveness: 1.66 million states) the safety properties hold as well.
`survival_rounds` needs two sprites on each side, for a round goes on only while both sides live; seven
moves let everybody join, one change sides, one be kicked and the map change in between; a wait of 5 has a frame
before, at and after the threshold 2. `roster_views` needs a client that watches and one that comes and
goes; three moves are a kick, a recording and a heartbeat, in every order with the messages under way
(with three slots and two moves, 1.06 million states, everything holds too). `MaxMoves` bounds what people and the
admin do in these modules; frames, deaths, throws, grabs, captures and respawns are not bounded.

Symmetry is used in `sessions_core` only (two of the three connections are alike), where no
liveness is checked. Deadlock is checked everywhere; a server that has ended stutters in an
action of its own.

Fairness. `ServerSessions`: weak fairness of the loop (`RunServer` calls `apponidle` as
long as the server runs). `Voting`: weak fairness of the poll and of going on to the
next one, strong fairness of `Frame`, because a single call of `apponidle` may find no
tick due, and time does pass. `MapChange`: weak fairness of the two halves of a
frame. `Flags` and `Survival`: weak
fairness of the server's own steps (`Frame`). Nothing is assumed of players, admins or GNS in these. `Roster`:
weak fairness of `HandleReliable` for each client, because GNS delivers what is reliable and a client's loop
handles what has arrived; nothing is assumed of heartbeats or of the server.

Runs that end in a violation show where the code does not do what a comment, a message
or a help text of the repository says; each is quoted in `PROJECT.json` (`findings`):

| run | what happens |
|---|---|
| `sessions_stranger` | a kicked player's lost connection kills the sprite of the slot's new owner |
| `voting_accused` | the wrong player is kicked after a slot has changed hands |
| `mapchange_spectator` | points kept by a spectator end the next game |
| `mapchange_list` | the first map change empties the list of maps |

### Other divergences met while modelling

The definitions below model them as the code has them; no run is spent on them.

| code | what it does | where in the modules |
|---|---|---|
| NetworkServer.cpp:122 | a peer that goes before it is connected trips the assertion on `mConnectionMap` | `AssertMap` |
| NetworkServerGame.cpp:148 | a player that says goodbye stays in `mPlayers` until its connection is lost | `HandleLeave` |
| NetworkServerConnection.cpp:720 | `serversendunaccepted` closes the connection and GNS reports nothing more, so the player of a connection turned down stays, though Net.hpp:18 says the player lives as long as its connection | `Unaccepted` |
| Demo.cpp:171, NetworkUtils.cpp:257 | the recorder's sprite is not counted, so with a recording running the last player to join finds no sprite and aborts the server | `PlayersNum`, `HandlePlayerInfo` |
| Demo.cpp:172 | a recording that cannot start kills the player in the last slot | `StartRecord` |
| NetworkServerConnection.cpp:229 | an admin by password is let in by the first check of the seats and turned down by the second | `RequestAccepted`, `SeatLeft` |
| NetworkServerGame.cpp:320 | starting a kick vote is under `if vote active` twice over: players cannot start one | `HandleVoteKick` |
| ServerCommands.cpp:1094 | `/votemap` with a slot number is a ballot in a kick vote, for the accused too | `MapBallot` |
| Game.cpp:377 | the share of votes is taken of the electorate at the start of the vote | `Passes` |
| Game.cpp:305 | a vote that replaces another inherits its marks, so people are refused a ballot they have not cast | `StartVote` |
| ServerLoop.cpp:731 | the clock tries one map only: when it is missing the game goes on without a time limit (`mapchange_rounds` has no missing map for that reason) | `Timers`, `NextMap` |
| ServerCommands.cpp:135 | `/unpause` takes 60 from 999999999 and leaves the game paused | `CommandUnpause` |
| ServerCommands.cpp:143 | `/restart` loads whatever map was announced last | `CommandRestart` |
| NetworkServerGame.cpp:182 | `servermapchange` to all sends to nobody | the clients' copy is not modelled |
| NetworkServerConnection.cpp:431 | to "respawn holded thing if is" the loop respawns `things[spritenum]` instead of `things[i]`: what the slot was holding stays with the newcomer | `SameNumber`, `HandlePlayerInfo` of `Flags` |
| Sprites.cpp:1496 | `Sprite::kill` releases only what the handle names; a flag taken in this frame, or covered by a parachute, stays with the empty slot. `Thing::update` (Things.cpp:866) hands it to that slot again in every frame and starts its timeout anew, so nobody can take it and no timeout brings it back until the slot is used or killed again, the map changes or the flag is out of bounds | `Killed`, `Followed` |
| Sprites.cpp:4324 | with a full table the parachute is written to `things[-1]` | `OpenParachute` opens none |
| Things.cpp:2133, 2173, 2181 | whether a flag was grabbed in its base is looked up in slots 1 and 2, wherever the flags are | only a statistic; left out |
| Things.cpp:937 | a touchdown is not guarded by `survivalendround`, as taking a flag is (2087): in the ended round a carrier still scores | `Capture` of `Survival` |
| Sprites.cpp:4405 | changing teams while the round is over can give the winners a second point | `StartsAlive`, `Dies` (excepted by name in `SurvivorsScoreOnce`) |
| Sprites.cpp:1465 | `Sprite::kill` does not count the living anew: a kick or a lost connection that leaves one team alone ends no round until the next death | `Kill` |
| Sprites.cpp:1382 | when the last dead player leaves, `survivalendround` stays set with everybody alive; the next death then ends no round but starts the countdown that kills all | `Dies`, `LastFrame` |
| Sprites.cpp:4257 | the first player of a server, and the second, end a round by joining and may give the other team a point | `Enters` |
| Game.cpp:523 | a new map in the middle of a round starts with the dead still dead, or with one alive | `RespawnEverybody` |
| Server.cpp:508 | a bot that is added enters a running round alive | `AddBotPlayer` |
| NetworkServerConnection.cpp:805 | a kicked client that stays connected is told to adopt the sprite of whoever is given its old slot: two clients take one sprite for theirs, and the server ignores the wrong one | `NewPlayer` |
| NetworkClientHeartbeat.cpp:46 | a heartbeat that overtakes or is overtaken by a farewell switches off living sprites, until somebody joins in their slot, and books the scores of some to others | `HandleHeartbeat`, `hidden` |
| Demo.cpp:129 | `stoprecord` kills what is in the last slot, a player too, and tells nobody: a ghost stays on every client | `StopRecord`, `StartRecord`, `unannounced` |
| NetworkClientConnection.cpp:444 | a client that lacks the map stays connected without list, team menu or retry | `HandlePlayersList` |
| NetworkServerHeartbeat.cpp:91 | the result of every `SendData` is asserted, also for the recorder, which has no peer | left out |

## Proofs

`tlapm` checks the seven modules named `*_proofs` and `SessionsFacts`: what holds there holds for any
number of connections, clients, people, slots, things, maps and ticks, from the assumptions named in the
component modules (there is a slot and room for two things; sets are finite where they are counted; the
special players are not people; a vote lasts more than one tick, as `default_voting_time` does; a
respawn takes more than two frames).

**ServerSessions.** The inductive invariant is `TypeOK`, `mPlayers = mConnectionMap` and
`NoOrphanSprite`. `NoOrphanSprite` alone is not inductive: a player that joins is found
through one container (`GetPlayer` looks in `mConnectionMap`) and has to be in the other
as well, and a loss removes it from both. Each action has a step; `ProcessLost` is the
interesting one, where the sprite has to go with the player. From it:

| theorem | says |
|---|---|
| `TypeCorrect` | `Spec => []TypeOK` |
| `NoOrphans` | `Spec => []NoOrphanSprite` |
| `OnlyOwnSprite` | `Spec => MessageAuthority` |
| `JoinsOnce` | `Spec => JoinOnce` |
| `SlotsKept` | `Spec => NoTakeover` |
| `SeatsNotOversold` | `Spec => []SeatsRespected` |
| `SpriteFound` | without recordings, `Spec => []SpriteAlwaysFound` |

The last three rest on `SlotStep`, which says who may be found in a slot after a step: whoever was
there, a bot in a free slot, the recorder in the last slot, or one person that has just passed
the second check of the seats. `SeatsNotOversold` then is counting (`SeatedCounted`: the people that need
a seat are among the players that are not bots). With recordings `SpriteFound` is wrong, as the
table of divergences says.

**Voting.** `OneBallotEach` compares a counter with the size of a set of people, while the
code marks slots. It becomes inductive with three facts (`IInv`): nobody sits in two slots
(`OneSlotEach`), whoever has voted and still has a slot is marked in it (`Marked`), and
everybody who has a slot or has voted has joined (`SeatedJoined`, `ballots \subseteq joined`), so
that a newcomer's ballot is new. `NewBallot` is the step where these meet. `Backed` follows from it: a vote ended by
neither time nor farewell (`DecisionBacked`, which `Implements` includes, so that no run checks it) has its ballots.
`VotingImplementsPoll` takes each action to a step of `Poll` (`CountVotePolls`, `StartMapVotePolls`,
`HandleLeavePolls`, `FramePolls`) or to none; it needs `NewBallot` again, that a question is asked exactly while a vote is
active (`OpenIsActive`), and `Timed`: a running vote has a tick left. `TimeRunsOut` is the half of `VoteEnds` that is
safety: nobody but the detector prolongs a vote, and every frame shortens it; that frames are run is what fairness adds.
`Patience` needs a second invariant, `WaitCovers`: the cooldown of a slot and the time its
player has waited add up to at least `default_vote_time`.

| theorem | says |
|---|---|
| `TypeCorrect` | `Spec => []TypeOK` |
| `NothingLeft` | `Spec => []NoResidue` |
| `PeopleCounted` | `Spec => []OneBallotEach` |
| `Backed` | `Spec => DecisionBacked` |
| `VotingImplementsPoll` | `Spec => Implements` |
| `TimeRunsOut` | `Spec => NeverProlonged` |
| `Waited` | `Spec => Patience` |
| `AdminsKept` | `Spec => AdminsStay` |

**MapChange.** The operations are functions of a game record, so each has a lemma about its
result (`PrepareAnnounces`, `NextMapsAnnounces`, `ChangeMapResult`, `TimersStep`): its type, what it leaves
alone, and that it leaves the counter and the age of the announcement as they were or sets both.
`GraceKept` is inductive with `GraceOf`: while a change is counted down, the frames left and the
frames since the announcement add up to at least `mapchangetime`. `LimitNoticed` is with `LimitOf`: between
two steps the counter never rests strictly between -60 and 0, and whoever plays at the limit plays
in a countdown. Both need the admin to keep out of it (`MaxCommands = 0`: `/unpause` takes 60 from the
counter whatever it counts); the second needs maps to exist, because `nextmap` announces nothing when the
file is missing. `FairEnd` needs neither, but a game of teams: then `changemap` takes every point away, so that
`OwnPoints` (all points a team has were made in this game) is inductive, which for single players it is not
(`mapchange_spectator`).

| theorem | says |
|---|---|
| `TypeCorrect` | `Spec => []TypeOK` |
| `Graceful` | without the admin, `Spec => GraceKept` |
| `Noticed` | without the admin and when no map is missing, `Spec => []LimitNoticed` |
| `TeamsWin` | in a game of teams, `Spec => FairEnd` |

**Sessions.** `ServerImplementsSessions`: `Spec => Implements`. The initial states correspond, and every
step is one of `Sessions` or leaves stages and seats alone (`EveryStep`). Beside `IInv` of
`ServerSessions` it needs `Strangers`: a connection without an entry in `mConnectionMap` has neither asked nor
joined. Most steps touch one slot only (`SlotCleared` says what that does to stages); `Joining` is where the
counted players have to cover the abstract public seats (`PublicSeatsCounted`).

`SessionsFacts` proves what follows from `Sessions` alone, and the two modules that implement it get these
theorems by instantiation (`Facts`): `NoConnectionComesBack` and, in `Roster_proofs`, `NobodyComesBack`.

| theorem | module | says |
|---|---|---|
| `ServerImplementsSessions` | `Sessions_proofs` | `Spec => Implements` |
| `SeatsAreSound` | `SessionsFacts` | `Spec => []SeatsSound` |
| `ThereIsNoWayBack` | `SessionsFacts` | `Spec => NoWayBack` |
| `NoConnectionComesBack` | `Sessions_proofs` | `Spec => Promise!NoWayBack` |

**Flags.** The operations are functions of a world, so each has a lemma: what it keeps (`Quiet`: the world stays
sound, no thing gets a new holder, nobody scores) or what it does to the one flag concerned
(`FlagTouched`, `FlagCaptured`, `FlagTimedOut`). The inductive invariant is `RestOK` (types of all that is no
world), `Sound(World)` (types, one flag to a style, only active flags are in base) and `Licit(World)` (no
flag, active or not, names a corpse as its holder, no active one a member of its own team). The three
belong together: that a flag respawned by one thing's update is not another thing's too (`FlagLocated`) needs
`Sound`, that the captured flag is the other team's needs `Licit`. What a death, a farewell or a change of team does is a
statement about the flags of one sprite (`WithoutFlag`).

`HandlesStayHonest` is about a whole step, and a step is several calls between which handles do lie: `respawn`
kills and creates, a parachute opens over a flag, a table slot is used again. `Excused` says when a lie is
allowed on the way: only about a flag that was not there, in that slot, when the step began. Each operation
keeps it (`ExcusedKillThing`, `ExcusedCreateThing`, `ExcusedReleaseAll`, ...), and at the end of the step it is the property (`ExcusedLast`).

| theorem | says |
|---|---|
| `TypeCorrect` | `Spec => []TypeOK` |
| `OneFlagPerTeam` | `Spec => []OneFlagEach` |
| `OwnFlagNeverCarried` | `Spec => []NobodyCarriesOwnFlag` |
| `CorpsesCarryNothing` | `Spec => []DeadCarryNothing` |
| `CapturesCountOnce` | `Spec => CaptureCountsOnce` |
| `HandlesKeptHonest` | `Spec => HandlesStayHonest` |

**Survival.** The four action properties need no more than `TypeOK`: `StepGood` shows them for each
action, from what a death does (`DiesEffect`) and what a step without one does (`Quiet`, `Still`).

| theorem | says |
|---|---|
| `TypeCorrect` | `Spec => []TypeOK` |
| `NobodyEnters` | `Spec => NobodyEntersMidRound` |
| `StartsComplete` | `Spec => RoundStartsComplete` |
| `ScoresOnce` | `Spec => SurvivorsScoreOnce` |
| `DeathsEndRounds` | `Spec => DeathEndsRound` |

**Roster.** `ListsFollow` and `AdoptsOwn` speak of what is still in the queues, so the lemmas are about queues:
what a client will show, and which sprite it will adopt last, after a message is appended (`ShowAppend`,
`AdoptedAppend`) or the first one is handled (`ShowTail`, `AdoptedTail`). The invariant is `RosterInv`: types, the two
properties, and `Basics` (`Idle`: who has no connection has nothing; `Unseated` and `OwnersOpen`: who owns a
sprite has an open connection and was let in; `AwayAsksNot`; `LastOnly`: the recorder sits in the last slot).
`RosterImplementsSessions` needs `Basics` only: what clients believe decides nothing about stages and seats.

| theorem | says |
|---|---|
| `TypeCorrect` | `Spec => []TypeOK` |
| `ListsAreRight` | `Spec => []ListsFollow` |
| `EveryoneAdoptsTheirOwn` | `Spec => []AdoptsOwn` |
| `HeartbeatsTakeGhostsOnly` | `Spec => FreshHeartbeats` |
| `RosterImplementsSessions` | `Spec => Implements` |
| `NobodyComesBack` | `Spec => Promise!NoWayBack` |

Only model-checked: the liveness properties (`LossHandled`, `VoteEnds`, `MapChangeEnds`,
`TimeLimitEndsMap`, `FlagComesBack`, `NextRoundComes`, `SpriteArrives`), which are out of reach of the prover, as
everything that rests on fairness is. Every other property of a passing run is stated by a theorem; `FairEnd` under
the assumption that the game is one of teams, which the run that checks it shares and without which it is false.

## Not modelled

Of the 248,000 lines the implementation counts, 171,000 are a font table
(common/DefaultFont.cpp); most of the rest is floating-point geometry (physics, bullets, weapons, the bots'
behaviour) and I/O (graphics, sound, menus, map and archive files). None of that has discrete state to check, so
the lines mapped are a small share of all lines and a large one of the code that decides.

The remote console (server/Rcon.cpp) and many admin commands end in `NotImplemented`. Bans are not modelled
because none takes effect: `matchesmask` (server/BanSystem.cpp:17) is not implemented and never matches. The flood
list does work: `ActivateServer` marks its entries free, requests and joins fill it and count by address. Its counts
are not modelled, only what comes of them: a request that is swallowed is no step, and whether a join is kicked for
flooding is a choice in `Join` of `ServerSessions` and of `Roster`. The bot balance is a pure count with an
out-of-bounds write. Console variables, consoles and log files are parsing, formatting and output;
texture packing is an algorithm of the renderer.

Inside the modelled components: the contents of messages other than what decides about slots, votes, maps, flags
and rounds; ping, flood and voting statistics that only lead to a kick; `/loadcon` and the commands that edit the
map list; the file a demo is written to; the clients' copies of votes, map changes and settings; kits, thrown
weapons, bows and the yellow flag; game styles other than capture the flag in `Flags` and `Survival`.

## Plan

What is left, in this order:

1. The clients' copies of votes and map changes, and the settings a joining client is sent, in `Roster`'s
   queues: they agree with the server's once what is under way has arrived.
2. The other styles in `Flags` (infiltration, hold the flag with its yellow flag) and
   `Survival` (deathmatch, teammatch, realistic mode), and kits and weapons in the table of things.
3. The safety half of the other liveness properties as theorems, as `TimeRunsOut` is for `VoteEnds`: for each, a measure that no step but the named
   exceptions raises and that the steps assumed fair lower.
4. `dobalancebots`, the ring of console lines and `BinPack`, as algorithms against a reference definition.
