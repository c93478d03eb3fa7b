------------------------------- MODULE MapChange -------------------------------
(***************************************************************************)
(* How a game ends and the next map comes.                                 *)
(*                                                                         *)
(* One counter, mapchangecounter, says whether a game is on (below zero),  *)
(* a map change is counted down (0 .. mapchangetime) or the game is paused *)
(* (999999999).  The time limit, the point limit, votes and the admin all  *)
(* set it; every frame takes one from it; the map comes when it passes     *)
(* zero.  The module is about how those writers meet: which of them ends a *)
(* game, and whether a game that has to end does.                          *)
(*                                                                         *)
(* Not here: /loadcon, which restarts the server under another             *)
(* configuration, and the commands that edit the list of maps.             *)
(*                                                                         *)
(* Code: src/server/ServerLoop.cpp, Server.cpp, ServerCommands.cpp,        *)
(* src/shared/Game.cpp, src/shared/network/NetworkServerGame.cpp.          *)
(***************************************************************************)
EXTENDS Integers, Sequences, FiniteSets

CONSTANTS
    Person,         \* who may play
    Teams,          \* the teams that score where TeamGame
    TeamGame,       \* isteamgame()
    BootList,       \* the map list read when the server starts
    ReloadList,     \* the one changemap reads, from another directory
    Missing,        \* maps getmapinfo does not find
    Broken,         \* maps it finds and loadmap cannot load
    NoMap,          \* the tmapinfo nothing has been assigned to
    KillLimit,      \* sv_killlimit
    TimeLimit,      \* sv_timelimit
    MapChangeTime,  \* mapchangetime
    Second,         \* the 60 of the idle value -60 and of its comparisons
    PauseValue,     \* 999999999
    PauseFloor,     \* 99999999
    BulletTime,     \* frames a bullet time lasts; 0: sv_bullettime is off
    MaxMoves,       \* bound: joins, leaves, changes of team, votes, bullet times
    MaxCommands     \* bound: commands of the admin

ListMaps == {BootList[i] : i \in 1 .. Len(BootList)}
                \cup {ReloadList[i] : i \in 1 .. Len(ReloadList)}
Scorers == IF TeamGame THEN Teams ELSE Person

ASSUME KindAssumption == TeamGame \in BOOLEAN
ASSUME SetsAssumption == IsFiniteSet(Person) /\ IsFiniteSet(Teams)
ASSUME LimitAssumption == KillLimit \in Nat \ {0} /\ TimeLimit \in Nat
ASSUME TimeAssumption ==
    /\ MapChangeTime \in Nat \ {0} /\ Second \in Nat \ {0, 1, 2}
    /\ PauseFloor \in Nat /\ PauseValue \in Nat
    /\ MapChangeTime < PauseFloor /\ PauseFloor < PauseValue
    /\ BulletTime \in Nat
ASSUME BoundAssumption == MaxMoves \in Nat /\ MaxCommands \in Nat
\* startserver aborts when it cannot load the first map.
ASSUME ListAssumption ==
    /\ BootList \in Seq(ListMaps) /\ ReloadList \in Seq(ListMaps)
    /\ BootList # <<>> /\ BootList[1] \notin Broken \cup Missing
    /\ NoMap \notin ListMaps

VARIABLES
    phase,      \* between two frames, or inside one, where sprites are updated
    game,       \* the fields of Game and of GlobalStateServer named below
    role,       \* who plays, who watches and who is not there
    moves,      \* bound
    commands    \* bound

vars == <<phase, game, role, moves, commands>>

Roles == {"out", "playing", "spectating"}
Present(ro) == {p \in Person : ro[p] # "out"}

-----------------------------------------------------------------------------
(* The operations, as functions of the game.  A definition whose name ends in  *)
(* Gently, Late, Twice, Positive, Forgetful or Never is a slip of the one      *)
(* after it, kept to see which property notices.                               *)

PrepareMapChangeGently(r, m) ==
    IF m \in Missing THEN r
    ELSE [r EXCEPT !.mapchange = m, !.age = 0,
                   !.counter = IF @ < 0 THEN MapChangeTime ELSE @]

\* preparemapchange.  age is history: frames since the map was announced.
PrepareMapChange(r, m) ==
    IF m \in Missing THEN r
    ELSE [r EXCEPT !.mapchange = m, !.age = 0,
                   !.counter = MapChangeTime]

\* Where mapindex is after n advances; a list that has become shorter is begun
\* again.
Ahead(r, n) ==
    IF r.mapindex >= Len(r.mapslist) THEN (n - 1) % Len(r.mapslist)
    ELSE (r.mapindex + n) % Len(r.mapslist)
MapAhead(r, n) == r.mapslist[Ahead(r, n) + 1]

\* nextmap called again and again, at most n times, until it finds a map.
NextMaps(r, n) ==
    LET found == {k \in 1 .. n : MapAhead(r, k) \notin Missing}
        tries == IF found = {} THEN n ELSE CHOOSE k \in found : \A j \in found : k <= j
    IN IF r.mapslist = <<>> \/ n = 0 THEN r
       ELSE PrepareMapChange([r EXCEPT !.mapindex = Ahead(r, tries)], MapAhead(r, tries))

NextMap(r) == NextMaps(r, 1)

\* How often sortplayers finds the limit reached: once for all the teams, once
\* for each sprite, a spectator's too.
OverLimitLate(r, ro) ==
    IF TeamGame THEN IF \E t \in Teams : r.score[t] > KillLimit THEN 1 ELSE 0
    ELSE Cardinality({p \in Present(ro) : r.score[p] > KillLimit})
OverLimit(r, ro) ==
    IF TeamGame THEN IF \E t \in Teams : r.score[t] >= KillLimit THEN 1 ELSE 0
    ELSE Cardinality({p \in Present(ro) : r.score[p] >= KillLimit})

\* sortplayers, as far as it is about limits.
SortPlayers(r, ro) == IF r.counter < 1 THEN NextMaps(r, OverLimit(r, ro)) ELSE r

FreshScoresForgetful(r, ro) == r.score
FreshScores(r, ro) ==
    [s \in Scorers |-> IF TeamGame \/ ro[s] = "playing" THEN 0 ELSE r.score[s]]

\* changemap
ChangeMap(q, ro) ==
    LET r == [q EXCEPT !.mapslist = ReloadList]
        loaded == [r EXCEPT !.map = r.mapchange,
                            !.score = FreshScores(r, ro),
                            !.made = [s \in Scorers |-> 0]]
    IN IF r.mapchange \in Missing \cup Broken \cup {NoMap}
       THEN NextMap(r)
       ELSE [SortPlayers(loaded, ro) EXCEPT
                !.counter = -Second, !.timelimit = TimeLimit]

CountsPositive(r) == r.counter > 0 /\ r.counter < PauseFloor
Counts(r) == r.counter > -Second /\ r.counter < PauseFloor
CountDown(r) == IF Counts(r) THEN [r EXCEPT !.counter = @ - 1] ELSE r

MapIsDue(r) == r.counter < 0 /\ r.counter > -(Second - 1)

TickTimeLimitTwice(r) ==
    IF r.counter < PauseFloor /\ r.timelimit > 0 THEN [r EXCEPT !.timelimit = @ - 2] ELSE r
TickTimeLimit(r) ==
    IF r.counter < PauseFloor /\ r.timelimit > 0 THEN [r EXCEPT !.timelimit = @ - 1] ELSE r

TimeIsUpNever(r) == r.timelimit = 1 /\ r.counter < -Second
TimeIsUp(r) == r.timelimit = 1

\* The part of updateframe that a bullet time leaves out; on a server nobody is
\* on, every tenth second takes from the pause.
Timers(q, ro, tenth) ==
    LET aged == [q EXCEPT !.age = IF @ > MapChangeTime THEN @ ELSE @ + 1]
        counted == CountDown(aged)
        changed == IF MapIsDue(counted) THEN ChangeMap(counted, ro) ELSE counted
        eased == IF tenth /\ Present(ro) = {} /\ changed.counter > PauseFloor
                 THEN [changed EXCEPT !.counter = @ - Second] ELSE changed
        timed == TickTimeLimit(eased)
    IN IF TimeIsUp(timed) THEN NextMap(timed) ELSE timed

-----------------------------------------------------------------------------
(* A frame *)

\* The first half of updateframe updates sprites, bullets and things only while
\* a game is on.
BeginFrame ==
    /\ phase = "between"
    /\ game.counter < 0
    /\ phase' = "frame"
    /\ UNCHANGED <<game, role, moves, commands>>

Capped(n) == IF n > KillLimit THEN KillLimit + 1 ELSE n

\* A kill or a capture, worth n points; the points of a team may also come at
\* the end of the frame.
Scores(s, n) ==
    /\ \/ phase = "frame"
       \/ TeamGame /\ game.counter < 0
    /\ ~TeamGame => role[s] = "playing"
    /\ game' = SortPlayers([game EXCEPT !.score[s] = Capped(@ + n),
                                        !.made[s] = Capped(@ + n)], role)
    /\ UNCHANGED <<phase, role, moves, commands>>

Moves == moves < MaxMoves /\ moves' = moves + 1 /\ UNCHANGED commands

BulletTimeOn ==
    /\ phase = "frame"
    /\ BulletTime > 0
    /\ Moves
    /\ game' = [game EXCEPT !.bullettime = BulletTime]
    /\ UNCHANGED <<phase, role>>

\* The second half: in a bullet time nothing but the bullet time itself ticks.
EndFrame ==
    /\ phase = "frame" \/ (phase = "between" /\ game.counter >= 0)
    /\ phase' = "between"
    /\ \/ /\ game.bullettime > 0
          /\ game' = [game EXCEPT !.bullettime = @ - 1]
       \/ /\ game.bullettime = 0
          /\ \E tenth \in BOOLEAN : game' = Timers(game, role, tenth)
    /\ UNCHANGED <<role, moves, commands>>

-----------------------------------------------------------------------------
(* Messages, between two frames *)

Join(p, ro) ==
    /\ phase = "between"
    /\ role[p] = "out"
    /\ Moves
    /\ role' = [role EXCEPT ![p] = ro]
    /\ LET fresh == IF TeamGame THEN game
                    ELSE [game EXCEPT !.score[p] = 0, !.made[p] = 0]
       IN game' = SortPlayers(fresh, role')
    /\ UNCHANGED phase

Leave(p) ==
    /\ phase = "between"
    /\ role[p] # "out"
    /\ Moves
    /\ role' = [role EXCEPT ![p] = "out"]
    /\ game' = SortPlayers(game, role')
    /\ UNCHANGED phase

\* changeteam between the spectators and the rest; createsprite sorts the players
\* and changeteam sorts them again.
ChangeTeam(p) ==
    /\ phase = "between"
    /\ role[p] # "out"
    /\ Moves
    /\ role' = [role EXCEPT ![p] = IF @ = "playing" THEN "spectating" ELSE "playing"]
    /\ game' = SortPlayers(SortPlayers(game, role'), role')
    /\ UNCHANGED phase

\* countvote
MapVoted(m) ==
    /\ phase = "between"
    /\ Present(role) # {}
    /\ Moves
    /\ m \in {game.mapslist[i] : i \in 1 .. Len(game.mapslist)}
    /\ game' = PrepareMapChange(game, m)
    /\ UNCHANGED <<phase, role>>

-----------------------------------------------------------------------------
(* The admin *)

Command ==
    /\ phase = "between"
    /\ commands < MaxCommands
    /\ commands' = commands + 1
    /\ UNCHANGED <<phase, role, moves>>

CommandNextMap == Command /\ game' = NextMap(game)
CommandMap(m) == Command /\ game' = PrepareMapChange(game, m)
CommandPause == Command /\ game' = [game EXCEPT !.counter = PauseValue]
CommandUnpause == Command /\ game' = [game EXCEPT !.counter = @ - Second]

\* The map that will be loaded is mapchange, and restart does not set it.
CommandRestart ==
    Command /\ game' = [game EXCEPT !.counter = MapChangeTime, !.age = 0]

-----------------------------------------------------------------------------
\* ActivateServer and startserver
Init ==
    /\ phase = "between"
    /\ game = [counter |-> -(2 * Second), mapchange |-> NoMap, map |-> BootList[1],
               mapindex |-> 0, mapslist |-> BootList, timelimit |-> TimeLimit,
               bullettime |-> 0, score |-> [s \in Scorers |-> 0],
               made |-> [s \in Scorers |-> 0], age |-> 0]
    /\ role = [p \in Person |-> "out"]
    /\ moves = 0
    /\ commands = 0

Frame == BeginFrame \/ EndFrame

Next ==
    \/ Frame
    \/ \E s \in Scorers, n \in 1 .. 2 : Scores(s, n)
    \/ BulletTimeOn
    \/ \E p \in Person : Leave(p) \/ ChangeTeam(p) \/ \E ro \in {"playing", "spectating"} : Join(p, ro)
    \/ \E m \in ListMaps : MapVoted(m) \/ CommandMap(m)
    \/ CommandNextMap \/ CommandPause \/ CommandUnpause \/ CommandRestart

\* apponidle runs a frame for every tick that has passed.
Spec == Init /\ [][Next]_vars /\ WF_vars(BeginFrame) /\ WF_vars(EndFrame)

-----------------------------------------------------------------------------
(* Properties *)

GameType ==
    [counter : Int, mapchange : ListMaps \cup {NoMap}, map : ListMaps, mapindex : Nat,
     mapslist : {BootList, ReloadList}, timelimit : 0 .. TimeLimit,
     bullettime : 0 .. BulletTime, score : [Scorers -> 0 .. KillLimit + 1],
     made : [Scorers -> 0 .. KillLimit + 1], age : 0 .. MapChangeTime + 1]

\* Every variable stays in its type.
TypeOK ==
    /\ phase \in {"between", "frame"}
    /\ game \in GameType
    /\ role \in [Person -> Roles]
    /\ moves \in 0 .. MaxMoves
    /\ commands \in 0 .. MaxCommands

Playing(s) == TeamGame \/ role[s] = "playing"

\* Nobody plays on past the point limit: whatever order kills, joins, farewells
\* and changes of team come in, once the limit is reached a map change is under
\* way (the admin apart, and as long as the list has a map that exists).
LimitNoticed ==
    \A s \in Scorers : Playing(s) /\ game.score[s] >= KillLimit => game.counter >= 0

\* The map never comes sooner than mapchangetime frames after it was announced,
\* though several announcements may overlap (the admin apart).
GraceKept ==
    [][game'.map # game.map => game.age >= MapChangeTime]_vars

\* A game that somebody's move or points bring to an end has been won: the limit
\* was reached in this game, not in one before.
FairEnd ==
    [][game.counter < 0 /\ game'.counter >= 0
        /\ (\/ \E s \in Scorers, n \in 1 .. 2 : Scores(s, n)
            \/ \E p \in Person : Leave(p) \/ ChangeTeam(p) \/ Join(p, "playing") \/ Join(p, "spectating"))
        => \E s \in Scorers : game'.made[s] >= KillLimit]_vars

Changing == game.counter > -Second /\ game.counter < PauseFloor
\* A countdown comes to its end, whoever starts it and whatever maps are broken:
\* a game is on again, or the admin has paused it.
MapChangeEnds == Changing ~> ~Changing

\* A game that is on ends: the time limit sees to it.
TimeLimitEndsMap == game.counter < 0 ~> game.counter >= 0

-----------------------------------------------------------------------------
(* Statements of the repository that the code does not keep *)

\* The list of maps the server was started with stays the list of maps.
MapsListKept == game.mapslist = BootList

=============================================================================
