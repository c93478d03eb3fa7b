-------------------------------- MODULE Survival --------------------------------
(***************************************************************************)
(* Rounds of the survival mode in a capture-the-flag game.                 *)
(*                                                                         *)
(* Who dies stays dead until the round is over: it is over when the living *)
(* are of one team at most, or when a flag is captured, and it ends with   *)
(* everybody respawned.  The code has no action "the round ends": a flag,  *)
(* survivalendround, is set by the death that ends the round and cleared   *)
(* by the respawn that finds nobody else dead, and in between every corpse *)
(* counts down by itself and kills the winners when its time comes.        *)
(*                                                                         *)
(* Code: src/shared/mechanics/Sprites.cpp, src/shared/Game.cpp,            *)
(* src/shared/mechanics/Things.cpp, src/server/ServerLoop.cpp and          *)
(* src/shared/network/NetworkServerConnection.cpp.                         *)
(***************************************************************************)
EXTENDS Integers

CONSTANTS
    MaxSprites,     \* max_sprites
    RespawnTime,    \* survival_respawntime, in frames
    WaveTimes,      \* what waverespawncounter + sv_respawntime_minwave may be
    Choices,        \* the teams that are joined in a slot, a bound
    MaxMoves        \* bound on joins, leaves, team changes and map changes

ASSUME SpritesAssumption == MaxSprites \in Nat \ {0}
ASSUME TimesAssumption ==
    /\ RespawnTime \in Nat /\ RespawnTime > 2
    /\ WaveTimes # {} /\ \A wave \in WaveTimes : wave \in Nat /\ wave > 2
ASSUME ChoicesAssumption == Choices \in [1 .. MaxSprites -> SUBSET {1, 2, 5}]
ASSUME MovesAssumption == MaxMoves \in Nat

Sprites == 1 .. MaxSprites

\* team_alpha, team_bravo, team_spectator
Alpha == 1
Bravo == 2
Spectator == 5
Teams == {Alpha, Bravo}

VARIABLES
    phase,              \* where in a frame the server is
    turn,               \* the sprite updated last
    active,             \* Sprite::active
    team,               \* Sprite::player->team
    deadmeat,           \* Sprite::deadmeat of who plays
    respawncounter,     \* Sprite::respawncounter of the dead, 0 for others, who do not read it
    carries,            \* whether a sprite carries the flag of the other team
    survivalendround,   \* Game::survivalendround
    teamscore,          \* Game::teamscore, the points of this frame only
    moves               \* how many of MaxMoves are used up

people == <<active, team>>
clock == <<phase, turn>>
round == <<deadmeat, respawncounter, carries, survivalendround, teamscore>>
vars == <<clock, people, round, moves>>

Playing(i) == active[i] /\ team[i] # Spectator
Living(i) == Playing(i) /\ ~deadmeat[i]
Waiting(i) == Playing(i) /\ deadmeat[i]

-----------------------------------------------------------------------------
(* Deaths.  A definition whose name ends in Itself, Again, Alive, Late or        *)
(* Forgetful is a slip of the definition that follows it, kept to see which      *)
(* property notices.                                                            *)

\* CalculateTeamAliveNum, called by a dying sprite that is not dead yet: those
\* who are left when it is taken off.
AliveWithItself(i, teams) ==
    {j \in Sprites : active[j] /\ j # i /\ teams[j] # Spectator /\ ~deadmeat[j]} \cup {i}
AliveWithout(i, teams) ==
    {j \in Sprites \ {i} : active[j] /\ teams[j] # Spectator /\ ~deadmeat[j]}

Decided(alive, teams) == \A j, k \in alive : teams[j] = teams[k]

\* The round is won once, by those who are left, if anybody is.
PointsAgain(alive, teams, ended) ==
    [t \in Teams |-> IF \E j \in alive : teams[j] = t THEN teamscore[t] + 1 ELSE teamscore[t]]
Points(alive, teams, ended) ==
    IF ended THEN teamscore
    ELSE [t \in Teams |-> IF \E j \in alive : teams[j] = t THEN teamscore[t] + 1 ELSE teamscore[t]]

\* Sprite::die of i, with the teams as they are now and the round ended or not;
\* the time i waits is less by the frames it has spent already.  A death that
\* decides the round starts the countdown of everybody anew.
Dies(i, teams, ended, spent) ==
    LET left == AliveWithout(i, teams)
    IN  /\ deadmeat' = [deadmeat EXCEPT ![i] = TRUE]
        /\ carries' = [carries EXCEPT ![i] = FALSE]
        /\ \/ /\ Decided(left, teams)
              /\ respawncounter' = [j \in Sprites |->
                    IF j = i THEN RespawnTime - spent
                    ELSE IF Waiting(j) THEN RespawnTime ELSE 0]
              /\ survivalendround' = TRUE
              /\ teamscore' = Points(left, teams, ended)
           \/ /\ ~Decided(left, teams)
              /\ \E wave \in WaveTimes :
                    respawncounter' = [respawncounter EXCEPT ![i] = wave - spent]
              /\ survivalendround' = ended
              /\ UNCHANGED teamscore

\* Whoever lives is killed, one after the other: by the last death nobody lives,
\* and everybody waits the same time.
KillTheLiving ==
    /\ deadmeat' = [j \in Sprites |-> Playing(j)]
    /\ carries' = [j \in Sprites |-> FALSE]
    /\ respawncounter' = [j \in Sprites |-> IF Playing(j) THEN RespawnTime ELSE 0]

\* In combat, by its own hand or by a command
MayDie(i) ==
    \/ phase \in {"bullets", "messages"}
    \/ phase = "sprites" /\ turn + 1 = i

Die(i) ==
    /\ MayDie(i)
    /\ Living(i)
    /\ Dies(i, team, survivalendround, 0)
    /\ IF phase = "sprites" THEN turn' = i ELSE UNCHANGED turn
    /\ UNCHANGED <<phase, people, moves>>

-----------------------------------------------------------------------------
(* Sprite::update of the dead *)

\* When i lives again the round stays over for as long as somebody else is dead.
EndRoundForgetful(i) == FALSE
EndRound(i) == survivalendround /\ \E j \in Sprites \ {i} : Waiting(j)

\* respawn of a sprite that was dead: back to life, or dead again if the round is
\* still played.  A frame of the new waiting time is over at once.
Respawn(i) ==
    \/ /\ survivalendround
       /\ deadmeat' = [deadmeat EXCEPT ![i] = FALSE]
       /\ respawncounter' = [respawncounter EXCEPT ![i] = 0]
       /\ survivalendround' = EndRound(i)
       /\ UNCHANGED <<carries, teamscore>>
    \/ /\ ~survivalendround
       /\ Dies(i, team, survivalendround, 1)

\* Mid-round a frame before its end the wait is prolonged; else it is the time for
\* the winners to die.
Prolonged(i) == respawncounter' = [respawncounter EXCEPT ![i] = 3]
OneLeft(i) ==
    /\ respawncounter' = [respawncounter EXCEPT ![i] = 1]
    /\ UNCHANGED <<deadmeat, carries>>
LastFrameForgetful(i) ==
    /\ Prolonged(i)
    /\ UNCHANGED <<deadmeat, carries, survivalendround, teamscore>>
LastFrame(i) ==
    \/ /\ ~survivalendround
       /\ Prolonged(i)
       /\ UNCHANGED <<deadmeat, carries, survivalendround, teamscore>>
    \/ /\ survivalendround
       /\ \/ (\E j \in Sprites : Living(j)) /\ KillTheLiving
          \/ ~(\E j \in Sprites : Living(j)) /\ OneLeft(i)
       /\ UNCHANGED <<survivalendround, teamscore>>

TimeUpLate(i) == respawncounter[i] < 0
TimeUp(i) == respawncounter[i] < 1

CountDown(i) ==
    /\ respawncounter' = [respawncounter EXCEPT ![i] = @ - 1]
    /\ UNCHANGED <<deadmeat, carries, survivalendround, teamscore>>

Wait(i) ==
    \/ TimeUp(i) /\ Respawn(i)
    \/ ~TimeUp(i) /\ respawncounter[i] = 2 /\ LastFrame(i)
    \/ ~TimeUp(i) /\ respawncounter[i] # 2 /\ CountDown(i)

Turn(i) ==
    /\ phase = "sprites" /\ turn + 1 = i
    /\ turn' = i
    /\ UNCHANGED <<phase, people, moves>>

UpdateDead(i) == Turn(i) /\ Waiting(i) /\ Wait(i)

UpdateLiving(i) == Turn(i) /\ ~Waiting(i) /\ UNCHANGED round

-----------------------------------------------------------------------------
(* The flags, as far as they end a round *)

Grab(i) ==
    /\ phase = "things"
    /\ Living(i) /\ ~carries[i]
    /\ ~survivalendround
    /\ \A j \in Sprites : carries[j] => team[j] # team[i]
    /\ carries' = [carries EXCEPT ![i] = TRUE]
    /\ UNCHANGED <<clock, people, deadmeat, respawncounter, survivalendround, teamscore, moves>>

\* Thrown away
Drop(i) ==
    /\ phase = "things"
    /\ carries[i]
    /\ carries' = [carries EXCEPT ![i] = FALSE]
    /\ UNCHANGED <<clock, people, deadmeat, respawncounter, survivalendround, teamscore, moves>>

\* The point of a capture does not ask whether the round is over.
Capture(i) ==
    /\ phase = "things"
    /\ Living(i) /\ carries[i]
    /\ \A j \in Sprites : carries[j] => j = i
    /\ teamscore' = [teamscore EXCEPT ![team[i]] = @ + 1]
    /\ survivalendround' = TRUE
    /\ KillTheLiving
    /\ UNCHANGED <<clock, people, moves>>

-----------------------------------------------------------------------------
(* Comings and goings *)

Move ==
    /\ phase = "messages"
    /\ moves < MaxMoves
    /\ moves' = moves + 1

\* A sprite made anew lives.  respawn does not kill it, for it was not dead, but it
\* ends the round that is over if nobody else is dead.
StartsAlive(i) ==
    /\ deadmeat' = [deadmeat EXCEPT ![i] = FALSE]
    /\ respawncounter' = [respawncounter EXCEPT ![i] = 0]
    /\ carries' = [carries EXCEPT ![i] = FALSE]
    /\ survivalendround' = EndRound(i)
    /\ UNCHANGED teamscore

\* Players are killed as soon as they are there.
EntersAlive(i, teams) == StartsAlive(i)
Enters(i, teams) == Dies(i, teams, EndRound(i), 0)

Watches(i) ==
    /\ deadmeat' = [deadmeat EXCEPT ![i] = FALSE]
    /\ respawncounter' = [respawncounter EXCEPT ![i] = 0]
    /\ carries' = [carries EXCEPT ![i] = FALSE]
    /\ UNCHANGED <<survivalendround, teamscore>>

Placed(i, t) ==
    /\ team' = [team EXCEPT ![i] = t]
    /\ \/ t = Spectator /\ Watches(i)
       \/ t # Spectator /\ Enters(i, [team EXCEPT ![i] = t])

HandlePlayerInfo(i, t) ==
    /\ Move
    /\ ~active[i]
    /\ active' = [active EXCEPT ![i] = TRUE]
    /\ Placed(i, t)
    /\ UNCHANGED clock

\* Nobody kills a bot that is added.
AddBotPlayer(i, t) ==
    /\ Move
    /\ ~active[i]
    /\ active' = [active EXCEPT ![i] = TRUE]
    /\ team' = [team EXCEPT ![i] = t]
    /\ \/ t = Spectator /\ Watches(i)
       \/ t # Spectator /\ StartsAlive(i)
    /\ UNCHANGED clock

ChangeTeam(i, t) ==
    /\ Move
    /\ active[i]
    /\ Placed(i, t)
    /\ UNCHANGED <<clock, active>>

\* Sprite::kill, for a kick or a lost connection: nobody counts the living anew, but
\* a team that nobody is left in loses its points.
Abandoned(i) == \A j \in Sprites \ {i} : ~(active[j] /\ team[j] = team[i])

Kill(i) ==
    /\ Move
    /\ active[i]
    /\ active' = [active EXCEPT ![i] = FALSE]
    /\ deadmeat' = [deadmeat EXCEPT ![i] = FALSE]
    /\ respawncounter' = [respawncounter EXCEPT ![i] = 0]
    /\ carries' = [carries EXCEPT ![i] = FALSE]
    /\ teamscore' = [t \in Teams |-> IF t = team[i] /\ Abandoned(i) THEN 0 ELSE teamscore[t]]
    /\ UNCHANGED <<clock, team, survivalendround>>

\* changemap respawns everybody, one after the other.  If the round is over it ends
\* with the last of them; if not, the dead die again, and the first whose death is
\* found to leave one team at most ends the round for those that follow.
FirstWaiting(i) == Waiting(i) /\ \A j \in Sprites : Waiting(j) => i <= j
AloneAlready == Decided({j \in Sprites : Living(j)}, team)

RespawnEverybody ==
    \/ /\ survivalendround
       /\ deadmeat' = [j \in Sprites |-> FALSE]
       /\ survivalendround' = ~\E j \in Sprites : Playing(j)
    \/ /\ ~survivalendround
       /\ ~AloneAlready \/ ~\E i \in Sprites : Waiting(i)
       /\ UNCHANGED <<deadmeat, survivalendround>>
    \/ /\ ~survivalendround /\ AloneAlready
       /\ \E i \in Sprites :
            /\ FirstWaiting(i)
            /\ deadmeat' = [j \in Sprites |-> j = i]
            /\ survivalendround' = TRUE

ChangeMap ==
    /\ Move
    /\ RespawnEverybody
    /\ carries' = [j \in Sprites |-> FALSE]
    /\ respawncounter' = [j \in Sprites |-> 0]
    /\ teamscore' = [t \in Teams |-> 0]
    /\ UNCHANGED <<clock, people>>

-----------------------------------------------------------------------------
(* Frames: the messages, every sprite in turn, the bullets, the things *)

NextFrame ==
    /\ phase = "messages"
    /\ phase' = "sprites" /\ turn' = 0
    /\ teamscore' = [t \in Teams |-> 0]
    /\ UNCHANGED <<people, deadmeat, respawncounter, carries, survivalendround, moves>>

Then(from, to) ==
    /\ phase = from /\ phase' = to
    /\ UNCHANGED <<turn, people, round, moves>>

NextPhase ==
    \/ turn = MaxSprites /\ Then("sprites", "bullets")
    \/ Then("bullets", "things")
    \/ Then("things", "messages")

Frame ==
    \/ NextFrame \/ NextPhase
    \/ \E i \in Sprites : UpdateDead(i) \/ UpdateLiving(i)

Init ==
    /\ phase = "messages" /\ turn = MaxSprites
    /\ active = [i \in Sprites |-> FALSE]
    /\ team = [i \in Sprites |-> Spectator]
    /\ deadmeat = [i \in Sprites |-> FALSE]
    /\ respawncounter = [i \in Sprites |-> 0]
    /\ carries = [i \in Sprites |-> FALSE]
    /\ survivalendround = FALSE
    /\ teamscore = [t \in Teams |-> 0]
    /\ moves = 0

Next ==
    \/ Frame
    \/ \E i \in Sprites :
        \/ Die(i) \/ Grab(i) \/ Drop(i) \/ Capture(i)
        \/ Kill(i)
        \/ \E t \in Choices[i] : HandlePlayerInfo(i, t) \/ AddBotPlayer(i, t) \/ ChangeTeam(i, t)
    \/ ChangeMap

\* apponidle runs frame after frame; nothing is assumed of the players.
Spec == Init /\ [][Next]_vars /\ WF_vars(Frame)

-----------------------------------------------------------------------------
(* Properties *)

\* Every variable stays in its type.
TypeOK ==
    /\ phase \in {"messages", "sprites", "bullets", "things"}
    /\ turn \in 0 .. MaxSprites
    /\ active \in [Sprites -> BOOLEAN]
    /\ team \in [Sprites -> Teams \cup {Spectator}]
    /\ deadmeat \in [Sprites -> BOOLEAN]
    /\ respawncounter \in [Sprites -> Nat]
    /\ carries \in [Sprites -> BOOLEAN]
    /\ survivalendround \in BOOLEAN
    /\ teamscore \in [Teams -> Nat]
    /\ moves \in 0 .. MaxMoves

Bot(i) == \E t \in Choices[i] : AddBotPlayer(i, t)
EntryAllowed ==
    \A i \in Sprites :
        Living(i)' /\ (~Living(i) \/ team'[i] # team[i])
            => survivalendround \/ survivalendround' \/ Bot(i)

\* Nobody gets into a round that is being played, neither from the dead, nor by
\* joining, nor by changing sides ("prevent players from joining alive midround",
\* changeteam), nor with a new map; except a bot when it is added.
NobodyEntersMidRound == [][EntryAllowed]_vars

\* A round is over for as long as somebody waits for the next.
RoundOver == survivalendround /\ \E i \in Sprites : Waiting(i)

\* One who changes sides while nobody else waits starts the next round and dies in it.
Moves(i) == \E t \in Choices[i] : ChangeTeam(i, t)

StartComplete ==
    survivalendround /\ ~survivalendround' =>
        \A i \in Sprites : Waiting(i) /\ Waiting(i)' => Moves(i)

\* Nobody is forgotten when a round starts: those who waited live, except one who
\* moves.
RoundStartsComplete == [][StartComplete]_vars

ScoreEarned ==
    \A t \in Teams : teamscore'[t] > teamscore[t] /\ ~(\E i \in Sprites : Capture(i)) =>
        /\ survivalendround => \A i \in Sprites : Waiting(i) => Moves(i)
        /\ RoundOver'
        /\ teamscore'[t] = teamscore[t] + 1
        /\ \A i \in Sprites : Living(i)' => team'[i] = t

\* Without a capture a team scores only when a round is decided that was not over
\* before, one point, and only if all who live are of the team.  Except that one who
\* moves, when nobody else waits, may give a second point for a round that was over.
SurvivorsScoreOnce == [][ScoreEarned]_vars

DeathCounted ==
    \A i \in Sprites : Living(i) /\ Waiting(i)' =>
        \/ survivalendround'
        \/ \E j, k \in Sprites : Living(j)' /\ Living(k)' /\ team'[j] # team'[k]

\* A death that leaves one team at most ends the round: nobody waits for a round
\* that has been decided before their eyes.
DeathEndsRound == [][DeathCounted]_vars

\* When a round is over, the next one comes, unless players die again and again
\* meanwhile.  (Sprites behind the one that kills the winners live a frame before the
\* others; whoever dies in that frame makes everybody wait once more.)
DeathsWhileOver == []<><<RoundOver /\ \E i \in Sprites : Die(i)>>_vars
NextRoundComes == DeathsWhileOver \/ (RoundOver ~> ~RoundOver)

=============================================================================
