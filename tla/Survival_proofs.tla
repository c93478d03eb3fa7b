----------------------------- MODULE Survival_proofs -----------------------------
(* Proofs about Survival, for any number of sprites and any waiting times.       *)
EXTENDS Survival, TLAPS

AnyTeam == Teams \cup {Spectator}

LEMMA TeamFacts == Alpha \in Teams /\ Bravo \in Teams /\ Spectator \notin Teams
BY DEF Alpha, Bravo, Teams, Spectator

LEMMA ChoiceFacts == ASSUME NEW i \in Sprites, NEW t \in Choices[i] PROVE t \in AnyTeam
BY ChoicesAssumption DEF Sprites, AnyTeam, Teams, Alpha, Bravo, Spectator

-----------------------------------------------------------------------------
(* What a death does *)

\* A death of i, among those who are in the teams "teams".
DeathOf(i, teams, ended) ==
    /\ deadmeat' = [deadmeat EXCEPT ![i] = TRUE]
    /\ ended => survivalendround'
    /\ \/ survivalendround'
       \/ \E j, k \in AliveWithout(i, teams) : teams[j] # teams[k]
    /\ \A t \in Teams : teamscore'[t] > teamscore[t] =>
        /\ ~ended /\ survivalendround'
        /\ teamscore'[t] = teamscore[t] + 1
        /\ \A j \in AliveWithout(i, teams) : teams[j] = t

DeathTypes ==
    /\ deadmeat' \in [Sprites -> BOOLEAN]
    /\ respawncounter' \in [Sprites -> Nat]
    /\ carries' \in [Sprites -> BOOLEAN]
    /\ survivalendround' \in BOOLEAN
    /\ teamscore' \in [Teams -> Nat]

LEMMA PointsTyped ==
    ASSUME TypeOK, NEW alive, NEW ended, NEW teams
    PROVE  Points(alive, teams, ended) \in [Teams -> Nat]
<1>1. \A t \in Teams : teamscore[t] \in Nat /\ teamscore[t] + 1 \in Nat
  BY DEF TypeOK
<1>2. CASE ended
  BY <1>2 DEF Points, TypeOK
<1>3. CASE ~ended
  BY <1>1, <1>3 DEF Points
<1> QED
  BY <1>2, <1>3

LEMMA DiesTyped ==
    ASSUME TypeOK, NEW i \in Sprites, NEW teams, NEW ended \in BOOLEAN, NEW spent \in {0, 1},
           Dies(i, teams, ended, spent)
    PROVE  DeathTypes
<1> DEFINE left == AliveWithout(i, teams)
<1>1. deadmeat' \in [Sprites -> BOOLEAN] /\ carries' \in [Sprites -> BOOLEAN]
  BY DEF Dies, TypeOK
<1>2. CASE Decided(left, teams) /\ respawncounter' = [j \in Sprites |->
                    IF j = i THEN RespawnTime - spent
                    ELSE IF Waiting(j) THEN RespawnTime ELSE 0]
              /\ survivalendround' = TRUE
              /\ teamscore' = Points(left, teams, ended)
  <2>1. RespawnTime - spent \in Nat /\ RespawnTime \in Nat /\ 0 \in Nat
    BY TimesAssumption
  <2>2. respawncounter' \in [Sprites -> Nat]
    BY <1>2, <2>1
  <2>3. teamscore' \in [Teams -> Nat]
    BY <1>2, PointsTyped
  <2> QED
    BY <1>1, <1>2, <2>2, <2>3 DEF DeathTypes
<1>3. CASE /\ \E wave \in WaveTimes :
                    respawncounter' = [respawncounter EXCEPT ![i] = wave - spent]
           /\ survivalendround' = ended
           /\ UNCHANGED teamscore
  <2>1. PICK wave \in WaveTimes : respawncounter' = [respawncounter EXCEPT ![i] = wave - spent]
    BY <1>3
  <2>2. wave - spent \in Nat
    BY TimesAssumption
  <2>3. respawncounter' \in [Sprites -> Nat]
    BY <2>1, <2>2 DEF TypeOK
  <2> QED
    BY <1>1, <1>3, <2>3 DEF DeathTypes, TypeOK
<1> QED
  BY <1>2, <1>3 DEF Dies

LEMMA DiesEffect ==
    ASSUME TypeOK, NEW i \in Sprites, NEW teams, NEW ended \in BOOLEAN, NEW spent,
           Dies(i, teams, ended, spent)
    PROVE  DeathOf(i, teams, ended)
<1> DEFINE left == AliveWithout(i, teams)
<1>1. deadmeat' = [deadmeat EXCEPT ![i] = TRUE]
  BY DEF Dies
<1>2. CASE /\ Decided(left, teams)
           /\ survivalendround' = TRUE
           /\ teamscore' = Points(left, teams, ended)
  <2>1. ASSUME NEW t \in Teams, teamscore'[t] > teamscore[t]
        PROVE  ~ended /\ teamscore'[t] = teamscore[t] + 1 /\ \A j \in left : teams[j] = t
    <3>1. teamscore[t] \in Nat
      BY DEF TypeOK
    <3>2. ~ended
      BY <1>2, <2>1, <3>1 DEF Points
    <3>3. teamscore'[t] = IF \E j \in left : teams[j] = t THEN teamscore[t] + 1 ELSE teamscore[t]
      BY <1>2, <3>2 DEF Points
    <3>4. teamscore'[t] = teamscore[t] + 1 /\ \E j \in left : teams[j] = t
      BY <2>1, <3>1, <3>3
    <3> QED
      BY <1>2, <3>2, <3>4 DEF Decided
  <2> QED
    BY <1>1, <1>2, <2>1 DEF DeathOf
<1>3. CASE ~Decided(left, teams) /\ survivalendround' = ended /\ UNCHANGED teamscore
  <2>1. \A t \in Teams : ~(teamscore'[t] > teamscore[t])
    BY <1>3 DEF TypeOK
  <2>2. \E j, k \in left : teams[j] # teams[k]
    BY <1>3 DEF Decided
  <2> QED
    BY <1>1, <1>3, <2>1, <2>2 DEF DeathOf
<1> QED
  BY <1>2, <1>3 DEF Dies

LEMMA KillTheLivingTyped ==
    ASSUME KillTheLiving
    PROVE  /\ deadmeat' \in [Sprites -> BOOLEAN]
           /\ respawncounter' \in [Sprites -> Nat]
           /\ carries' \in [Sprites -> BOOLEAN]
           /\ \A j \in Sprites : deadmeat'[j] = Playing(j)
<1>1. RespawnTime \in Nat /\ 0 \in Nat
  BY TimesAssumption
<1>2. \A j \in Sprites : Playing(j) \in BOOLEAN
  BY DEF Playing
<1> QED
  BY <1>1, <1>2 DEF KillTheLiving

LEMMA EndRoundType == ASSUME TypeOK, NEW i PROVE EndRound(i) \in BOOLEAN
BY DEF EndRound, TypeOK

-----------------------------------------------------------------------------
(* Types *)

LEMMA StartsAliveTyped ==
    ASSUME TypeOK, NEW i \in Sprites, StartsAlive(i) PROVE DeathTypes
BY EndRoundType DEF StartsAlive, DeathTypes, TypeOK

LEMMA WatchesTyped ==
    ASSUME TypeOK, NEW i \in Sprites, Watches(i) PROVE DeathTypes
BY DEF Watches, DeathTypes, TypeOK

LEMMA EntersTyped ==
    ASSUME TypeOK, NEW i \in Sprites, NEW teams, Enters(i, teams) PROVE DeathTypes
BY DiesTyped, EndRoundType DEF Enters

LEMMA PlacedTyped ==
    ASSUME TypeOK, NEW i \in Sprites, NEW t \in AnyTeam, Placed(i, t)
    PROVE  team' \in [Sprites -> AnyTeam] /\ DeathTypes
<1>1. team' \in [Sprites -> AnyTeam]
  BY DEF Placed, TypeOK, AnyTeam
<1> QED
  BY <1>1, WatchesTyped, EntersTyped DEF Placed

LEMMA CountedPoint ==
    ASSUME TypeOK, NEW i \in Sprites
    PROVE  [teamscore EXCEPT ![team[i]] = @ + 1] \in [Teams -> Nat]
<1>1. \A t \in Teams : teamscore[t] \in Nat /\ teamscore[t] + 1 \in Nat
  BY DEF TypeOK
<1> QED
  BY <1>1 DEF TypeOK

\* A corpse's turn
LEMMA WaitTyped ==
    ASSUME TypeOK, NEW i \in Sprites, Wait(i) PROVE DeathTypes
<1>1. CASE TimeUp(i) /\ Respawn(i)
  <2>1. CASE survivalendround
    <3> SUFFICES ASSUME deadmeat' = [deadmeat EXCEPT ![i] = FALSE],
                        respawncounter' = [respawncounter EXCEPT ![i] = 0],
                        survivalendround' = EndRound(i),
                        UNCHANGED <<carries, teamscore>>
                 PROVE  DeathTypes
      BY <1>1, <2>1 DEF Respawn
    <3> QED
      BY EndRoundType DEF DeathTypes, TypeOK
  <2>2. CASE ~survivalendround
    BY <1>1, <2>2, DiesTyped DEF Respawn, TypeOK
  <2> QED
    BY <2>1, <2>2
<1>2. CASE LastFrame(i)
  <2>1. CASE ~survivalendround
    BY <1>2, <2>1 DEF LastFrame, Prolonged, DeathTypes, TypeOK
  <2>2. CASE survivalendround /\ KillTheLiving
    BY <1>2, <2>2, KillTheLivingTyped DEF LastFrame, DeathTypes, TypeOK
  <2>3. CASE survivalendround /\ OneLeft(i)
    BY <1>2, <2>3 DEF LastFrame, OneLeft, DeathTypes, TypeOK
  <2> QED
    BY <1>2, <2>1, <2>2, <2>3 DEF LastFrame
<1>3. CASE ~TimeUp(i) /\ CountDown(i)
  <2>1. respawncounter[i] \in Nat /\ respawncounter[i] - 1 \in Nat
    BY <1>3 DEF TimeUp, TypeOK
  <2>2. respawncounter' \in [Sprites -> Nat]
    BY <1>3, <2>1 DEF CountDown, TypeOK
  <2> QED
    BY <1>3, <2>2 DEF CountDown, DeathTypes, TypeOK
<1> QED
  BY <1>1, <1>2, <1>3 DEF Wait

LEMMA RespawnEverybodyTyped ==
    ASSUME TypeOK, RespawnEverybody
    PROVE  deadmeat' \in [Sprites -> BOOLEAN] /\ survivalendround' \in BOOLEAN
BY DEF RespawnEverybody, TypeOK

LEMMA MoveTyped == ASSUME TypeOK, Move PROVE moves' \in 0 .. MaxMoves
BY MovesAssumption DEF Move, TypeOK

\* The turn of a sprite and the phases of the frame
LEMMA ClockTyped ==
    ASSUME TypeOK, NEW i \in Sprites, turn' = i PROVE turn' \in 0 .. MaxSprites
BY SpritesAssumption DEF Sprites

LEMMA TypeFromDeath ==
    ASSUME TypeOK, DeathTypes, UNCHANGED <<phase, people, moves>>, turn' \in 0 .. MaxSprites
    PROVE  TypeOK'
BY DEF TypeOK, DeathTypes, people

LEMMA TypeFromMove ==
    ASSUME TypeOK, DeathTypes, Move, UNCHANGED clock,
           active' \in [Sprites -> BOOLEAN], team' \in [Sprites -> AnyTeam]
    PROVE  TypeOK'
BY MoveTyped DEF TypeOK, DeathTypes, clock, AnyTeam

LEMMA TypeStep == TypeOK /\ [Next]_vars => TypeOK'
<1> SUFFICES ASSUME TypeOK, [Next]_vars PROVE TypeOK'
  OBVIOUS
<1>1. CASE NextFrame
  <2>1. teamscore' \in [Teams -> Nat]
    BY <1>1 DEF NextFrame
  <2>2. turn' \in 0 .. MaxSprites
    BY <1>1, SpritesAssumption DEF NextFrame
  <2> QED
    BY <1>1, <2>1, <2>2 DEF NextFrame, TypeOK, people
<1>2. CASE NextPhase
  BY <1>2 DEF NextPhase, Then, TypeOK, people, round
<1>3. ASSUME NEW i \in Sprites, UpdateDead(i) PROVE TypeOK'
  BY <1>3, WaitTyped, ClockTyped, TypeFromDeath DEF UpdateDead, Turn
<1>4. ASSUME NEW i \in Sprites, UpdateLiving(i) PROVE TypeOK'
  <2>1. turn' \in 0 .. MaxSprites
    BY <1>4, ClockTyped DEF UpdateLiving, Turn
  <2> QED
    BY <1>4, <2>1 DEF UpdateLiving, Turn, TypeOK, people, round
<1>5. ASSUME NEW i \in Sprites, Die(i) PROVE TypeOK'
  <2>1. DeathTypes
    BY <1>5, DiesTyped DEF Die, TypeOK
  <2>2. turn' \in 0 .. MaxSprites
    BY <1>5, ClockTyped DEF Die, TypeOK
  <2> QED
    BY <1>5, <2>1, <2>2, TypeFromDeath DEF Die
<1>6. ASSUME NEW i \in Sprites, Grab(i) \/ Drop(i) PROVE TypeOK'
  BY <1>6 DEF Grab, Drop, TypeOK, clock, people
<1>7. ASSUME NEW i \in Sprites, Capture(i) PROVE TypeOK'
  BY <1>7, CountedPoint, KillTheLivingTyped DEF Capture, TypeOK, clock, people
<1>8. ASSUME NEW i \in Sprites, Kill(i) PROVE TypeOK'
  <2>1. teamscore' \in [Teams -> Nat]
    BY <1>8 DEF Kill, TypeOK
  <2>2. DeathTypes
    BY <1>8, <2>1 DEF Kill, DeathTypes, TypeOK
  <2> QED
    BY <1>8, <2>2, TypeFromMove DEF Kill, TypeOK, AnyTeam
<1>9. ASSUME NEW i \in Sprites, NEW t \in Choices[i],
             HandlePlayerInfo(i, t) \/ ChangeTeam(i, t)
      PROVE  TypeOK'
  <2>1. t \in AnyTeam
    BY ChoiceFacts
  <2>2. team' \in [Sprites -> AnyTeam] /\ DeathTypes
    BY <1>9, <2>1, PlacedTyped DEF HandlePlayerInfo, ChangeTeam
  <2>3. active' \in [Sprites -> BOOLEAN]
    BY <1>9 DEF HandlePlayerInfo, ChangeTeam, TypeOK
  <2> QED
    BY <1>9, <2>2, <2>3, TypeFromMove DEF HandlePlayerInfo, ChangeTeam
<1>10. ASSUME NEW i \in Sprites, NEW t \in Choices[i], AddBotPlayer(i, t) PROVE TypeOK'
  <2>1. t \in AnyTeam
    BY ChoiceFacts
  <2>2. team' \in [Sprites -> AnyTeam] /\ active' \in [Sprites -> BOOLEAN]
    BY <1>10, <2>1 DEF AddBotPlayer, TypeOK, AnyTeam
  <2>3. DeathTypes
    BY <1>10, WatchesTyped, StartsAliveTyped DEF AddBotPlayer
  <2> QED
    BY <1>10, <2>2, <2>3, TypeFromMove DEF AddBotPlayer
<1>11. CASE ChangeMap
  <2>1. DeathTypes
    BY <1>11, RespawnEverybodyTyped DEF ChangeMap, DeathTypes
  <2> QED
    BY <1>11, <2>1, TypeFromMove DEF ChangeMap, TypeOK, AnyTeam, people
<1>12. CASE UNCHANGED vars
  BY <1>12 DEF vars, clock, people, round, TypeOK
<1> QED
  BY <1>1, <1>2, <1>3, <1>4, <1>5, <1>6, <1>7, <1>8, <1>9, <1>10, <1>11, <1>12
  DEF Next, Frame

LEMMA TypeInit == Init => TypeOK
<1> SUFFICES ASSUME Init PROVE TypeOK
  OBVIOUS
<1>1. turn \in 0 .. MaxSprites /\ moves \in 0 .. MaxMoves
  BY SpritesAssumption, MovesAssumption DEF Init
<1>2. /\ active \in [Sprites -> BOOLEAN] /\ team \in [Sprites -> Teams \cup {Spectator}]
      /\ deadmeat \in [Sprites -> BOOLEAN] /\ carries \in [Sprites -> BOOLEAN]
  BY DEF Init
<1>3. respawncounter \in [Sprites -> Nat] /\ teamscore \in [Teams -> Nat]
  BY DEF Init
<1>4. phase = "messages" /\ survivalendround = FALSE
  BY DEF Init
<1> QED
  BY <1>1, <1>2, <1>3, <1>4 DEF TypeOK

\* Every variable of the model of survival rounds keeps its type: in particular no
\* respawncounter of a waiting sprite falls below zero.
THEOREM TypeCorrect == Spec => []TypeOK
BY TypeInit, TypeStep, PTL DEF Spec

-----------------------------------------------------------------------------
(* The rounds *)

\* What a step of Next changes for those who play.
Still == UNCHANGED <<people, deadmeat, survivalendround>>

LEMMA StillFacts ==
    ASSUME Still
    PROVE  \A i \in Sprites : Living(i)' = Living(i) /\ Waiting(i)' = Waiting(i)
BY DEF Still, people, Living, Waiting, Playing

\* Whoever is placed on a team dies; a spectator neither lives nor waits.
LEMMA PlacedEffect ==
    ASSUME TypeOK, NEW i \in Sprites, NEW t \in AnyTeam, Placed(i, t)
    PROVE  /\ team' = [team EXCEPT ![i] = t]
           /\ deadmeat' = [deadmeat EXCEPT ![i] = (t # Spectator)]
           /\ t = Spectator => UNCHANGED <<survivalendround, teamscore>>
           /\ t # Spectator => DeathOf(i, team', EndRound(i))
<1>1. team' = [team EXCEPT ![i] = t]
  BY DEF Placed
<1>2. CASE t = Spectator
  BY <1>1, <1>2 DEF Placed, Watches
<1>3. CASE t # Spectator
  <2>1. Dies(i, team', EndRound(i), 0)
    BY <1>1, <1>3 DEF Placed, Enters
  <2>2. DeathOf(i, team', EndRound(i))
    BY <2>1, DiesEffect, EndRoundType
  <2> QED
    BY <1>1, <1>3, <2>2 DEF DeathOf
<1> QED
  BY <1>2, <1>3

\* The turn of a corpse: nothing happens, it lives again because the round is over,
\* it dies again because it is not, or everybody else dies because it is over.
LEMMA WaitEffect ==
    ASSUME TypeOK, NEW i \in Sprites, Wait(i)
    PROVE  \/ UNCHANGED <<deadmeat, survivalendround, teamscore>>
           \/ /\ survivalendround
              /\ deadmeat' = [deadmeat EXCEPT ![i] = FALSE]
              /\ survivalendround' = EndRound(i)
              /\ UNCHANGED teamscore
           \/ ~survivalendround /\ DeathOf(i, team, FALSE)
           \/ /\ survivalendround /\ survivalendround'
              /\ \A j \in Sprites : deadmeat'[j] = Playing(j)
              /\ UNCHANGED teamscore
<1>1. CASE TimeUp(i) /\ Respawn(i)
  <2>1. ASSUME ~survivalendround, Dies(i, team, survivalendround, 1)
        PROVE  DeathOf(i, team, FALSE)
    <3>1. survivalendround = FALSE
      BY <2>1 DEF TypeOK
    <3> QED
      BY <2>1, <3>1, DiesEffect
  <2> QED
    BY <1>1, <2>1 DEF Respawn
<1>2. CASE LastFrame(i)
  <2>1. CASE ~survivalendround
    BY <1>2, <2>1 DEF LastFrame
  <2>2. CASE survivalendround /\ KillTheLiving
    BY <1>2, <2>2, KillTheLivingTyped DEF LastFrame
  <2>3. CASE survivalendround /\ OneLeft(i)
    BY <1>2, <2>3 DEF LastFrame, OneLeft
  <2> QED
    BY <1>2, <2>1, <2>2, <2>3 DEF LastFrame
<1>3. CASE CountDown(i)
  BY <1>3 DEF CountDown
<1> QED
  BY <1>1, <1>2, <1>3 DEF Wait

\* The steps that change nothing of what a round is.
Quiet ==
    \/ NextFrame \/ NextPhase
    \/ \E i \in Sprites : UpdateLiving(i) \/ Grab(i) \/ Drop(i)
    \/ UNCHANGED vars

LEMMA QuietEffect ==
    ASSUME TypeOK, Quiet
    PROVE  Still /\ \A t \in Teams : ~(teamscore'[t] > teamscore[t])
<1>1. CASE NextFrame
  <2>1. \A t \in Teams : ~(teamscore'[t] > teamscore[t])
    BY <1>1 DEF NextFrame, TypeOK
  <2> QED
    BY <1>1, <2>1 DEF NextFrame, Still, people
<1>2. CASE UNCHANGED teamscore /\ Still
  BY <1>2 DEF TypeOK
<1>3. CASE NextPhase
  BY <1>2, <1>3 DEF NextPhase, Then, Still, people, round
<1>4. CASE \E i \in Sprites : UpdateLiving(i) \/ Grab(i) \/ Drop(i)
  BY <1>2, <1>4 DEF UpdateLiving, Turn, Grab, Drop, Still, people, round
<1>5. CASE UNCHANGED vars
  BY <1>2, <1>5 DEF vars, Still, people, round
<1> QED
  BY <1>1, <1>3, <1>4, <1>5 DEF Quiet

\* The rest of them, one by one.
LEMMA NextCases ==
    ASSUME [Next]_vars
    PROVE  \/ Quiet
           \/ \E i \in Sprites : UpdateDead(i) \/ Die(i) \/ Capture(i) \/ Kill(i)
           \/ \E i \in Sprites : \E t \in Choices[i] :
                HandlePlayerInfo(i, t) \/ AddBotPlayer(i, t) \/ ChangeTeam(i, t)
           \/ ChangeMap
BY DEF Next, Frame, Quiet

\* AliveWithout counts those who live after the death of i.
LEMMA LeftLive ==
    ASSUME TypeOK, NEW i \in Sprites,
           deadmeat' = [deadmeat EXCEPT ![i] = TRUE],
           \A j \in Sprites \ {i} : active'[j] = active[j]
    PROVE  \A j \in Sprites : Living(j)' <=> j \in AliveWithout(i, team')
<1> TAKE j \in Sprites
<1>1. CASE j = i
  BY <1>1 DEF Living, AliveWithout, TypeOK
<1>2. CASE j # i
  BY <1>2 DEF Living, Playing, AliveWithout, TypeOK
<1> QED
  BY <1>1, <1>2

\* One who plays and is dead waits.
LEMMA DeadWaits ==
    ASSUME TypeOK, NEW i \in Sprites, active'[i], team'[i] # Spectator, deadmeat'[i]
    PROVE  Waiting(i)'
BY DEF Waiting, Playing

\* The people are the same but for i.
LEMMA OthersSame ==
    ASSUME TypeOK, NEW i \in Sprites, NEW t, NEW b,
           team' = [team EXCEPT ![i] = t] \/ team' = team,
           active' = [active EXCEPT ![i] = b] \/ active' = active
    PROVE  \A j \in Sprites \ {i} : team'[j] = team[j] /\ active'[j] = active[j]
BY DEF TypeOK

-----------------------------------------------------------------------------
(* Deaths *)

\* A death satisfies everything that is asked of a step.
LEMMA DeathGood ==
    ASSUME TypeOK, TypeOK', NEW i \in Sprites, NEW ended \in BOOLEAN,
           DeathOf(i, team', ended),
           active'[i], team'[i] # Spectator,
           \A j \in Sprites \ {i} : team'[j] = team[j] /\ active'[j] = active[j],
           ended \/ ~survivalendround \/ \A j \in Sprites \ {i} : ~Waiting(j),
           survivalendround => ended \/ ~Waiting(i) \/ Moves(i),
           ended => survivalendround
    PROVE  EntryAllowed /\ StartComplete /\ ScoreEarned /\ DeathCounted
<1>1. \A j \in Sprites : Living(j)' <=> j \in AliveWithout(i, team')
  BY LeftLive DEF DeathOf
<1>2. Waiting(i)'
  BY DeadWaits DEF DeathOf, TypeOK
<1>3. \A j \in Sprites : Living(j)' => Living(j) /\ team'[j] = team[j]
  BY <1>1 DEF Living, Playing, AliveWithout
<1>4. EntryAllowed
  BY <1>3 DEF EntryAllowed
<1>5. StartComplete
  <2> SUFFICES ASSUME survivalendround, ~survivalendround', NEW j \in Sprites, Waiting(j)
               PROVE  Moves(j)
    BY DEF StartComplete
  <2>1. ~ended
    BY DEF DeathOf
  <2> QED
    BY <2>1
<1>6. ScoreEarned
  <2> SUFFICES ASSUME NEW t \in Teams, teamscore'[t] > teamscore[t]
               PROVE  /\ survivalendround => \A j \in Sprites : Waiting(j) => Moves(j)
                      /\ RoundOver'
                      /\ teamscore'[t] = teamscore[t] + 1
                      /\ \A j \in Sprites : Living(j)' => team'[j] = t
    BY DEF ScoreEarned
  <2>1. /\ ~ended /\ survivalendround'
        /\ teamscore'[t] = teamscore[t] + 1
        /\ \A j \in AliveWithout(i, team') : team'[j] = t
    BY DEF DeathOf
  <2>2. RoundOver'
    BY <1>2, <2>1 DEF RoundOver
  <2>3. survivalendround => \A j \in Sprites : Waiting(j) => Moves(j)
    BY <2>1
  <2> QED
    BY <1>1, <2>1, <2>2, <2>3
<1>7. DeathCounted
  <2>1. CASE survivalendround'
    BY <2>1 DEF DeathCounted
  <2>2. CASE \E j, k \in AliveWithout(i, team') : team'[j] # team'[k]
    <3>1. PICK j \in AliveWithout(i, team'), k \in AliveWithout(i, team') : team'[j] # team'[k]
      BY <2>2
    <3>2. j \in Sprites /\ k \in Sprites
      BY DEF AliveWithout
    <3> QED
      BY <1>1, <3>1, <3>2 DEF DeathCounted
  <2> QED
    BY <2>1, <2>2 DEF DeathOf
<1> QED
  BY <1>4, <1>5, <1>6, <1>7

\* So does a step in which nobody dies, enters, or scores.
LEMMA NobodyDiesGood ==
    ASSUME TypeOK,
           \A j \in Sprites : Living(j)' => Living(j) /\ team'[j] = team[j],
           \A j \in Sprites : Living(j) => ~Waiting(j)',
           survivalendround' = survivalendround,
           \A t \in Teams : ~(teamscore'[t] > teamscore[t])
    PROVE  EntryAllowed /\ StartComplete /\ ScoreEarned /\ DeathCounted
BY DEF EntryAllowed, StartComplete, ScoreEarned, DeathCounted

LEMMA LivingNotWaiting == \A j \in Sprites : ~(Living(j) /\ Waiting(j))
BY DEF Living, Waiting

LEMMA StillGood ==
    ASSUME TypeOK, Still, \A t \in Teams : ~(teamscore'[t] > teamscore[t])
    PROVE  EntryAllowed /\ StartComplete /\ ScoreEarned /\ DeathCounted
<1>1. \A j \in Sprites : team'[j] = team[j]
  BY DEF Still, people
<1>2. survivalendround' = survivalendround
  BY DEF Still
<1> QED
  BY <1>1, <1>2, StillFacts, LivingNotWaiting, NobodyDiesGood

\* And a step that leaves the round over and gives no points, unless by a capture.
LEMMA OverGood ==
    ASSUME survivalendround',
           \/ \E i \in Sprites : Capture(i)
           \/ \A t \in Teams : ~(teamscore'[t] > teamscore[t])
    PROVE  EntryAllowed /\ StartComplete /\ ScoreEarned /\ DeathCounted
BY DEF EntryAllowed, StartComplete, ScoreEarned, DeathCounted

\* And a step in which i comes to life, and nobody dies.
LEMMA RevivalGood ==
    ASSUME TypeOK, NEW i \in Sprites,
           deadmeat' = [deadmeat EXCEPT ![i] = FALSE],
           survivalendround' = EndRound(i),
           UNCHANGED teamscore,
           \A j \in Sprites \ {i} : team'[j] = team[j] /\ active'[j] = active[j],
           survivalendround \/ Bot(i)
    PROVE  EntryAllowed /\ StartComplete /\ ScoreEarned /\ DeathCounted
<1>1. \A t \in Teams : ~(teamscore'[t] > teamscore[t])
  BY DEF TypeOK
<1>2. ScoreEarned
  BY <1>1 DEF ScoreEarned
<1>3. ~Waiting(i)'
  BY DEF Waiting, TypeOK
<1>4. \A j \in Sprites \ {i} : Waiting(j)' = Waiting(j) /\ Living(j)' = Living(j)
  BY DEF Waiting, Living, Playing, TypeOK
<1>5. StartComplete
  <2> SUFFICES ASSUME survivalendround, ~survivalendround', NEW j \in Sprites, Waiting(j), Waiting(j)'
               PROVE  FALSE
    BY DEF StartComplete
  <2>1. j # i
    BY <1>3
  <2> QED
    BY <2>1 DEF EndRound
<1>6. EntryAllowed
  BY <1>4 DEF EntryAllowed
<1>7. DeathCounted
  BY <1>3, <1>4, LivingNotWaiting DEF DeathCounted
<1> QED
  BY <1>2, <1>5, <1>6, <1>7

-----------------------------------------------------------------------------
(* The actions *)

LEMMA UpdateDeadGood ==
    ASSUME TypeOK, TypeOK', NEW i \in Sprites, UpdateDead(i)
    PROVE  EntryAllowed /\ StartComplete /\ ScoreEarned /\ DeathCounted
<1>1. UNCHANGED people /\ UNCHANGED <<active, team>>
  BY DEF UpdateDead, Turn, people
<1>2. active[i] /\ team[i] # Spectator /\ Waiting(i)
  BY DEF UpdateDead, Waiting, Playing
<1>3. CASE UNCHANGED <<deadmeat, survivalendround, teamscore>>
  <2>1. \A t \in Teams : ~(teamscore'[t] > teamscore[t])
    BY <1>3 DEF TypeOK
  <2> QED
    BY <1>1, <1>3, <2>1, StillGood DEF Still
<1>4. CASE /\ survivalendround
           /\ deadmeat' = [deadmeat EXCEPT ![i] = FALSE]
           /\ survivalendround' = EndRound(i)
           /\ UNCHANGED teamscore
  BY <1>1, <1>4, RevivalGood
<1>5. CASE ~survivalendround /\ DeathOf(i, team, FALSE)
  <2>1. DeathOf(i, team', FALSE)
    BY <1>1, <1>5
  <2> QED
    BY <1>1, <1>2, <1>5, <2>1, DeathGood
<1>6. CASE survivalendround' /\ UNCHANGED teamscore
  <2>1. \A t \in Teams : ~(teamscore'[t] > teamscore[t])
    BY <1>6 DEF TypeOK
  <2> QED
    BY <1>6, <2>1, OverGood
<1> QED
  BY <1>3, <1>4, <1>5, <1>6, WaitEffect DEF UpdateDead

LEMMA DieGood ==
    ASSUME TypeOK, TypeOK', NEW i \in Sprites, Die(i)
    PROVE  EntryAllowed /\ StartComplete /\ ScoreEarned /\ DeathCounted
<1>1. UNCHANGED <<active, team>>
  BY DEF Die, people
<1>2. active[i] /\ team[i] # Spectator /\ ~Waiting(i)
  BY DEF Die, Living, Waiting, Playing
<1>3. DeathOf(i, team, survivalendround)
  BY DiesEffect DEF Die, TypeOK
<1>4. DeathOf(i, team', survivalendround)
  BY <1>1, <1>3
<1> QED
  BY <1>1, <1>2, <1>4, DeathGood DEF TypeOK

LEMMA CaptureGood ==
    ASSUME NEW i \in Sprites, Capture(i)
    PROVE  EntryAllowed /\ StartComplete /\ ScoreEarned /\ DeathCounted
BY OverGood DEF Capture

LEMMA KillGood ==
    ASSUME TypeOK, NEW i \in Sprites, Kill(i)
    PROVE  EntryAllowed /\ StartComplete /\ ScoreEarned /\ DeathCounted
<1>1. \A t \in Teams : ~(teamscore'[t] > teamscore[t])
  BY DEF Kill, TypeOK
<1>2. /\ ~active'[i]
      /\ \A j \in Sprites \ {i} : active'[j] = active[j] /\ deadmeat'[j] = deadmeat[j]
      /\ UNCHANGED <<team, survivalendround>>
  BY DEF Kill, TypeOK
<1>3. ~Living(i)' /\ ~Waiting(i)'
  BY <1>2 DEF Living, Waiting, Playing
<1>4. \A j \in Sprites \ {i} : Waiting(j)' = Waiting(j) /\ Living(j)' = Living(j)
  BY <1>2 DEF Waiting, Living, Playing
<1> QED
  BY <1>1, <1>2, <1>3, <1>4, LivingNotWaiting, NobodyDiesGood

\* Somebody is placed on a team or among the spectators.
LEMMA PlacedGood ==
    ASSUME TypeOK, TypeOK', NEW i \in Sprites, NEW t \in AnyTeam, Placed(i, t),
           active'[i],
           \A j \in Sprites \ {i} : active'[j] = active[j],
           ~Waiting(i) \/ Moves(i)
    PROVE  EntryAllowed /\ StartComplete /\ ScoreEarned /\ DeathCounted
<1>1. /\ team'[i] = t
      /\ \A j \in Sprites \ {i} : team'[j] = team[j]
  BY PlacedEffect DEF TypeOK
<1>2. CASE t = Spectator
  <2>1. deadmeat' = [deadmeat EXCEPT ![i] = FALSE] /\ UNCHANGED <<survivalendround, teamscore>>
    BY <1>2, PlacedEffect
  <2>2. ~Living(i)' /\ ~Waiting(i)'
    BY <1>1, <1>2 DEF Living, Waiting, Playing
  <2>3. \A j \in Sprites \ {i} : Waiting(j)' = Waiting(j) /\ Living(j)' = Living(j)
    BY <1>1, <2>1 DEF Waiting, Living, Playing, TypeOK
  <2>4. \A u \in Teams : ~(teamscore'[u] > teamscore[u])
    BY <2>1 DEF TypeOK
  <2> QED
    BY <1>1, <2>1, <2>2, <2>3, <2>4, LivingNotWaiting, NobodyDiesGood
<1>3. CASE t # Spectator
  <2>1. DeathOf(i, team', EndRound(i))
    BY <1>3, PlacedEffect
  <2>2. EndRound(i) \/ ~survivalendround \/ \A j \in Sprites \ {i} : ~Waiting(j)
    BY DEF EndRound
  <2>3. EndRound(i) => survivalendround
    BY DEF EndRound
  <2>4. EndRound(i) \in BOOLEAN
    BY EndRoundType
  <2>5. PICK ended \in BOOLEAN : ended = EndRound(i)
    BY <2>4
  <2> QED
    BY <1>1, <1>3, <2>1, <2>2, <2>3, <2>5, DeathGood
<1> QED
  BY <1>2, <1>3

LEMMA HandlePlayerInfoGood ==
    ASSUME TypeOK, TypeOK', NEW i \in Sprites, NEW t \in Choices[i], HandlePlayerInfo(i, t)
    PROVE  EntryAllowed /\ StartComplete /\ ScoreEarned /\ DeathCounted
<1>1. ~Waiting(i)
  BY DEF HandlePlayerInfo, Waiting, Playing
<1>2. active'[i] /\ \A j \in Sprites \ {i} : active'[j] = active[j]
  BY DEF HandlePlayerInfo, TypeOK
<1> QED
  BY <1>1, <1>2, ChoiceFacts, PlacedGood DEF HandlePlayerInfo

LEMMA ChangeTeamGood ==
    ASSUME TypeOK, TypeOK', NEW i \in Sprites, NEW t \in Choices[i], ChangeTeam(i, t)
    PROVE  EntryAllowed /\ StartComplete /\ ScoreEarned /\ DeathCounted
<1>1. Moves(i)
  BY DEF Moves
<1>2. active'[i] /\ \A j \in Sprites \ {i} : active'[j] = active[j]
  BY DEF ChangeTeam
<1> QED
  BY <1>1, <1>2, ChoiceFacts, PlacedGood DEF ChangeTeam

LEMMA AddBotPlayerGood ==
    ASSUME TypeOK, NEW i \in Sprites, NEW t \in Choices[i], AddBotPlayer(i, t)
    PROVE  EntryAllowed /\ StartComplete /\ ScoreEarned /\ DeathCounted
<1>1. \A j \in Sprites \ {i} : team'[j] = team[j] /\ active'[j] = active[j]
  BY DEF AddBotPlayer, TypeOK
<1>2. CASE t # Spectator
  <2>1. Bot(i)
    BY DEF Bot
  <2> QED
    BY <1>1, <1>2, <2>1, RevivalGood DEF AddBotPlayer, StartsAlive
<1>3. CASE t = Spectator
  <2>1. deadmeat' = [deadmeat EXCEPT ![i] = FALSE] /\ UNCHANGED <<survivalendround, teamscore>>
    BY <1>3 DEF AddBotPlayer, Watches
  <2>2. team'[i] = Spectator
    BY <1>3 DEF AddBotPlayer, TypeOK
  <2>3. ~Living(i)' /\ ~Waiting(i)'
    BY <2>2 DEF Living, Waiting, Playing
  <2>4. \A j \in Sprites \ {i} : Waiting(j)' = Waiting(j) /\ Living(j)' = Living(j)
    BY <1>1, <2>1 DEF Waiting, Living, Playing, TypeOK
  <2>5. \A u \in Teams : ~(teamscore'[u] > teamscore[u])
    BY <2>1 DEF TypeOK
  <2> QED
    BY <1>1, <2>1, <2>3, <2>4, <2>5, LivingNotWaiting, NobodyDiesGood
<1> QED
  BY <1>2, <1>3

LEMMA ChangeMapGood ==
    ASSUME TypeOK, ChangeMap
    PROVE  EntryAllowed /\ StartComplete /\ ScoreEarned /\ DeathCounted
<1>1. \A t \in Teams : ~(teamscore'[t] > teamscore[t])
  BY DEF ChangeMap, TypeOK
<1>2. UNCHANGED people /\ UNCHANGED <<active, team>>
  BY DEF ChangeMap, people
<1>3. CASE survivalendround /\ deadmeat' = [j \in Sprites |-> FALSE]
  <2>1. \A j \in Sprites : ~Waiting(j)'
    BY <1>3 DEF Waiting
  <2> QED
    BY <1>1, <1>3, <2>1 DEF EntryAllowed, StartComplete, ScoreEarned, DeathCounted
<1>4. CASE UNCHANGED <<deadmeat, survivalendround>>
  BY <1>1, <1>2, <1>4, StillGood DEF Still
<1>5. CASE survivalendround'
  BY <1>1, <1>5, OverGood
<1> QED
  BY <1>3, <1>4, <1>5 DEF ChangeMap, RespawnEverybody

LEMMA StepGood ==
    TypeOK /\ [Next]_vars => EntryAllowed /\ StartComplete /\ ScoreEarned /\ DeathCounted
<1> SUFFICES ASSUME TypeOK, [Next]_vars
             PROVE  EntryAllowed /\ StartComplete /\ ScoreEarned /\ DeathCounted
  OBVIOUS
<1>1. TypeOK'
  BY TypeStep
<1>2. CASE Quiet
  BY <1>2, QuietEffect, StillGood
<1>3. CASE \E i \in Sprites : UpdateDead(i) \/ Die(i) \/ Capture(i) \/ Kill(i)
  BY <1>1, <1>3, UpdateDeadGood, DieGood, CaptureGood, KillGood
<1>4. CASE \E i \in Sprites : \E t \in Choices[i] :
                HandlePlayerInfo(i, t) \/ AddBotPlayer(i, t) \/ ChangeTeam(i, t)
  BY <1>1, <1>4, HandlePlayerInfoGood, AddBotPlayerGood, ChangeTeamGood
<1>5. CASE ChangeMap
  BY <1>5, ChangeMapGood
<1> QED
  BY <1>2, <1>3, <1>4, <1>5, NextCases

-----------------------------------------------------------------------------
(* The theorems *)

\* The respawn of the dead, the join and the change of teams let nobody but a bot that
\* is added into a round that is being played.
THEOREM NobodyEnters == Spec => NobodyEntersMidRound
<1>1. TypeOK /\ [Next]_vars => [EntryAllowed]_vars
  BY StepGood
<1> QED
  BY <1>1, TypeCorrect, PTL DEF Spec, NobodyEntersMidRound

\* Sprite::respawn clears survivalendround only when those who waited live again,
\* except one whose own change of teams has called it (Moves).
THEOREM StartsComplete == Spec => RoundStartsComplete
<1>1. TypeOK /\ [Next]_vars => [StartComplete]_vars
  BY StepGood
<1> QED
  BY <1>1, TypeCorrect, PTL DEF Spec, RoundStartsComplete

\* CalculateTeamAliveNum gives the point of a round once, to the team of all who live;
\* a second time only when the one who waits changes teams while the round is over
\* (Moves).
THEOREM ScoresOnce == Spec => SurvivorsScoreOnce
<1>1. TypeOK /\ [Next]_vars => [ScoreEarned]_vars
  BY StepGood
<1> QED
  BY <1>1, TypeCorrect, PTL DEF Spec, SurvivorsScoreOnce

\* CalculateTeamAliveNum, called by whoever dies, notices the death that ends a round.
THEOREM DeathsEndRounds == Spec => DeathEndsRound
<1>1. TypeOK /\ [Next]_vars => [DeathCounted]_vars
  BY StepGood
<1> QED
  BY <1>1, TypeCorrect, PTL DEF Spec, DeathEndsRound

=============================================================================
