--------------------------------- MODULE Flags ---------------------------------
(***************************************************************************)
(* The two flags of a capture-the-flag game, the sprites that carry them   *)
(* and the parachutes that share the table of things with them.            *)
(*                                                                         *)
(* Who carries what is written down twice: a thing names its holder        *)
(* (holdingsprite) and a sprite names the thing it holds (holdedthing).    *)
(* The thing is authoritative; the sprite's handle is copied from it only  *)
(* when the thing is updated, once a frame, and a sprite that opens its    *)
(* parachute over a flag has one handle for two things.                    *)
(*                                                                         *)
(* Code: src/shared/mechanics/Things.cpp, ThingSystem.hpp, Sprites.cpp,    *)
(* src/server/ServerLoop.cpp, src/shared/network/NetworkServerConnection.cpp *)
(* and src/shared/Game.cpp.                                                *)
(***************************************************************************)
EXTENDS Naturals

CONSTANTS
    MaxSprites,     \* max_sprites
    MaxThings,      \* max_things
    FlagTimeout,    \* flag_timeout, in updates of the flag
    GrabCooldown,   \* second / 4, in frames
    CheckPeriod,    \* second * 2, in frames
    Choices,        \* the teams that are joined in a slot, a bound
    MaxMoves        \* bound on leaves, team changes and map changes

ASSUME SpritesAssumption == MaxSprites \in Nat \ {0}
ASSUME ThingsAssumption == MaxThings \in Nat \ {0, 1}
ASSUME TimesAssumption ==
    /\ FlagTimeout \in Nat \ {0}
    /\ GrabCooldown \in Nat
    /\ CheckPeriod \in Nat \ {0}
ASSUME ChoicesAssumption == Choices \in [1 .. MaxSprites -> SUBSET {1, 2, 5}]
ASSUME MovesAssumption == MaxMoves \in Nat

Sprites == 1 .. MaxSprites
Things == 1 .. MaxThings

\* team_none, team_alpha, team_bravo, team_spectator; the style of a flag is the
\* number of its team, and 0 is the style of a thing never created.
None == 0
Alpha == 1
Bravo == 2
Spectator == 5
Flag == {Alpha, Bravo}
Parachute == 23

VARIABLES
    phase,              \* what the server does: messages, sprites, things, changemap
    turn,               \* the thing, or the sprite, that a loop has come to
    tick,               \* MainTickCounter % CheckPeriod
    active,             \* Sprite::active
    team,               \* Sprite::player->team
    deadmeat,           \* Sprite::deadmeat
    flaggrabcooldown,   \* Sprite::flaggrabcooldown
    holdedthing,        \* Sprite::holdedthing
    things,             \* the table of TThingSystem
    teamscore,          \* what the frame has added to Game::teamscore
    moves               \* leaves, team changes and map changes so far

clock == <<phase, turn, tick>>
people == <<active, team, deadmeat>>
world == <<holdedthing, things, teamscore>>
vars == <<clock, people, flaggrabcooldown, world, moves>>

Thing == [active : BOOLEAN, style : Flag \cup {0, Parachute},
          holdingsprite : 0 .. MaxSprites, inbase : BOOLEAN, timeout : 0 .. FlagTimeout]

Playing(i) == active[i] /\ team[i] \in Flag
Alive(i) == Playing(i) /\ ~deadmeat[i]

-----------------------------------------------------------------------------
(* Handlers change things, handles and scores in several calls one after the   *)
(* other; each call is a function from one such world to the next.  Here and   *)
(* below a definition whose name ends in Stacking, Forgetful, Kept, ByHandle,  *)
(* Late or Never is a slip of the definition that follows it, kept to see      *)
(* which property notices.                                                     *)

NoScore == [t \in Flag |-> 0]
World == [thing |-> things, held |-> holdedthing, score |-> teamscore]
Becomes(w) ==
    /\ things' = w.thing
    /\ holdedthing' = w.held
    /\ teamscore' = w.score

IsFlag(thing) == thing.style \in Flag
HeldBy(thing, i) == thing.holdingsprite = i

NewThing(style) ==
    [active |-> TRUE, style |-> style, holdingsprite |-> 0, inbase |-> style \in Flag,
     timeout |-> IF style \in Flag THEN FlagTimeout ELSE 0]

\* Of a killed thing style and holder are looked at again, nothing else.
Dead(thing) == [thing EXCEPT !.active = FALSE, !.inbase = FALSE, !.timeout = 0]
KillThing(w, k) == [w EXCEPT !.thing[k] = Dead(@)]

Free(w) == {k \in Things : ~w.thing[k].active}
FirstFree(w) == CHOOSE k \in Free(w) : \A l \in Free(w) : k <= l

\* creatething kills whatever flag of that style there is.
CreateThingStacking(w, k, style) == [w EXCEPT !.thing[k] = NewThing(style)]
CreateThing(w, k, style) ==
    [w EXCEPT !.thing = [l \in Things |->
        IF l = k THEN NewThing(style)
        ELSE IF style \in Flag /\ w.thing[l].style = style THEN Dead(w.thing[l])
        ELSE w.thing[l]]]

CreateSomewhere(w, style) ==
    IF Free(w) = {} THEN w ELSE CreateThing(w, FirstFree(w), style)

\* A sprite's handle is let go of; slot 0 is nobody's.
LetGo(w, i) == [w EXCEPT !.held = [j \in Sprites |-> IF j = i THEN 0 ELSE w.held[j]]]

\* Thing::respawn
RespawnThingForgetful(w, k) == CreateThing(w, k, w.thing[k].style)
RespawnThing(w, k) ==
    CreateThing(LetGo(w, w.thing[k].holdingsprite), k, w.thing[k].style)

\* Every thing that names i as its holder is released, those P picks only.
ReleaseAll(w, i) ==
    [w EXCEPT !.thing = [k \in Things |->
        IF HeldBy(w.thing[k], i) /\ IsFlag(w.thing[k])
        THEN [w.thing[k] EXCEPT !.holdingsprite = 0] ELSE w.thing[k]]]

-----------------------------------------------------------------------------
(* What happens to a sprite *)

\* Sprite::parachute: what still names the sprite goes, a flag too.
OpenParachute(w, i, opens) ==
    LET bare == [w EXCEPT !.thing = [k \in Things |->
            IF HeldBy(w.thing[k], i)
            THEN [Dead(w.thing[k]) EXCEPT !.holdingsprite = 0] ELSE w.thing[k]]]
        k == FirstFree(bare)
    IN  IF opens /\ Free(bare) # {}
        THEN [CreateThing(bare, k, Parachute) EXCEPT !.thing[k].holdingsprite = i, !.held[i] = k]
        ELSE bare

\* Sprite::respawn, as far as things go
Respawned(w, i, opens) ==
    LET k == w.held[i]
        empty == IF k = 0 THEN w
                 ELSE IF w.thing[k].style = Parachute THEN KillThing(w, k)
                 ELSE RespawnThing(w, k)
    IN  OpenParachute(LetGo(empty, i), i, opens)

\* Sprite::kill lets go of a flag only if it is what the handle names.
Killed(w, i) ==
    LET k == w.held[i]
    IN  IF k # 0 /\ IsFlag(w.thing[k])
        THEN LetGo([w EXCEPT !.thing[k].holdingsprite = 0], i) ELSE w

\* Loops over a set of slots in their order, turn being the last one done
Turn(k, slots) ==
    /\ k \in slots /\ k > turn
    /\ \A l \in slots : l > turn => k <= l
    /\ turn' = k
TurnsOver(slots) == \A k \in slots : k <= turn

Messages == phase = "messages"
Move ==
    /\ Messages
    /\ moves < MaxMoves
    /\ moves' = moves + 1
SpriteUpdates == phase = "sprites"

\* Nobody asks whether a sprite that is gone was dead, or of its cooldown.
Gone(i) ==
    /\ active' = [active EXCEPT ![i] = FALSE]
    /\ deadmeat' = [deadmeat EXCEPT ![i] = FALSE]
    /\ flaggrabcooldown' = [flaggrabcooldown EXCEPT ![i] = 0]

\* The player is kicked or times out: Sprite::kill, and no more.
KickPlayer(i) ==
    /\ Move
    /\ active[i]
    /\ Becomes(Killed(World, i))
    /\ Gone(i)
    /\ UNCHANGED <<clock, team>>

\* A farewell or a lost connection: the sprite, which a kick may have killed
\* already, gets a player without a team, too.
Leave(i) ==
    /\ Move
    /\ active[i] \/ team[i] # None
    /\ Becomes(Killed(World, i))
    /\ Gone(i)
    /\ team' = [team EXCEPT ![i] = None]
    /\ UNCHANGED clock

\* createsprite: the sprite is constructed anew.
NewSprite(i, t) ==
    /\ active' = [active EXCEPT ![i] = TRUE]
    /\ team' = [team EXCEPT ![i] = t]
    /\ deadmeat' = [deadmeat EXCEPT ![i] = FALSE]
    /\ flaggrabcooldown' = [flaggrabcooldown EXCEPT ![i] = 0]

\* The loop of serverhandleplayerinfo looks at one thing all the time: the one
\* whose number is the number of the sprite.
SameNumber(w, i) ==
    IF i \in Things /\ HeldBy(w.thing[i], i) THEN RespawnThing(w, i) ELSE w

HandlePlayerInfo(i, t) ==
    /\ Messages
    /\ ~active[i] /\ \A j \in Sprites : j < i => active[j]
    /\ NewSprite(i, t)
    /\ LET arrived == SameNumber(LetGo(World, i), i)
       IN  \/ t \in Flag /\ \E opens \in BOOLEAN : Becomes(Respawned(arrived, i, opens))
           \/ t = Spectator /\ Becomes(arrived)
    /\ UNCHANGED <<clock, moves>>

\* Whatever names the sprite is respawned, one thing after the other: of two flags
\* of a team the last one stays.
AllRespawned(w, i) ==
    LET mine == {k \in Things : HeldBy(w.thing[k], i)}
        Rivals(k) == {l \in mine : IsFlag(w.thing[l]) /\ w.thing[l].style = w.thing[k].style}
    IN  [w EXCEPT !.thing = [k \in Things |->
            IF k \in mine
            THEN IF \E l \in Rivals(k) : l > k THEN Dead(NewThing(w.thing[k].style))
                 ELSE NewThing(w.thing[k].style)
            ELSE IF Rivals(k) # {} THEN Dead(w.thing[k])
            ELSE w.thing[k]]]

\* changeteam: createsprite has emptied the handle, the loop over things counts.
ChangeTeamKept(i, t) ==
    /\ Move
    /\ active[i]
    /\ NewSprite(i, t)
    /\ Becomes(LetGo(World, i))
    /\ UNCHANGED clock
ChangeTeam(i, t) ==
    /\ Move
    /\ active[i]
    /\ NewSprite(i, t)
    /\ LET moved == AllRespawned(LetGo(World, i), i)
       IN  \/ t \in Flag /\ \E opens \in BOOLEAN : Becomes(Respawned(moved, i, opens))
           \/ t = Spectator /\ Becomes(moved)
    /\ UNCHANGED clock

\* Sprite::die, of a sprite or of its corpse
DieByHandle(i) ==
    /\ SpriteUpdates
    /\ Playing(i)
    /\ Becomes(LetGo(Killed(World, i), i))
    /\ deadmeat' = [deadmeat EXCEPT ![i] = TRUE]
    /\ UNCHANGED <<clock, active, team, flaggrabcooldown, moves>>
Die(i) ==
    /\ SpriteUpdates
    /\ Playing(i)
    /\ Becomes(LetGo(ReleaseAll(World, i), i))
    /\ deadmeat' = [deadmeat EXCEPT ![i] = TRUE]
    /\ UNCHANGED <<clock, active, team, flaggrabcooldown, moves>>

\* The end of the respawn countdown, or a living sprite that is out of bounds.
Respawn(i) ==
    /\ SpriteUpdates
    /\ Playing(i)
    /\ \E opens \in BOOLEAN : Becomes(Respawned(World, i, opens))
    /\ deadmeat' = [deadmeat EXCEPT ![i] = FALSE]
    /\ UNCHANGED <<clock, active, team, flaggrabcooldown, moves>>

\* throwflag, when nothing is in the way of the flag
ThrowFlag(i) ==
    /\ SpriteUpdates
    /\ Alive(i)
    /\ holdedthing[i] # 0
    /\ \E k \in Things : IsFlag(things[k]) /\ HeldBy(things[k], i)
    /\ Becomes(LetGo(ReleaseAll(World, i), i))
    /\ flaggrabcooldown' = [flaggrabcooldown EXCEPT ![i] = GrabCooldown]
    /\ UNCHANGED <<clock, people, moves>>

\* Back on the ground, or flying on with the jets
LeaveParachute(i) ==
    /\ SpriteUpdates
    /\ Playing(i)
    /\ LET k == holdedthing[i]
       IN  /\ k # 0 /\ things[k].style = Parachute
           /\ Becomes(LetGo([World EXCEPT !.thing[k].holdingsprite = 0], i))
    /\ UNCHANGED <<clock, people, flaggrabcooldown, moves>>

-----------------------------------------------------------------------------
(* Thing::update *)

\* The holder is told what it holds.
Followed(w, k) ==
    LET h == w.thing[k].holdingsprite
    IN  IF h = 0 THEN w ELSE [w EXCEPT !.held[h] = k, !.thing[k].timeout = FlagTimeout]

\* A flag near its base; its own team has brought it back.
Located(w, k, near) ==
    LET h == w.thing[k].holdingsprite
        marked == [w EXCEPT !.thing[k].inbase = near,
                            !.thing[k].timeout = IF near THEN FlagTimeout ELSE @]
    IN  IF near /\ h # 0 /\ team[h] = w.thing[k].style THEN RespawnThing(marked, k) ELSE marked

\* Touchdown: the flag meets a flag that is in its base.
Touchdown(w, k, meets) ==
    /\ meets
    /\ w.thing[k].holdingsprite # 0
    /\ team[w.thing[k].holdingsprite] # w.thing[k].style
    /\ \E l \in Things \ {k} :
        w.thing[l].active /\ w.thing[l].inbase /\ w.thing[l].holdingsprite = 0

Scored(w, t) ==
    [w EXCEPT !.score = [s \in Flag |-> IF s = t THEN w.score[s] + 1 ELSE w.score[s]]]

CapturedKept(w, k, meets) ==
    IF Touchdown(w, k, meets) THEN Scored(w, team[w.thing[k].holdingsprite]) ELSE w
Captured(w, k, meets) ==
    IF Touchdown(w, k, meets)
    THEN RespawnThing(Scored(w, team[w.thing[k].holdingsprite]), k) ELSE w

\* checkspritecollision: j is the nearest sprite in reach, 0 for none.
Grabs(w, k, j) ==
    /\ team[j] # w.thing[k].style \/ ~w.thing[k].inbase
    /\ w.thing[k].holdingsprite = 0
    /\ flaggrabcooldown[j] < 1

Touched(w, k, j) ==
    IF j = 0 THEN w
    ELSE LET fresh == [w EXCEPT !.thing[k].timeout = FlagTimeout]
             taken == [fresh EXCEPT !.thing[k].holdingsprite = j]
         IN  IF ~Grabs(w, k, j) THEN fresh
             ELSE IF team[j] = w.thing[k].style THEN RespawnThing(taken, k)
             ELSE taken

\* The countdown of a flag that lies about
TimedOutNever(w, k) == w
TimedOut(w, k) ==
    LET left == w.thing[k].timeout - 1
    IN  IF left > 0 THEN [w EXCEPT !.thing[k].timeout = left]
        ELSE IF w.thing[k].holdingsprite # 0 THEN [w EXCEPT !.thing[k].timeout = FlagTimeout]
        ELSE RespawnThing(w, k)

BackInBounds(w, k, out) == IF out THEN RespawnThing(w, k) ELSE w

ActiveThings == {k \in Things : things[k].active}
Update(k) ==
    /\ phase = "things"
    /\ Turn(k, ActiveThings)
    /\ UNCHANGED <<phase, tick, people, flaggrabcooldown, moves>>

\* Where the flag is, and who is near, is left to chance.
UpdateFlag(k) ==
    /\ Update(k)
    /\ IsFlag(things[k])
    /\ \E near, meets, out \in BOOLEAN, j \in {i \in Sprites : Alive(i)} \cup {0} :
        LET located == Located(Followed(World, k), k, near)
            captured == Captured(located, k, meets)
        IN  Becomes(BackInBounds(TimedOut(Touched(captured, k, j), k), k, out))

\* A parachute; it is killed when its minute is over, or three seconds after
\* landing.
UpdateParachute(k) ==
    /\ Update(k)
    /\ things[k].style = Parachute
    /\ LET h == things[k].holdingsprite
           told == IF h = 0 THEN World ELSE [World EXCEPT !.held[h] = k]
       IN  Becomes(told) \/ Becomes(KillThing(told, k))

\* Sprites, then bullets, then things; the cooldowns have been counted down.
UpdateSprites ==
    /\ SpriteUpdates
    /\ phase' = "things"
    /\ flaggrabcooldown' = [i \in Sprites |->
            IF active[i] /\ flaggrabcooldown[i] > 0 THEN flaggrabcooldown[i] - 1
            ELSE flaggrabcooldown[i]]
    /\ UNCHANGED <<turn, tick, people, world, moves>>

\* "Destroy flags if > 1", every two seconds; and a new one if there is none.
Count(w, s) == {k \in Things : w.thing[k].active /\ w.thing[k].style = s}
Checked(w, s) ==
    IF Count(w, s) = {} THEN CreateSomewhere(w, s)
    ELSE IF \E k, l \in Count(w, s) : k # l
    THEN KillThing(w, CHOOSE k \in Count(w, s) : \A l \in Count(w, s) : l <= k)
    ELSE w

EndOfFrameLate ==
    /\ phase = "things" /\ TurnsOver(ActiveThings)
    /\ phase' = "messages"
    /\ tick' = tick + 1
    /\ turn' = 0
    /\ UNCHANGED <<people, flaggrabcooldown, moves>>
EndOfFrame ==
    /\ phase = "things" /\ TurnsOver(ActiveThings)
    /\ phase' = "messages"
    /\ tick' = (tick + 1) % CheckPeriod
    /\ turn' = 0
    /\ UNCHANGED <<people, flaggrabcooldown, moves>>

CheckFlags ==
    /\ EndOfFrame
    /\ LET played == [World EXCEPT !.score = NoScore]
       IN  Becomes(IF tick = 0 THEN Checked(Checked(played, Alpha), Bravo) ELSE played)

\* changemap: every thing is killed, the players are respawned one after the other,
\* with a parachute for some, and the flags are created wherever there is room.
\* Nothing comes between these steps.
ChangeMap ==
    /\ Move
    /\ phase' = "changemap"
    /\ Becomes([World EXCEPT !.thing = [k \in Things |-> Dead(things[k])]])
    /\ UNCHANGED <<turn, tick, people, flaggrabcooldown>>

RespawnNext(i) ==
    /\ phase = "changemap"
    /\ Turn(i, {j \in Sprites : Playing(j)})
    /\ \E opens \in BOOLEAN : Becomes(Respawned(World, i, opens))
    /\ deadmeat' = [deadmeat EXCEPT ![i] = FALSE]
    /\ UNCHANGED <<phase, tick, active, team, flaggrabcooldown, moves>>

FlagsCreated ==
    /\ phase = "changemap" /\ TurnsOver({j \in Sprites : Playing(j)})
    /\ phase' = "messages" /\ turn' = 0
    /\ Becomes(CreateSomewhere(CreateSomewhere(World, Alpha), Bravo))
    /\ UNCHANGED <<tick, people, flaggrabcooldown, moves>>

NextFrame ==
    /\ Messages
    /\ phase' = "sprites"
    /\ UNCHANGED <<turn, tick, people, flaggrabcooldown, world, moves>>

-----------------------------------------------------------------------------
NoThing == Dead(NewThing(0))

Init ==
    /\ phase = "messages" /\ turn = 0 /\ tick = 0
    /\ active = [i \in Sprites |-> FALSE]
    /\ team = [i \in Sprites |-> None]
    /\ deadmeat = [i \in Sprites |-> FALSE]
    /\ flaggrabcooldown = [i \in Sprites |-> 0]
    /\ holdedthing = [i \in Sprites |-> 0]
    /\ things = [k \in Things |-> IF k \in Flag THEN NewThing(k) ELSE NoThing]
    /\ teamscore = NoScore
    /\ moves = 0

Frame ==
    \/ NextFrame
    \/ UpdateSprites
    \/ \E k \in Things : UpdateFlag(k) \/ UpdateParachute(k)
    \/ CheckFlags
    \/ FlagsCreated
    \/ \E i \in Sprites : RespawnNext(i)

Next ==
    \/ Frame
    \/ ChangeMap
    \/ \E i \in Sprites :
        \/ KickPlayer(i) \/ Leave(i)
        \/ \E t \in Choices[i] : HandlePlayerInfo(i, t) \/ ChangeTeam(i, t)
        \/ Die(i) \/ Respawn(i) \/ ThrowFlag(i) \/ LeaveParachute(i)

\* apponidle runs frame after frame; nothing is assumed of the players.
Spec == Init /\ [][Next]_vars /\ WF_vars(Frame)

-----------------------------------------------------------------------------
(* Properties *)

\* Every variable stays in its type.
TypeOK ==
    /\ phase \in {"messages", "sprites", "things", "changemap"}
    /\ turn \in {0} \cup Things \cup Sprites
    /\ tick \in 0 .. CheckPeriod - 1
    /\ active \in [Sprites -> BOOLEAN]
    /\ team \in [Sprites -> Flag \cup {None, Spectator}]
    /\ deadmeat \in [Sprites -> BOOLEAN]
    /\ flaggrabcooldown \in [Sprites -> 0 .. GrabCooldown]
    /\ holdedthing \in [Sprites -> 0 .. MaxThings]
    /\ things \in [Things -> Thing]
    /\ teamscore \in [Flag -> Nat]
    /\ moves \in 0 .. MaxMoves

\* A team never has two flags, however often respawn, the check every two seconds
\* and a map change create one.
OneFlagEach ==
    \A k, l \in Things :
        things[k].active /\ things[l].active /\ IsFlag(things[k]) /\ things[k].style = things[l].style
            => k = l

\* No flag is carried by a member of its own team: not by one who changes teams
\* with it, nor by one who is given the slot of a carrier that has gone.
NobodyCarriesOwnFlag ==
    \A k \in Things : things[k].active /\ IsFlag(things[k]) /\ things[k].holdingsprite # 0 =>
        team[things[k].holdingsprite] # things[k].style

\* A corpse carries no flag, even if it grabbed the flag in the frame before, or
\* under a parachute, and its handle does not name the flag.
DeadCarryNothing ==
    \A i \in Sprites, k \in Things :
        Playing(i) /\ deadmeat[i] /\ IsFlag(things[k]) => ~HeldBy(things[k], i)

\* A sprite's handle names a flag only if the flag names the sprite, or else what
\* becomes of the one would drop or return the flag of another.  Once that is so,
\* only a flag that is created in the slot of a dead thing can end it.
Honest ==
    \A i \in Sprites : holdedthing[i] # 0 =>
        LET thing == things[holdedthing[i]]
        IN  thing.active /\ IsFlag(thing) => HeldBy(thing, i)
FlagInNewPlace ==
    \E k \in Things :
        /\ things'[k].active /\ IsFlag(things'[k])
        /\ ~(things[k].active /\ things[k].style = things'[k].style)
HandlesStayHonest == [][Honest => Honest' \/ FlagInNewPlace]_vars

\* A point is a carrier's of the other team whose own flag was at home, it is one
\* point, and the flag that made it is not left on the ground to make another.
CountedOnce ==
    \A t \in Flag : teamscore'[t] > teamscore[t] =>
        /\ teamscore'[t] = teamscore[t] + 1
        /\ \E k \in Things :
            /\ things[k].active /\ things[k].style \in Flag \ {t}
            /\ things[k].holdingsprite # 0 /\ team[things[k].holdingsprite] = t
            /\ things'[k].inbase
        /\ \E k \in Things :
            things[k].active /\ things[k].style = t /\ things[k].inbase /\ things[k].holdingsprite = 0
CaptureCountsOnce == [][CountedOnce]_vars

\* A flag that lies about or is gone, a parachute having been opened over it, is
\* taken or is back in its base in the end, unless again and again there is neither
\* the flag nor room for it.  (One that Sprite::kill has left with an empty slot counts
\* as taken: Thing::update keeps it there.)
InPlay(s) ==
    \E k \in Things : things[k].active /\ things[k].style = s
        /\ (things[k].inbase \/ things[k].holdingsprite # 0)
NoRoomFor(s) == Free(World) = {} /\ Count(World, s) = {}
FlagComesBack == \A s \in Flag : []<>(InPlay(s) \/ NoRoomFor(s))

=============================================================================
