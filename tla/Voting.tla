-------------------------------- MODULE Voting --------------------------------
(***************************************************************************)
(* Map votes and kick votes of the dedicated server.                       *)
(*                                                                         *)
(* A vote lives in one set of variables of Game: a map vote is started by  *)
(* a chat command, a kick vote by the server's own mass-flag detector, and *)
(* each can replace the other.  Ballots are booked by sprite slot, the     *)
(* target of a kick is a sprite slot, and slots change hands while a vote  *)
(* is running; so the module keeps, beside the code's variables, who the   *)
(* vote was called on and who has cast a ballot.                           *)
(*                                                                         *)
(* Code: src/shared/Game.cpp, src/shared/network/NetworkServerGame.cpp,    *)
(* src/server/ServerCommands.cpp, src/server/ServerLoop.cpp.               *)
(***************************************************************************)
EXTENDS Integers, FiniteSets

CONSTANTS
    Person,         \* humans, each with a connection of its own
    Admins,         \* those kickplayer spares
    Bot, Nobody,    \* what else a sprite's player may be
    MaxPlayers,     \* max_players = max_sprites
    MapsList,       \* GlobalStateServer::mapslist
    NoMap,          \* the empty string
    VotePercent,    \* sv_votepercent
    VotingTime,     \* default_voting_time, ticks a vote is open
    VoteTime,       \* default_vote_time, ticks before a player may start one
    MaxDetections   \* bound: frames in which the mass-flag detector fires

Slots == 1 .. MaxPlayers
Players == Person \cup {Bot, Nobody}

ASSUME SlotsAssumption == MaxPlayers \in Nat \ {0}
ASSUME TimeAssumption == VotingTime \in Nat \ {0, 1} /\ VoteTime \in Nat \ {0}
ASSUME PercentAssumption == VotePercent \in Nat
ASSUME BoundAssumption == MaxDetections \in Nat
ASSUME PersonAssumption ==
    /\ IsFiniteSet(Person)
    /\ Admins \subseteq Person
    /\ Bot \notin Person /\ Nobody \notin Person /\ Bot # Nobody
ASSUME MapsAssumption == NoMap \notin MapsList \cup Slots /\ MapsList \cap Slots = {}

VARIABLES
    phase,          \* ProcessLoop polls one message, then frames are run
    active,         \* Sprite::active
    player,         \* Sprite::player
    vote,           \* VoteActive, VoteType, VoteTarget, VoteTimeRemaining,
                    \* VoteNumVotes, VoteMaxVotes, VoteHasVoted
    VoteCooldown,
    mapchange,      \* the map preparemapchange has announced
    ballots,        \* history: the players who have cast a ballot in this vote
    accused,        \* history: whose kick the running vote was called on
    waited,         \* history: frames since the player joined or started a vote
    joined,         \* bound: each person joins once
    detections      \* bound: frames in which the detector has fired

sprvars == <<active, player>>
hisvars == <<ballots, accused>>
vars == <<phase, sprvars, vote, VoteCooldown, mapchange, hisvars, waited, joined, detections>>

Humans == {i \in Slots : active[i] /\ player[i] \in Person}

-----------------------------------------------------------------------------
(* The operations of Game.  A definition whose name ends in Forgetful, Again,  *)
(* MapsOnly, Partial, Carrying or Blind is a slip of the one after it, kept to *)
(* see which property notices.                                                 *)

\* The initial values.
NoVote ==
    [active |-> FALSE, type |-> "map", target |-> NoMap, time |-> -1,
     num |-> 0, max |-> 0, hasVoted |-> [i \in Slots |-> FALSE]]

\* stopvote puts them back.
StopVoteForgetful == [NoVote EXCEPT !.hasVoted = vote.hasVoted]
StopVote == NoVote

StartVotePartial(type, target) ==
    [vote EXCEPT !.active = TRUE, !.target = target, !.time = VotingTime,
                 !.num = 0, !.max = Cardinality(Humans)]

StartVoteCarrying(type, target) ==
    [vote EXCEPT !.active = TRUE, !.type = type, !.target = target,
                 !.time = VotingTime, !.max = Cardinality(Humans)]

\* startvote: VoteHasVoted is left as it is.
StartVote(type, target) ==
    [active |-> TRUE, type |-> type, target |-> target, time |-> VotingTime,
     num |-> 0, max |-> Cardinality(Humans), hasVoted |-> vote.hasVoted]

TimerVoteMapsOnly(v) ==
    IF v.active /\ v.time = 1 /\ v.type = "map" THEN StopVote
    ELSE IF v.active /\ v.time > -1 THEN [v EXCEPT !.time = @ - 1] ELSE v

\* timervote
TimerVote(v) ==
    IF v.active /\ v.time = 1 THEN StopVote
    ELSE IF v.active /\ v.time > -1 THEN [v EXCEPT !.time = @ - 1] ELSE v

CountedAgain(i) == [vote EXCEPT !.num = @ + 1]
Counted(i) == [vote EXCEPT !.num = @ + 1, !.hasVoted[i] = TRUE]

\* A quotient of two floats against another: the same order as these products,
\* and x / 0 is infinite.
Passes(v) == v.num * 100 >= VotePercent * v.max

CooldownForgetful(i) == UNCHANGED VoteCooldown
ResetVoteCooldown(i) == VoteCooldown' = [VoteCooldown EXCEPT ![i] = VoteTime]

KickVotedBlind(i) == active' = [active EXCEPT ![i] = FALSE]

\* kickplayer(i, true, kick_voted, ...)
KickVoted(i) ==
    active' = [active EXCEPT ![i] = @ /\ player[i] \in Admins]

\* countvote; the ban that goes with the kick is not modelled here.
CountVote(i) ==
    /\ vote.active /\ ~vote.hasVoted[i]
    /\ ballots' = ballots \cup {player[i]}
    /\ \/ /\ ~Passes(Counted(i))
          /\ vote' = Counted(i)
          /\ UNCHANGED <<active, mapchange>>
       \/ /\ Passes(Counted(i))
          /\ vote.type = "kick"
          /\ KickVoted(vote.target)
          /\ vote' = StopVote
          /\ UNCHANGED mapchange
       \/ /\ Passes(Counted(i))
          /\ vote.type = "map"
          /\ mapchange' \in {mapchange, vote.target}    \* the map may not be found
          /\ vote' = StopVote
          /\ UNCHANGED active
    /\ UNCHANGED <<player, VoteCooldown, accused, waited, joined, detections>>

-----------------------------------------------------------------------------
(* ProcessLoop: the messages of a player that has a sprite, active or not *)

MessageOf(i) == phase = "poll" /\ player[i] \in Person
Handled == phase' = "ticks"
NothingDone == UNCHANGED <<sprvars, vote, VoteCooldown, mapchange, hisvars, waited, joined, detections>>

\* serverhandlevotekick.  Its branch for "no vote is running" asks once more
\* whether one is, so it does nothing.
KickBallot(i, num) ==
    /\ vote.active /\ vote.type = "kick"
    /\ vote.target # i
    /\ ~vote.hasVoted[i]
    /\ vote.target = num

HandleVoteKick(i, num) ==
    /\ MessageOf(i)
    /\ \/ KickBallot(i, num) /\ CountVote(i)
       \/ ~KickBallot(i, num) /\ NothingDone
    /\ Handled

\* commandvotemap: the name may be any string, a slot number too.
MapBallot(i, name) == vote.active /\ vote.target = name /\ ~vote.hasVoted[i]

CanVote(i) == VoteCooldown[i] < 0
MapVoteStarts(i, name) == ~vote.active /\ name \in MapsList /\ CanVote(i)

StartMapVote(i, name) ==
    /\ vote' = StartVote("map", name)
    /\ ResetVoteCooldown(i)
    /\ waited' = [waited EXCEPT ![i] = 0]
    /\ ballots' = {}
    /\ accused' = Nobody
    /\ UNCHANGED <<sprvars, mapchange, joined, detections>>

HandleVoteMap(i, name) ==
    /\ MessageOf(i)
    /\ \/ MapBallot(i, name) /\ CountVote(i)
       \/ MapVoteStarts(i, name) /\ StartMapVote(i, name)
       \/ ~MapBallot(i, name) /\ ~MapVoteStarts(i, name) /\ NothingDone
    /\ Handled

\* serverhandleplayerdisconnect
HandleLeave(i) ==
    /\ MessageOf(i)
    /\ \/ /\ vote.active /\ vote.type = "kick" /\ vote.target = i
          /\ KickVoted(i)
          /\ vote' = StopVote
          /\ UNCHANGED player
       \/ /\ ~(vote.active /\ vote.type = "kick" /\ vote.target = i)
          /\ active' = [active EXCEPT ![i] = FALSE]
          /\ player' = [player EXCEPT ![i] = Nobody]
          /\ UNCHANGED vote
    /\ Handled
    /\ UNCHANGED <<VoteCooldown, mapchange, hisvars, waited, joined, detections>>

FirstFree(i) == ~active[i] /\ \A j \in Slots : j < i => active[j]

\* serverhandleplayerinfo: the join, as far as votes can see it.
HandleJoin(p, i) ==
    /\ phase = "poll"
    /\ p \notin joined
    /\ FirstFree(i)
    /\ active' = [active EXCEPT ![i] = TRUE]
    /\ player' = [player EXCEPT ![i] = p]
    /\ ResetVoteCooldown(i)
    /\ waited' = [waited EXCEPT ![i] = 0]
    /\ joined' = joined \cup {p}
    /\ Handled
    /\ UNCHANGED <<vote, mapchange, hisvars, detections>>

NoMessage == phase = "poll" /\ NothingDone /\ Handled

-----------------------------------------------------------------------------
(* Between two polls *)

\* Kicks, timeouts and lost connections; only the last forgets the player.
SpriteGone(i) ==
    /\ player[i] # Nobody
    /\ active' = [active EXCEPT ![i] = FALSE]
    /\ \/ player' = [player EXCEPT ![i] = Nobody]
       \/ active[i] /\ UNCHANGED player
    /\ UNCHANGED <<phase, vote, VoteCooldown, mapchange, hisvars, waited, joined, detections>>

AddBotPlayer(i) ==
    /\ phase = "ticks"
    /\ FirstFree(i)
    /\ active' = [active EXCEPT ![i] = TRUE]
    /\ player' = [player EXCEPT ![i] = Bot]
    /\ UNCHANGED <<phase, vote, VoteCooldown, mapchange, hisvars, waited, joined, detections>>

\* TickVote
TickVote == VoteCooldown' = [i \in Slots |->
    IF VoteCooldown[i] > -1 THEN VoteCooldown[i] - 1 ELSE VoteCooldown[i]]

\* updateframe: the mass-flag check, which calls one vote after the other on the
\* players it suspects, then TickVote, then timervote.
Frame ==
    /\ phase = "ticks"
    /\ \/ /\ vote' = TimerVote(vote)
          /\ UNCHANGED <<hisvars, detections>>
       \/ \E last \in Slots :
            /\ detections < MaxDetections
            /\ active[last]
            /\ vote' = TimerVote(StartVote("kick", last))
            /\ ballots' = {}
            /\ accused' = player[last]
            /\ detections' = detections + 1
    /\ TickVote
    /\ waited' = [i \in Slots |-> IF waited[i] > VoteTime THEN waited[i] ELSE waited[i] + 1]
    /\ UNCHANGED <<phase, sprvars, mapchange, joined>>

NextPoll ==
    /\ phase = "ticks"
    /\ phase' = "poll"
    /\ NothingDone

-----------------------------------------------------------------------------
Init ==
    /\ phase = "poll"
    /\ active = [i \in Slots |-> FALSE]
    /\ player = [i \in Slots |-> Nobody]
    /\ vote = NoVote
    /\ VoteCooldown = [i \in Slots |-> 0]
    /\ mapchange = NoMap
    /\ ballots = {}
    /\ accused = Nobody
    /\ waited = [i \in Slots |-> 0]
    /\ joined = {}
    /\ detections = 0

HandleMessage ==
    \/ \E i \in Slots :
        \/ \E num \in Slots : HandleVoteKick(i, num)
        \/ \E name \in MapsList \cup Slots : HandleVoteMap(i, name)
        \/ HandleLeave(i)
    \/ \E p \in Person, i \in Slots : HandleJoin(p, i)

ProcessLoop == NoMessage \/ HandleMessage

Next ==
    \/ ProcessLoop
    \/ \E i \in Slots : SpriteGone(i) \/ AddBotPlayer(i)
    \/ Frame
    \/ NextPoll

\* apponidle polls and, when time has passed, runs frames; time does pass, but a
\* single call may find no frame due.
Spec ==
    /\ Init /\ [][Next]_vars
    /\ WF_vars(ProcessLoop) /\ WF_vars(NextPoll) /\ SF_vars(Frame)

-----------------------------------------------------------------------------
(* Properties *)

Vote == [active : BOOLEAN, type : {"map", "kick"}, target : MapsList \cup Slots \cup {NoMap},
         time : -1 .. VotingTime, num : Nat, max : Nat, hasVoted : [Slots -> BOOLEAN]]

\* Every variable stays in its type; the target of a running vote is of the
\* vote's own kind, whichever vote it replaced.
TypeOK ==
    /\ phase \in {"poll", "ticks"}
    /\ active \in [Slots -> BOOLEAN]
    /\ player \in [Slots -> Players]
    /\ vote \in Vote
    /\ vote.active => IF vote.type = "kick" THEN vote.target \in Slots ELSE vote.target \in MapsList
    /\ VoteCooldown \in [Slots -> -1 .. VoteTime]
    /\ mapchange \in MapsList \cup {NoMap}
    /\ ballots \subseteq Person
    /\ accused \in Players
    /\ waited \in [Slots -> 0 .. VoteTime + 1]
    /\ joined \subseteq Person
    /\ detections \in Nat

\* However a vote ends (decided, timed out, its target left), nothing of it is
\* left for the next one: no ballot mark, no count, no timer.
NoResidue == ~vote.active => vote = NoVote

\* VoteNumVotes is the number of different people who voted in this vote, though
\* ballots are booked by slot and slots change hands.
OneBallotEach == vote.active => vote.num = Cardinality(ballots)

\* A vote that neither time nor the farewell of its target ends has been decided
\* (a kick, a map), and the decision is backed by the share sv_votepercent asks
\* for, in different people, of the electorate counted when the vote started.
DecisionBacked ==
    [][(vote.active /\ ~vote'.active /\ ~Frame /\ (\A i \in Slots : ~HandleLeave(i)))
        => Cardinality(ballots') * 100 >= VotePercent * vote.max]_vars

\* "Can't vote for 2:00 minutes after joining game or last vote": whoever starts
\* a map vote has waited default_vote_time since both, in whatever slot.
Patience ==
    [][\A i \in Slots, name \in MapsList :
        HandleVoteMap(i, name) /\ MapVoteStarts(i, name) => waited[i] >= VoteTime]_vars

\* No ballot, and no farewell during a vote, removes an admin's sprite.
AdminsStay ==
    [][\A i \in Slots : HandleMessage /\ vote.active /\ active[i] /\ player[i] \in Admins
        /\ ~HandleLeave(i) => active'[i]]_vars

\* Nobody but the mass-flag detector, which calls a vote of its own, prolongs a vote:
\* no ballot, join or farewell gives it time, and every frame takes a tick from it.
NeverProlonged ==
    [][vote.active /\ vote'.active /\ detections' = detections
        => vote'.time <= vote.time /\ (Frame => vote'.time < vote.time)]_vars

\* Every vote comes to an end, whether anybody votes or not.
VoteEnds == vote.active ~> ~vote.active

-----------------------------------------------------------------------------
(* The promise to those who vote, see Poll *)

Promise == INSTANCE Poll WITH
    Maps <- MapsList, Seats <- Slots, NoSubject <- NoMap,
    subject <- vote.target, electorate <- vote.max, left <- vote.time,
    announced <- mapchange

\* However slots change hands while it runs, a vote booked by slot and counted in
\* VoteNumVotes is a vote of people: Enough is about the set of those who have voted.
Implements == Promise!Spec

-----------------------------------------------------------------------------
(* Statements of the repository that the code does not keep *)

\* A kick vote removes the player it was called on and nobody else.
KickHitsAccused ==
    [][\A i \in Slots : ballots' # ballots /\ active[i] /\ ~active'[i]
        => player[i] = accused]_vars

=============================================================================
