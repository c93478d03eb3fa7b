----------------------------- MODULE Voting_proofs -----------------------------
(***************************************************************************)
(* What holds of Voting for any number of people, slots and ticks.         *)
(*                                                                         *)
(* Ballots are booked by slot, so that a count of ballots is a count of    *)
(* people needs three facts beside the one to be proved: nobody sits in    *)
(* two slots, whoever has voted and still has a slot is marked there, and  *)
(* a newcomer has not voted before.                                        *)
(***************************************************************************)
EXTENDS Voting, FiniteSetTheorems, TLAPS

OneSlotEach == \A i, j \in Slots : player[i] = player[j] /\ player[i] \in Person => i = j
SeatedJoined == \A i \in Slots : player[i] \in Person => player[i] \in joined
Marked == vote.active => \A i \in Slots : player[i] \in ballots => vote.hasVoted[i]

\* The inductive invariant.
IInv ==
    /\ TypeOK
    /\ NoResidue
    /\ OneBallotEach
    /\ OneSlotEach
    /\ SeatedJoined
    /\ ballots \subseteq joined
    /\ Marked

-----------------------------------------------------------------------------
(* The operations keep the type of a vote. *)

LEMMA HumansCounted == Cardinality(Humans) \in Nat
<1>1. IsFiniteSet(Slots)
  BY SlotsAssumption, FS_Interval DEF Slots
<1>2. IsFiniteSet(Humans)
  BY <1>1, FS_Subset DEF Humans
<1> QED
  BY <1>2, FS_CardinalityType

LEMMA BallotsCounted == TypeOK => IsFiniteSet(ballots) /\ Cardinality(ballots) \in Nat
<1> SUFFICES ASSUME TypeOK PROVE IsFiniteSet(ballots) /\ Cardinality(ballots) \in Nat
  OBVIOUS
<1>1. IsFiniteSet(ballots)
  BY PersonAssumption, FS_Subset DEF TypeOK
<1> QED
  BY <1>1, FS_CardinalityType

LEMMA NoVoteType == NoVote \in Vote /\ ~NoVote.active
BY TimeAssumption DEF NoVote, Vote

LEMMA StartVoteType ==
    ASSUME vote \in Vote, NEW type \in {"map", "kick"}, NEW target \in MapsList \cup Slots
    PROVE  /\ StartVote(type, target) \in Vote
           /\ StartVote(type, target).active
           /\ StartVote(type, target).type = type
           /\ StartVote(type, target).target = target
           /\ StartVote(type, target).time = VotingTime
           /\ StartVote(type, target).num = 0
<1>1. VotingTime \in -1 .. VotingTime /\ vote.hasVoted \in [Slots -> BOOLEAN]
  BY TimeAssumption DEF Vote
<1> QED
  BY <1>1, HumansCounted DEF StartVote, Vote

\* timervote stops the vote or takes one tick from it.
LEMMA TimerVoteCases ==
    ASSUME NEW v \in Vote
    PROVE  /\ TimerVote(v) \in Vote
           /\ TimerVote(v) = NoVote \/ TimerVote(v) = v
              \/ TimerVote(v) = [v EXCEPT !.time = @ - 1]
           /\ ~v.active => TimerVote(v) = v
           /\ v.time # 1 => TimerVote(v).active = v.active
BY NoVoteType, TimeAssumption DEF TimerVote, StopVote, Vote

LEMMA CountedType ==
    ASSUME vote \in Vote, NEW i \in Slots
    PROVE  /\ Counted(i) \in Vote
           /\ Counted(i).active = vote.active
           /\ Counted(i).type = vote.type
           /\ Counted(i).target = vote.target
           /\ Counted(i).max = vote.max
           /\ Counted(i).num = vote.num + 1
           /\ Counted(i).hasVoted = [vote.hasVoted EXCEPT ![i] = TRUE]
<1> DEFINE more == [vote EXCEPT !.num = @ + 1]
<1> DEFINE marks == [vote.hasVoted EXCEPT ![i] = TRUE]
<1>1. more \in Vote
  BY DEF Vote
<1>2. marks \in [Slots -> BOOLEAN]
  BY DEF Vote
<1>3. [more EXCEPT !.hasVoted = marks] \in Vote
  <2> HIDE DEF more, marks
  <2> QED
    BY <1>1, <1>2 DEF Vote
<1>4. Counted(i) = [more EXCEPT !.hasVoted = marks]
  BY DEF Counted, Vote
<1> QED
  BY <1>3, <1>4 DEF Vote

-----------------------------------------------------------------------------
LEMMA InitIInv == Init => IInv
<1> SUFFICES ASSUME Init PROVE IInv
  OBVIOUS
<1>1. TypeOK
  BY NoVoteType, TimeAssumption DEF Init, TypeOK, Players
<1>2. OneSlotEach /\ SeatedJoined
  BY PersonAssumption DEF Init, OneSlotEach, SeatedJoined
<1>3. NoResidue /\ OneBallotEach /\ Marked
  BY NoVoteType DEF Init, NoResidue, OneBallotEach, Marked
<1> QED
  BY <1>1, <1>2, <1>3 DEF Init, IInv

\* A ballot is a new person's: a player that has voted is marked in its slot.
LEMMA NewBallot ==
    ASSUME IInv, NEW i \in Slots, player[i] \in Person, CountVote(i)
    PROVE  /\ ballots' = ballots \cup {player[i]}
           /\ Cardinality(ballots') = vote.num + 1
<1>1. player[i] \notin ballots
  BY DEF IInv, Marked, CountVote
<1>2. Cardinality(ballots) = vote.num
  BY DEF IInv, OneBallotEach, CountVote
<1>3. ballots' = ballots \cup {player[i]}
  BY DEF CountVote
<1>4. Cardinality(ballots') = Cardinality(ballots) + 1
  BY <1>1, <1>3, BallotsCounted, FS_AddElement DEF IInv
<1> QED
  BY <1>2, <1>3, <1>4

LEMMA CountVoteStep ==
    ASSUME IInv, NEW i \in Slots, player[i] \in Person, CountVote(i),
           phase' \in {"poll", "ticks"}
    PROVE  IInv'
<1> USE DEF IInv
<1>1. vote \in Vote /\ vote.active
  BY DEF TypeOK, CountVote
<1>2. player' = player /\ joined' = joined /\ ballots' = ballots \cup {player[i]}
  BY DEF CountVote
<1>3. player[i] \in joined
  BY DEF SeatedJoined
<1>4. ballots' \subseteq joined' /\ ballots' \subseteq Person
  BY <1>2, <1>3 DEF TypeOK
<1>5. OneSlotEach' /\ SeatedJoined'
  BY <1>2 DEF OneSlotEach, SeatedJoined
<1>6. CASE ~Passes(Counted(i)) /\ vote' = Counted(i) /\ UNCHANGED <<active, mapchange>>
  <2>1. TypeOK'
    BY <1>1, <1>4, <1>6, CountedType DEF CountVote, TypeOK
  <2>2. NoResidue' /\ OneBallotEach'
    BY <1>1, <1>6, NewBallot, CountedType DEF NoResidue, OneBallotEach
  <2>3. Marked'
    <3>1. ASSUME NEW j \in Slots, player[j] \in ballots' PROVE Counted(i).hasVoted[j]
      <4>1. Counted(i).hasVoted = [vote.hasVoted EXCEPT ![i] = TRUE]
            /\ vote.hasVoted \in [Slots -> BOOLEAN]
        BY <1>1, CountedType DEF Vote
      <4>2. j = i \/ player[j] \in ballots
        BY <1>2, <3>1 DEF OneSlotEach
      <4>3. j = i \/ vote.hasVoted[j]
        BY <1>1, <4>2 DEF Marked
      <4> QED
        BY <4>1, <4>3
    <3> QED
      BY <3>1, <1>2, <1>6 DEF Marked
  <2> QED
    BY <2>1, <2>2, <2>3, <1>4, <1>5
<1>7. CASE Passes(Counted(i))
  <2>1. vote' = NoVote
    BY <1>7 DEF CountVote, StopVote
  <2>2. active' \in [Slots -> BOOLEAN]
    BY <1>7 DEF CountVote, KickVoted, TypeOK
  <2>3. mapchange' \in MapsList \cup {NoMap}
    BY <1>1, <1>7 DEF CountVote, TypeOK
  <2>4. TypeOK'
    BY <2>1, <2>2, <2>3, <1>4, NoVoteType DEF CountVote, TypeOK
  <2>5. NoResidue' /\ OneBallotEach' /\ Marked'
    BY <2>1, NoVoteType DEF NoResidue, OneBallotEach, Marked
  <2> QED
    BY <2>4, <2>5, <1>4, <1>5
<1> QED
  BY <1>6, <1>7 DEF CountVote

\* What no vote and no ballot depends on.
LEMMA VoteUntouched ==
    ASSUME IInv, TypeOK', UNCHANGED <<vote, ballots>>, OneSlotEach', SeatedJoined',
           joined \subseteq joined',
           \A j \in Slots : player'[j] \in ballots => player'[j] = player[j]
    PROVE  IInv'
<1>1. NoResidue' /\ OneBallotEach'
  BY DEF IInv, NoResidue, OneBallotEach
<1>2. Marked'
  BY DEF IInv, Marked
<1> QED
  BY <1>1, <1>2 DEF IInv

LEMMA NothingDoneStep ==
    ASSUME IInv, NothingDone, phase' \in {"poll", "ticks"} PROVE IInv'
<1>1. TypeOK'
  BY DEF IInv, TypeOK, NothingDone, sprvars, hisvars
<1>2. OneSlotEach' /\ SeatedJoined' /\ player' = player /\ joined' = joined
  BY DEF IInv, OneSlotEach, SeatedJoined, NothingDone, sprvars, hisvars
<1> QED
  BY <1>1, <1>2, VoteUntouched DEF NothingDone, hisvars

LEMMA StartMapVoteStep ==
    ASSUME IInv, NEW i \in Slots, NEW name \in MapsList, StartMapVote(i, name),
           phase' \in {"poll", "ticks"}
    PROVE  IInv'
<1> USE DEF IInv
<1>1. vote' \in Vote /\ vote'.active /\ vote'.type = "map" /\ vote'.target = name /\ vote'.num = 0
  BY StartVoteType DEF StartMapVote, TypeOK
<1>2. VoteCooldown' \in [Slots -> -1 .. VoteTime] /\ waited' \in [Slots -> 0 .. VoteTime + 1]
  BY TimeAssumption DEF StartMapVote, ResetVoteCooldown, TypeOK
<1>3. TypeOK'
  BY <1>1, <1>2 DEF StartMapVote, TypeOK, sprvars, Players
<1>4. NoResidue' /\ OneBallotEach' /\ Marked'
  BY <1>1, FS_EmptySet DEF StartMapVote, NoResidue, OneBallotEach, Marked
<1>5. OneSlotEach' /\ SeatedJoined'
  BY DEF StartMapVote, sprvars, OneSlotEach, SeatedJoined
<1> QED
  BY <1>3, <1>4, <1>5 DEF StartMapVote

LEMMA HandleLeaveStep ==
    ASSUME IInv, NEW i \in Slots, HandleLeave(i) PROVE IInv'
<1> USE DEF IInv
<1>0. phase' \in {"poll", "ticks"}
  BY DEF HandleLeave, Handled
<1>1. CASE vote' = StopVote /\ UNCHANGED player /\ KickVoted(i)
  <2>1. active' \in [Slots -> BOOLEAN]
    BY <1>1 DEF KickVoted, TypeOK
  <2>2. TypeOK'
    BY <1>0, <1>1, <2>1, NoVoteType DEF HandleLeave, hisvars, StopVote, TypeOK
  <2>3. NoResidue' /\ OneBallotEach' /\ Marked'
    BY <1>1, NoVoteType DEF StopVote, NoResidue, OneBallotEach, Marked
  <2>4. OneSlotEach' /\ SeatedJoined'
    BY <1>1 DEF HandleLeave, OneSlotEach, SeatedJoined
  <2> QED
    BY <2>2, <2>3, <2>4 DEF HandleLeave, hisvars
<1>2. CASE /\ active' = [active EXCEPT ![i] = FALSE]
           /\ player' = [player EXCEPT ![i] = Nobody]
           /\ UNCHANGED vote
  <2>1. TypeOK'
    BY <1>0, <1>2 DEF HandleLeave, hisvars, TypeOK, Players
  <2>2. OneSlotEach' /\ SeatedJoined'
    BY <1>2, PersonAssumption DEF HandleLeave, TypeOK, OneSlotEach, SeatedJoined
  <2>3. \A j \in Slots : player'[j] \in ballots => player'[j] = player[j]
    BY <1>2, PersonAssumption DEF TypeOK
  <2> QED
    BY <1>2, <2>1, <2>2, <2>3, VoteUntouched DEF HandleLeave, hisvars
<1> QED
  BY <1>1, <1>2 DEF HandleLeave

LEMMA HandleJoinStep ==
    ASSUME IInv, NEW p \in Person, NEW i \in Slots, HandleJoin(p, i) PROVE IInv'
<1> USE DEF IInv
<1>1. player' = [player EXCEPT ![i] = p] /\ joined' = joined \cup {p} /\ p \notin joined
  BY DEF HandleJoin
<1>2. VoteCooldown' \in [Slots -> -1 .. VoteTime] /\ waited' \in [Slots -> 0 .. VoteTime + 1]
  BY TimeAssumption DEF HandleJoin, ResetVoteCooldown, TypeOK
<1>3. TypeOK'
  BY <1>1, <1>2 DEF HandleJoin, Handled, hisvars, TypeOK, Players
<1>4. OneSlotEach' /\ SeatedJoined'
  BY <1>1 DEF TypeOK, OneSlotEach, SeatedJoined
<1>5. \A j \in Slots : player'[j] \in ballots => player'[j] = player[j]
  BY <1>1 DEF TypeOK
<1> QED
  BY <1>1, <1>3, <1>4, <1>5, VoteUntouched DEF HandleJoin, hisvars

LEMMA SpriteGoneStep ==
    ASSUME IInv, NEW i \in Slots, SpriteGone(i) PROVE IInv'
<1> USE DEF IInv
<1>1. player' = [player EXCEPT ![i] = Nobody] \/ player' = player
  BY DEF SpriteGone
<1>2. TypeOK'
  BY <1>1 DEF SpriteGone, hisvars, TypeOK, Players
<1>3. OneSlotEach' /\ SeatedJoined'
  BY <1>1, PersonAssumption DEF SpriteGone, TypeOK, OneSlotEach, SeatedJoined
<1>4. \A j \in Slots : player'[j] \in ballots => player'[j] = player[j]
  BY <1>1, PersonAssumption DEF TypeOK
<1> QED
  BY <1>2, <1>3, <1>4, VoteUntouched DEF SpriteGone, hisvars

LEMMA AddBotPlayerStep ==
    ASSUME IInv, NEW i \in Slots, AddBotPlayer(i) PROVE IInv'
<1> USE DEF IInv
<1>1. player' = [player EXCEPT ![i] = Bot]
  BY DEF AddBotPlayer
<1>2. TypeOK'
  BY <1>1 DEF AddBotPlayer, hisvars, TypeOK, Players
<1>3. OneSlotEach' /\ SeatedJoined'
  BY <1>1, PersonAssumption DEF AddBotPlayer, TypeOK, OneSlotEach, SeatedJoined
<1>4. \A j \in Slots : player'[j] \in ballots => player'[j] = player[j]
  BY <1>1, PersonAssumption DEF TypeOK
<1> QED
  BY <1>2, <1>3, <1>4, VoteUntouched DEF AddBotPlayer, hisvars

\* A frame takes a tick from a vote, old or just called by the mass-flag detector.
LEMMA FrameStep == IInv /\ Frame => IInv'
<1> SUFFICES ASSUME IInv, Frame PROVE IInv'
  OBVIOUS
<1> USE DEF IInv
<1>1. phase' \in {"poll", "ticks"} /\ player' = player /\ active' = active
      /\ mapchange' = mapchange /\ joined' = joined
  BY DEF Frame, sprvars, TypeOK
<1>2. VoteCooldown' \in [Slots -> -1 .. VoteTime] /\ waited' \in [Slots -> 0 .. VoteTime + 1]
  BY TimeAssumption DEF Frame, TickVote, TypeOK
<1>3. OneSlotEach' /\ SeatedJoined'
  BY <1>1 DEF OneSlotEach, SeatedJoined
<1>4. CASE vote' = TimerVote(vote) /\ UNCHANGED <<hisvars, detections>>
  <2>1. vote' \in Vote /\ (vote' = NoVote \/ vote' = vote \/ vote' = [vote EXCEPT !.time = @ - 1])
        /\ (~vote.active => vote' = vote)
    BY <1>4, TimerVoteCases DEF TypeOK
  <2>2. CASE vote' = NoVote
    BY <1>1, <1>2, <1>3, <1>4, <2>1, <2>2, NoVoteType
       DEF hisvars, TypeOK, NoResidue, OneBallotEach, Marked
  <2>3. CASE vote' = vote
    BY <1>1, <1>2, <1>3, <1>4, <2>3, VoteUntouched DEF hisvars, TypeOK
  <2>4. CASE vote' = [vote EXCEPT !.time = @ - 1] /\ vote.active
    <3>1. vote'.active /\ vote'.type = vote.type /\ vote'.target = vote.target
          /\ vote'.num = vote.num /\ vote'.hasVoted = vote.hasVoted
      BY <2>4 DEF TypeOK, Vote
    <3>2. TypeOK'
      BY <1>1, <1>2, <1>4, <2>1, <2>4, <3>1 DEF hisvars, TypeOK
    <3>3. NoResidue' /\ OneBallotEach' /\ Marked'
      BY <1>1, <1>4, <2>4, <3>1 DEF hisvars, NoResidue, OneBallotEach, Marked
    <3> QED
      BY <1>1, <1>3, <1>4, <3>2, <3>3 DEF hisvars
  <2> QED
    BY <2>1, <2>2, <2>3, <2>4
<1>5. ASSUME NEW last \in Slots, vote' = TimerVote(StartVote("kick", last)),
             ballots' = {}, accused' = player[last], detections' = detections + 1
      PROVE IInv'
  <2> DEFINE called == StartVote("kick", last)
  <2>1. called \in Vote /\ called.active /\ called.type = "kick" /\ called.target = last
        /\ called.num = 0 /\ called.time = VotingTime
    BY StartVoteType DEF TypeOK
  <2>2. vote' \in Vote /\ vote'.active
        /\ (vote' = NoVote \/ vote' = called \/ vote' = [called EXCEPT !.time = @ - 1])
    <3> HIDE DEF called
    <3> QED
      BY <1>5, <2>1, TimerVoteCases, TimeAssumption DEF called
  <2>3. vote'.type = "kick" /\ vote'.target = last /\ vote'.num = 0
    <3> HIDE DEF called
    <3> QED
      BY <2>1, <2>2, NoVoteType DEF Vote
  <2>4. TypeOK'
    BY <1>1, <1>2, <1>5, <2>2, <2>3 DEF TypeOK
  <2>5. NoResidue' /\ OneBallotEach' /\ Marked'
    BY <1>5, <2>2, <2>3, FS_EmptySet DEF NoResidue, OneBallotEach, Marked
  <2> QED
    BY <1>1, <1>3, <1>5, <2>4, <2>5
<1> QED
  BY <1>4, <1>5 DEF Frame

-----------------------------------------------------------------------------
LEMMA StepIInv == IInv /\ [Next]_vars => IInv'
<1> SUFFICES ASSUME IInv, [Next]_vars PROVE IInv'
  OBVIOUS
<1>1. CASE NoMessage
  BY <1>1, NothingDoneStep DEF NoMessage, Handled
<1>2. ASSUME NEW i \in Slots, NEW num \in Slots, HandleVoteKick(i, num) PROVE IInv'
  BY <1>2, CountVoteStep, NothingDoneStep DEF HandleVoteKick, MessageOf, Handled
<1>3. ASSUME NEW i \in Slots, NEW name \in MapsList \cup Slots, HandleVoteMap(i, name) PROVE IInv'
  BY <1>3, CountVoteStep, StartMapVoteStep, NothingDoneStep
     DEF HandleVoteMap, MapVoteStarts, MessageOf, Handled
<1>4. ASSUME NEW i \in Slots, HandleLeave(i) PROVE IInv'
  BY <1>4, HandleLeaveStep
<1>5. ASSUME NEW p \in Person, NEW i \in Slots, HandleJoin(p, i) PROVE IInv'
  BY <1>5, HandleJoinStep
<1>6. ASSUME NEW i \in Slots, SpriteGone(i) PROVE IInv'
  BY <1>6, SpriteGoneStep
<1>7. ASSUME NEW i \in Slots, AddBotPlayer(i) PROVE IInv'
  BY <1>7, AddBotPlayerStep
<1>8. CASE Frame
  BY <1>8, FrameStep
<1>9. CASE NextPoll
  BY <1>9, NothingDoneStep DEF NextPoll
<1>10. CASE UNCHANGED vars
  BY <1>10, NothingDoneStep DEF vars, NothingDone, IInv, TypeOK
<1> QED
  BY <1>1, <1>2, <1>3, <1>4, <1>5, <1>6, <1>7, <1>8, <1>9, <1>10
     DEF Next, ProcessLoop, HandleMessage

LEMMA Inductive == Spec => []IInv
BY InitIInv, StepIInv, PTL DEF Spec

\* The types of the voting variables are correct, whatever the number of people,
\* slots and maps and whatever the times and the percentage.
THEOREM TypeCorrect == Spec => []TypeOK
BY Inductive, PTL DEF IInv

\* stopvote and timervote leave nothing of a vote to the next one.
THEOREM NothingLeft == Spec => []NoResidue
BY Inductive, PTL DEF IInv

\* VoteNumVotes counts people, though ballots are booked by slot.
THEOREM PeopleCounted == Spec => []OneBallotEach
BY Inductive, PTL DEF IInv

-----------------------------------------------------------------------------
\* countvote decides only with the ballots sv_votepercent asks for.
THEOREM Backed == Spec => DecisionBacked
<1> DEFINE Ended == vote.active /\ ~vote'.active /\ ~Frame /\ (\A i \in Slots : ~HandleLeave(i))
<1>1. IInv /\ [Next]_vars => [Ended => Cardinality(ballots') * 100 >= VotePercent * vote.max]_vars
  <2> SUFFICES ASSUME IInv, Next, Ended
               PROVE  Cardinality(ballots') * 100 >= VotePercent * vote.max
    OBVIOUS
  <2> USE DEF IInv
  <2>1. ASSUME NEW i \in Slots, player[i] \in Person, CountVote(i)
        PROVE  Cardinality(ballots') * 100 >= VotePercent * vote.max
    <3>1. vote \in Vote
      BY DEF TypeOK
    <3>2. Passes(Counted(i))
      BY <2>1, <3>1, CountedType DEF CountVote
    <3>3. Counted(i).num = vote.num + 1 /\ Counted(i).max = vote.max
      BY <3>1, CountedType
    <3>4. Cardinality(ballots') = vote.num + 1
      BY <2>1, NewBallot
    <3> QED
      BY <3>2, <3>3, <3>4 DEF Passes
  <2>2. ~NothingDone
    BY DEF NothingDone
  <2>3. \A i \in Slots : ~SpriteGone(i) /\ ~AddBotPlayer(i)
    BY DEF SpriteGone, AddBotPlayer
  <2>4. \A p \in Person, i \in Slots : ~HandleJoin(p, i)
    BY DEF HandleJoin
  <2>5. \A i \in Slots, name \in MapsList : ~StartMapVote(i, name)
    BY StartVoteType DEF StartMapVote, TypeOK
  <2>6. \A i \in Slots, num \in Slots : HandleVoteKick(i, num) => player[i] \in Person /\ CountVote(i)
    BY <2>2 DEF HandleVoteKick, MessageOf
  <2>7. \A i \in Slots, name \in MapsList \cup Slots :
          HandleVoteMap(i, name) => player[i] \in Person /\ CountVote(i)
    BY <2>2, <2>5 DEF HandleVoteMap, MapVoteStarts, MessageOf
  <2> QED
    BY <2>1, <2>2, <2>3, <2>4, <2>5, <2>6, <2>7
       DEF Next, ProcessLoop, HandleMessage, NoMessage, NextPoll
<1> QED
  BY <1>1, Inductive, PTL DEF Spec, DecisionBacked

-----------------------------------------------------------------------------
(* VoteCooldown goes down as fast as the waiting time goes up. *)

WaitCovers ==
    \A i \in Slots : player[i] \in Person => waited[i] + VoteCooldown[i] >= VoteTime

LEMMA WaitStep == IInv /\ WaitCovers /\ [Next]_vars => WaitCovers'
<1> SUFFICES ASSUME TypeOK, WaitCovers, [Next]_vars PROVE WaitCovers'
  BY DEF IInv
<1> USE TimeAssumption
<1>1. ASSUME UNCHANGED <<VoteCooldown, waited>>,
             \A j \in Slots : player'[j] \in Person => player'[j] = player[j]
      PROVE  WaitCovers'
  BY <1>1 DEF WaitCovers
<1>2. CASE NothingDone \/ UNCHANGED vars
  BY <1>1, <1>2 DEF NothingDone, vars, sprvars
<1>3. ASSUME NEW i \in Slots, CountVote(i) PROVE WaitCovers'
  BY <1>1, <1>3 DEF CountVote
<1>4. ASSUME NEW i \in Slots, NEW name \in MapsList, StartMapVote(i, name) PROVE WaitCovers'
  BY <1>4 DEF StartMapVote, ResetVoteCooldown, sprvars, WaitCovers, TypeOK
<1>5. ASSUME NEW i \in Slots, HandleLeave(i) \/ SpriteGone(i) PROVE WaitCovers'
  <2>1. \A j \in Slots : player'[j] \in Person => player'[j] = player[j]
    BY <1>5, PersonAssumption DEF HandleLeave, SpriteGone, TypeOK
  <2> QED
    BY <1>1, <1>5, <2>1 DEF HandleLeave, SpriteGone
<1>6. ASSUME NEW i \in Slots, AddBotPlayer(i) PROVE WaitCovers'
  <2>1. \A j \in Slots : player'[j] \in Person => player'[j] = player[j]
    BY <1>6, PersonAssumption DEF AddBotPlayer, TypeOK
  <2> QED
    BY <1>1, <1>6, <2>1 DEF AddBotPlayer
<1>7. ASSUME NEW p \in Person, NEW i \in Slots, HandleJoin(p, i) PROVE WaitCovers'
  BY <1>7 DEF HandleJoin, ResetVoteCooldown, WaitCovers, TypeOK
<1>8. CASE Frame
  BY <1>8 DEF Frame, TickVote, sprvars, WaitCovers, TypeOK
<1> QED
  BY <1>2, <1>3, <1>4, <1>5, <1>6, <1>7, <1>8
     DEF Next, ProcessLoop, HandleMessage, NoMessage, NextPoll, HandleVoteKick,
         HandleVoteMap, MapVoteStarts

\* Nobody starts a map vote before default_vote_time has passed since the player
\* joined and since its last vote, though VoteCooldown belongs to the slot.
THEOREM Waited == Spec => Patience
<1>1. Init => WaitCovers
  BY PersonAssumption DEF Init, WaitCovers
<1>2. TypeOK /\ WaitCovers /\ [Next]_vars
      => [\A i \in Slots, name \in MapsList :
            HandleVoteMap(i, name) /\ MapVoteStarts(i, name) => waited[i] >= VoteTime]_vars
  BY TimeAssumption DEF HandleVoteMap, MessageOf, MapVoteStarts, CanVote, WaitCovers, TypeOK
<1> QED
  BY <1>1, <1>2, WaitStep, Inductive, PTL DEF Spec, Patience, IInv

\* countvote and the farewell of somebody else never remove an admin's sprite.
THEOREM AdminsKept == Spec => AdminsStay
<1>1. TypeOK /\ [Next]_vars
      => [\A i \in Slots : HandleMessage /\ vote.active /\ active[i] /\ player[i] \in Admins
            /\ ~HandleLeave(i) => active'[i]]_vars
  <2> SUFFICES ASSUME TypeOK, NEW i \in Slots, HandleMessage, vote.active, active[i],
                      player[i] \in Admins, ~HandleLeave(i)
               PROVE  active'[i]
    OBVIOUS
  <2>1. \A j : KickVoted(j) => active'[i]
    BY DEF KickVoted, TypeOK
  <2>2. \A j : CountVote(j) => active'[i]
    BY <2>1 DEF CountVote
  <2>3. NothingDone => active'[i]
    BY DEF NothingDone, sprvars
  <2>4. \A j, num \in Slots : HandleVoteKick(j, num) => active'[i]
    BY <2>2, <2>3 DEF HandleVoteKick
  <2>5. \A j \in Slots, name \in MapsList \cup Slots : HandleVoteMap(j, name) => active'[i]
    BY <2>2, <2>3 DEF HandleVoteMap, StartMapVote, sprvars
  <2>6. \A j \in Slots : HandleLeave(j) => active'[i]
    BY <2>1 DEF HandleLeave, TypeOK
  <2>7. \A p \in Person, j \in Slots : HandleJoin(p, j) => active'[i]
    BY DEF HandleJoin, TypeOK
  <2> QED
    BY <2>4, <2>5, <2>6, <2>7 DEF HandleMessage
<1> QED
  BY <1>1, TypeCorrect, PTL DEF Spec, AdminsStay

-----------------------------------------------------------------------------
(* Voting implements Poll. *)

\* timervote stops a vote on its last tick, so a running vote has one left.
Timed == vote.active => vote.time >= 1

LEMMA TimedStep == IInv /\ Timed /\ [Next]_vars => Timed'
<1> SUFFICES ASSUME TypeOK, Timed, [Next]_vars PROVE Timed'
  BY DEF IInv
<1> USE TimeAssumption
<1>1. vote \in Vote
  BY DEF TypeOK
<1>2. ASSUME UNCHANGED vote PROVE Timed'
  BY <1>2 DEF Timed
<1>3. ASSUME vote' = NoVote PROVE Timed'
  BY <1>3, NoVoteType DEF Timed
<1>4. ASSUME NEW i \in Slots, CountVote(i) PROVE Timed'
  <2>1. Counted(i).time = vote.time
    BY <1>1 DEF Counted, Vote
  <2> QED
    BY <1>3, <1>4, <2>1 DEF CountVote, StopVote, Timed
<1>5. ASSUME NEW i \in Slots, NEW name \in MapsList, StartMapVote(i, name) PROVE Timed'
  BY <1>1, <1>5, StartVoteType DEF StartMapVote, Timed
<1>6. ASSUME NEW i \in Slots, HandleLeave(i) PROVE Timed'
  BY <1>2, <1>3, <1>6 DEF HandleLeave, StopVote
<1>7. ASSUME NEW v \in Vote, v.active => v.time >= 1, vote' = TimerVote(v) PROVE Timed'
  BY <1>7, NoVoteType DEF TimerVote, StopVote, Vote, Timed
<1>8. CASE Frame
  <2>1. \A last \in Slots : /\ StartVote("kick", last) \in Vote
                            /\ StartVote("kick", last).time = VotingTime
    BY <1>1, StartVoteType
  <2>2. ASSUME NEW last \in Slots, vote' = TimerVote(StartVote("kick", last)) PROVE Timed'
    BY <1>7, <2>1, <2>2
  <2>3. ASSUME vote' = TimerVote(vote) PROVE Timed'
    BY <1>1, <1>7, <2>3 DEF Timed
  <2> QED
    BY <1>8, <2>2, <2>3 DEF Frame
<1> QED
  BY <1>2, <1>4, <1>5, <1>6, <1>8
     DEF Next, vars, ProcessLoop, HandleMessage, NoMessage, NextPoll, NothingDone,
         HandleVoteKick, HandleVoteMap, MapVoteStarts, HandleJoin, SpriteGone, AddBotPlayer

LEMMA AlwaysTimed == Spec => []Timed
<1>1. Init => Timed
  BY NoVoteType DEF Init, Timed
<1> QED
  BY <1>1, TimedStep, Inductive, PTL DEF Spec

\* countvote, joins and farewells leave a running vote its time or end it, and
\* timervote takes a tick from it: without the detector a vote has at most
\* default_voting_time frames, whatever people do (the half of VoteEnds that is safety).
THEOREM TimeRunsOut == Spec => NeverProlonged
<1>1. IInv /\ Timed /\ [Next]_vars
      => [vote.active /\ vote'.active /\ detections' = detections
           => vote'.time <= vote.time /\ (Frame => vote'.time < vote.time)]_vars
  <2> SUFFICES ASSUME IInv, Timed, Next, vote.active, vote'.active, detections' = detections
               PROVE  vote'.time <= vote.time /\ (Frame => vote'.time < vote.time)
    OBVIOUS
  <2> TypeOK /\ TypeOK'
    BY StepIInv DEF IInv
  <2>1. vote \in Vote /\ vote.time \in Int /\ detections \in Int
    BY DEF TypeOK, Vote
  <2>2. Frame => vote'.time < vote.time
    <3> SUFFICES ASSUME Frame PROVE vote'.time < vote.time
      OBVIOUS
    <3>1. vote' = TimerVote(vote)
      BY <2>1 DEF Frame
    <3>2. vote' = [vote EXCEPT !.time = @ - 1]
      BY <2>1, <3>1, NoVoteType DEF Timed, TimerVote, StopVote
    <3> QED
      BY <2>1, <3>2 DEF Vote
  <2>3. \A i \in Slots : CountVote(i) => vote'.time = vote.time
    <3> SUFFICES ASSUME NEW i \in Slots, CountVote(i) PROVE vote'.time = vote.time
      OBVIOUS
    <3>1. vote' = Counted(i)
      BY NoVoteType DEF CountVote, StopVote
    <3> QED
      BY <2>1, <3>1 DEF Counted, Vote
  <2>4. UNCHANGED vote => vote'.time <= vote.time
    BY <2>1
  <2>5. \A i \in Slots : HandleLeave(i) => UNCHANGED vote
    BY NoVoteType DEF HandleLeave, StopVote
  <2> DEFINE NotMore == vote'.time <= vote.time
  <2>6. NothingDone => NotMore
    BY <2>4 DEF NothingDone
  <2>7. \A i, num \in Slots : HandleVoteKick(i, num) => NotMore
    BY <2>1, <2>3, <2>6 DEF HandleVoteKick
  <2>8. \A i \in Slots, name \in MapsList \cup Slots : HandleVoteMap(i, name) => NotMore
    BY <2>1, <2>3, <2>6 DEF HandleVoteMap, MapVoteStarts
  <2>9. \A p \in Person, i \in Slots : HandleJoin(p, i) => NotMore
    BY <2>4 DEF HandleJoin
  <2>10. \A i \in Slots : SpriteGone(i) \/ AddBotPlayer(i) => NotMore
    BY <2>4 DEF SpriteGone, AddBotPlayer
  <2>11. Frame => NotMore
    <3>1. vote' \in Vote
      BY DEF TypeOK
    <3>2. vote'.time \in Int
      BY <3>1 DEF Vote
    <3> QED
      BY <2>1, <2>2, <3>2
  <2>12. NotMore
    <3> HIDE DEF NotMore
    <3> QED
      BY <2>4, <2>5, <2>6, <2>7, <2>8, <2>9, <2>10, <2>11
         DEF Next, ProcessLoop, HandleMessage, NoMessage, NextPoll, NotMore
  <2> QED
    BY <2>2, <2>12
<1> QED
  BY <1>1, Inductive, AlwaysTimed, PTL DEF Spec, NeverProlonged

\* A question is asked exactly while a vote runs.
LEMMA OpenIsActive == IInv => (Promise!Open <=> vote.active)
<1> SUFFICES ASSUME IInv PROVE vote.target # NoMap <=> vote.active
  BY DEF Promise!Open
<1>1. vote.active => vote.target # NoMap
  BY MapsAssumption DEF IInv, TypeOK
<1>2. ~vote.active => vote.target = NoMap
  BY DEF IInv, NoResidue, NoVote
<1> QED
  BY <1>1, <1>2

LEMMA StopCloses == vote' = NoVote => Promise!Closed
BY DEF NoVote, Promise!Closed

\* Whatever leaves the vote, its ballots and mapchange alone is no step of the poll.
LEMMA PollStutters ==
    ASSUME UNCHANGED <<vote, ballots, mapchange>>
    PROVE  UNCHANGED Promise!vars
BY DEF Promise!vars

LEMMA InitPoll == Init => Promise!Init
BY DEF Init, NoVote, Promise!Init

\* A ballot is cast, and decides when it makes the share.
LEMMA CountVotePolls ==
    ASSUME IInv, NEW i \in Slots, player[i] \in Person, CountVote(i)
    PROVE  Promise!Next
<1> DEFINE p == player[i]
<1>1. vote \in Vote /\ vote.active /\ Promise!Open
  BY OpenIsActive DEF IInv, TypeOK, CountVote
<1>2. p \notin ballots /\ ballots' = ballots \cup {p} /\ Cardinality(ballots \cup {p}) = vote.num + 1
  BY NewBallot DEF IInv, Marked, CountVote
<1>3. Promise!Enough(ballots \cup {p}) <=> Passes(Counted(i))
  <2>1. Counted(i).num = vote.num + 1 /\ Counted(i).max = vote.max
    BY <1>1, CountedType
  <2> QED
    BY <1>2, <2>1 DEF Passes, Promise!Enough, Promise!Cardinality, Cardinality
<1>4. CASE ~Passes(Counted(i))
  <2>1. vote' = Counted(i) /\ mapchange' = mapchange
    BY <1>4 DEF CountVote
  <2>2. vote'.active /\ vote'.target = vote.target /\ vote'.max = vote.max
    BY <1>1, <2>1, CountedType
  <2>3. vote'.time = vote.time
    BY <1>1, <2>1 DEF Counted, Vote
  <2>4. Promise!Cast(p)
    BY <1>1, <1>2, <1>3, <1>4, <2>1, <2>2, <2>3 DEF Promise!Cast
  <2> QED
    BY <2>4 DEF Promise!Next
<1>5. CASE Passes(Counted(i))
  <2>1. vote' = NoVote
    BY <1>5 DEF CountVote, StopVote
  <2>2. mapchange' \in {mapchange} \cup (MapsList \cap {vote.target})
    BY <1>1, <1>5 DEF CountVote, IInv, TypeOK
  <2>3. Promise!Decide(p)
    BY <1>1, <1>2, <1>3, <1>5, <2>1, <2>2, StopCloses DEF Promise!Decide
  <2> QED
    BY <2>3 DEF Promise!Next
<1> QED
  BY <1>4, <1>5

LEMMA StartMapVotePolls ==
    ASSUME IInv, NEW i \in Slots, NEW name \in MapsList, StartMapVote(i, name), ~vote.active
    PROVE  Promise!Next
<1>1. vote' = StartVote("map", name) /\ ballots' = {} /\ mapchange' = mapchange
  BY DEF StartMapVote
<1>2. vote'.target = name /\ vote'.time = VotingTime /\ vote'.max \in Nat
  BY <1>1, HumansCounted DEF StartVote
<1>3. Promise!Call(name)
  BY <1>1, <1>2, OpenIsActive DEF Promise!Call
<1> QED
  BY <1>3 DEF Promise!Next

\* The farewell of the target withdraws the question; any other is no step of the poll.
LEMMA HandleLeavePolls ==
    ASSUME IInv, NEW i \in Slots, HandleLeave(i)
    PROVE  [Promise!Next]_Promise!vars
<1>1. UNCHANGED <<ballots, mapchange>>
  BY DEF HandleLeave, hisvars
<1>2. CASE UNCHANGED vote
  BY <1>1, <1>2, PollStutters
<1>3. CASE vote.active /\ vote.target = i /\ vote' = StopVote
  <2>1. Promise!Withdraw
    BY <1>1, <1>3, StopCloses DEF StopVote, Promise!Withdraw
  <2> QED
    BY <2>1 DEF Promise!Next
<1> QED
  BY <1>2, <1>3 DEF HandleLeave

\* A frame takes a tick from the question, ends its time, or is the detector's.
LEMMA FramePolls ==
    ASSUME IInv, Timed, Frame
    PROVE  [Promise!Next]_Promise!vars
<1> USE TimeAssumption
<1>1. vote \in Vote /\ mapchange' = mapchange
  BY DEF IInv, TypeOK, Frame
<1>2. CASE vote' = TimerVote(vote) /\ ballots' = ballots
  <2>1. CASE ~vote.active
    <3>1. vote' = vote
      BY <1>1, <1>2, <2>1, TimerVoteCases
    <3> QED
      BY <1>1, <1>2, <3>1, PollStutters
  <2>2. CASE vote.active /\ vote.time = 1
    <3>1. vote' = NoVote
      BY <1>2, <2>2 DEF TimerVote, StopVote
    <3>2. Promise!Lapse
      BY <1>1, <1>2, <2>2, <3>1, OpenIsActive, StopCloses DEF Promise!Lapse
    <3> QED
      BY <3>2 DEF Promise!Next
  <2>3. CASE vote.active /\ vote.time # 1
    <3>1. vote.time \in Int /\ vote.time > 1
      BY <1>1, <2>3 DEF Timed, Vote
    <3>2. vote' = [vote EXCEPT !.time = @ - 1]
      BY <1>2, <2>3, <3>1 DEF TimerVote
    <3>3. /\ vote'.active /\ vote'.target = vote.target /\ vote'.max = vote.max
          /\ vote'.time = vote.time - 1
      BY <1>1, <2>3, <3>2 DEF Vote
    <3>4. Promise!Tick
      BY <1>1, <1>2, <2>3, <3>1, <3>3, OpenIsActive DEF Promise!Tick
    <3> QED
      BY <3>4 DEF Promise!Next
  <2> QED
    BY <2>1, <2>2, <2>3
<1>3. ASSUME NEW last \in Slots, vote' = TimerVote(StartVote("kick", last)), ballots' = {}
      PROVE  Promise!Next
  <2> DEFINE called == StartVote("kick", last)
  <2>1. called \in Vote /\ called.active /\ called.target = last /\ called.time = VotingTime
        /\ called.max \in Nat
    BY <1>1, StartVoteType DEF Vote
  <2> HIDE DEF called
  <2>2. vote' = [called EXCEPT !.time = @ - 1]
    BY <1>3, <2>1 DEF TimerVote, called
  <2>3. vote'.target = last /\ vote'.time = VotingTime - 1 /\ vote'.max \in Nat
    BY <2>1, <2>2 DEF Vote
  <2>4. Promise!Call(last)
    BY <1>1, <1>3, <2>3 DEF Promise!Call
  <2> QED
    BY <2>4 DEF Promise!Next
<1> QED
  BY <1>2, <1>3 DEF Frame, hisvars

LEMMA StepPolls == IInv /\ Timed /\ [Next]_vars => [Promise!Next]_Promise!vars
<1> SUFFICES ASSUME IInv, Timed, [Next]_vars PROVE [Promise!Next]_Promise!vars
  OBVIOUS
<1>1. CASE NothingDone \/ UNCHANGED vars
  BY <1>1, PollStutters DEF NothingDone, vars, hisvars
<1>2. ASSUME NEW i \in Slots, NEW num \in Slots, HandleVoteKick(i, num), ~NothingDone
      PROVE  Promise!Next
  BY <1>2, CountVotePolls DEF HandleVoteKick, MessageOf
<1>3. ASSUME NEW i \in Slots, NEW name \in MapsList \cup Slots, HandleVoteMap(i, name), ~NothingDone
      PROVE  Promise!Next
  BY <1>3, CountVotePolls, StartMapVotePolls DEF HandleVoteMap, MapVoteStarts, MessageOf
<1>4. ASSUME NEW i \in Slots, HandleLeave(i) PROVE [Promise!Next]_Promise!vars
  BY <1>4, HandleLeavePolls
<1>5. ASSUME NEW i \in Slots, SpriteGone(i) \/ AddBotPlayer(i) \/ \E p \in Person : HandleJoin(p, i)
      PROVE  UNCHANGED Promise!vars
  BY <1>5, PollStutters DEF SpriteGone, AddBotPlayer, HandleJoin, hisvars
<1>6. CASE Frame
  BY <1>6, FramePolls
<1> QED
  BY <1>1, <1>2, <1>3, <1>4, <1>5, <1>6
     DEF Next, ProcessLoop, HandleMessage, NoMessage, NextPoll

\* However slots change hands, the server's votes are polls: decided at once by the
\* ballots of enough different people, about what was asked, and ended otherwise only
\* by time or by the farewell of the accused.
THEOREM VotingImplementsPoll == Spec => Implements
BY InitPoll, StepPolls, Inductive, AlwaysTimed, PTL DEF Spec, Implements, Promise!Spec

=============================================================================
