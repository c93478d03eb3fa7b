---------------------------- MODULE MapChange_proofs ----------------------------
(***************************************************************************)
(* What holds of MapChange for any people, maps, limits and times.         *)
(*                                                                         *)
(* The types hold whatever the admin does.  That a map change leaves its   *)
(* mapchangetime frames, and that nobody plays on past the point limit,    *)
(* holds as long as the admin keeps out of it (MaxCommands = 0): /unpause  *)
(* takes 60 from the counter whatever it counts.  That a game somebody's   *)
(* move brings to an end has been won holds of teams, whatever the admin   *)
(* does; of players it does not hold.                                      *)
(***************************************************************************)
EXTENDS MapChange, FiniteSetTheorems, WellFoundedInduction, TLAPS

LEMMA SmallestElement ==
    ASSUME NEW T \in SUBSET Nat, T # {} PROVE \E k \in T : \A j \in T : k <= j
<1> DEFINE Less == {ss \in Nat \X Nat : ss[1] < ss[2]}
<1>1. IsWellFoundedOn(Less, Nat)
  BY NatLessThanWellFounded DEF OpToRel
<1>2. \E k \in T : \A j \in T : <<j, k>> \notin Less
  <2> HIDE DEF Less
  <2> QED
    BY <1>1, WFMin
<1>3. PICK k \in T : \A j \in T : <<j, k>> \notin Less
  BY <1>2
<1>4. ASSUME NEW j \in T PROVE k <= j
  <2>1. ~(j < k)
    BY <1>3
  <2> QED
    BY <2>1
<1> QED
  BY <1>4

-----------------------------------------------------------------------------
(* The operations keep the type of a game and leave alone what is not theirs. *)

LEMMA Update ==
    ASSUME NEW r \in GameType
    PROVE  /\ \A x \in Int : [r EXCEPT !.counter = x] \in GameType
           /\ \A x \in ListMaps : [r EXCEPT !.mapchange = x] \in GameType
           /\ \A x \in ListMaps : [r EXCEPT !.map = x] \in GameType
           /\ \A x \in Nat : [r EXCEPT !.mapindex = x] \in GameType
           /\ \A x \in {BootList, ReloadList} : [r EXCEPT !.mapslist = x] \in GameType
           /\ \A x \in 0 .. TimeLimit : [r EXCEPT !.timelimit = x] \in GameType
           /\ \A x \in 0 .. BulletTime : [r EXCEPT !.bullettime = x] \in GameType
           /\ \A x \in [Scorers -> 0 .. KillLimit + 1] : [r EXCEPT !.score = x] \in GameType
           /\ \A x \in [Scorers -> 0 .. KillLimit + 1] : [r EXCEPT !.made = x] \in GameType
           /\ \A x \in 0 .. MapChangeTime + 1 : [r EXCEPT !.age = x] \in GameType
<1>1. \A x \in Int : [r EXCEPT !.counter = x] \in GameType
  BY DEF GameType
<1>2. \A x \in ListMaps : [r EXCEPT !.mapchange = x] \in GameType
  BY DEF GameType
<1>3. \A x \in ListMaps : [r EXCEPT !.map = x] \in GameType
  BY DEF GameType
<1>4. \A x \in Nat : [r EXCEPT !.mapindex = x] \in GameType
  BY DEF GameType
<1>5. \A x \in {BootList, ReloadList} : [r EXCEPT !.mapslist = x] \in GameType
  BY DEF GameType
<1>6. \A x \in 0 .. TimeLimit : [r EXCEPT !.timelimit = x] \in GameType
  BY DEF GameType
<1>7. \A x \in 0 .. BulletTime : [r EXCEPT !.bullettime = x] \in GameType
  BY DEF GameType
<1>8. \A x \in [Scorers -> 0 .. KillLimit + 1] : [r EXCEPT !.score = x] \in GameType
  BY DEF GameType
<1>9. \A x \in [Scorers -> 0 .. KillLimit + 1] : [r EXCEPT !.made = x] \in GameType
  BY DEF GameType
<1>10. \A x \in 0 .. MapChangeTime + 1 : [r EXCEPT !.age = x] \in GameType
  BY DEF GameType
<1> QED
  BY <1>1, <1>2, <1>3, <1>4, <1>5, <1>6, <1>7, <1>8, <1>9, <1>10

\* What preparemapchange and nextmap may do to a game.
Announced(r, q) ==
    /\ q \in GameType
    /\ q.map = r.map /\ q.mapslist = r.mapslist /\ q.score = r.score /\ q.made = r.made
    /\ q.timelimit = r.timelimit
    /\ \/ q.counter = r.counter /\ q.age = r.age
       \/ q.counter = MapChangeTime /\ q.age = 0

LEMMA PrepareAnnounces ==
    ASSUME NEW r \in GameType, NEW m \in ListMaps
    PROVE  /\ Announced(r, PrepareMapChange(r, m))
           /\ m \notin Missing => PrepareMapChange(r, m).counter = MapChangeTime
<1>1. CASE m \in Missing
  BY <1>1 DEF PrepareMapChange, Announced
<1>2. CASE m \notin Missing
  <2> DEFINE a == [r EXCEPT !.mapchange = m]
  <2> DEFINE b == [a EXCEPT !.age = 0]
  <2>1. PrepareMapChange(r, m) = [b EXCEPT !.counter = MapChangeTime]
    BY <1>2 DEF PrepareMapChange, GameType
  <2>2. a \in GameType
    BY Update
  <2>3. b \in GameType
    <3>1. 0 \in 0 .. MapChangeTime + 1
      BY TimeAssumption
    <3> HIDE DEF a
    <3> QED
      BY <2>2, <3>1, Update
  <2>4. [b EXCEPT !.counter = MapChangeTime] \in GameType
    <3>1. MapChangeTime \in Int
      BY TimeAssumption
    <3> HIDE DEF b
    <3> QED
      BY <2>3, <3>1, Update
  <2> QED
    BY <2>1, <2>4 DEF Announced, GameType
<1> QED
  BY <1>1, <1>2

LEMMA AheadOnList ==
    ASSUME NEW r \in GameType, r.mapslist # <<>>, NEW n \in Nat \ {0}
    PROVE  Ahead(r, n) \in Nat /\ MapAhead(r, n) \in ListMaps
<1> DEFINE len == Len(r.mapslist)
<1>1. r.mapslist \in Seq(ListMaps) /\ r.mapindex \in Nat
  BY ListAssumption DEF GameType
<1>2. len \in Nat /\ len > 0
  BY <1>1
<1>3. Ahead(r, n) \in 0 .. len - 1
  <2> HIDE DEF len
  <2>1. (n - 1) % len \in 0 .. len - 1 /\ (r.mapindex + n) % len \in 0 .. len - 1
    BY <1>1, <1>2
  <2> QED
    BY <2>1 DEF Ahead, len
<1> QED
  BY <1>1, <1>2, <1>3 DEF MapAhead

LEMMA NextMapsAnnounces ==
    ASSUME NEW r \in GameType, NEW n \in Nat
    PROVE  /\ Announced(r, NextMaps(r, n))
           /\ n = 0 => NextMaps(r, n) = r
           /\ n > 0 /\ r.mapslist # <<>> /\ Missing = {}
              => NextMaps(r, n).counter = MapChangeTime
<1>1. CASE r.mapslist = <<>> \/ n = 0
  BY <1>1 DEF NextMaps, Announced
<1>2. CASE r.mapslist # <<>> /\ n # 0
  <2> DEFINE found == {k \in 1 .. n : MapAhead(r, k) \notin Missing}
  <2> DEFINE tries == IF found = {} THEN n
                      ELSE CHOOSE k \in found : \A j \in found : k <= j
  <2>1. tries \in 1 .. n
    <3>1. CASE found = {}
      BY <1>2, <3>1
    <3>2. CASE found # {}
      <4>1. found \in SUBSET Nat
        OBVIOUS
      <4>2. \E k \in found : \A j \in found : k <= j
        <5> HIDE DEF found
        <5> QED
          BY <3>2, <4>1, SmallestElement
      <4>3. tries \in found
        <5> HIDE DEF found
        <5> QED
          BY <3>2, <4>2
      <4> QED
        BY <4>3
    <3> QED
      BY <3>1, <3>2
  <2> DEFINE q == [r EXCEPT !.mapindex = Ahead(r, tries)]
  <2>2. NextMaps(r, n) = PrepareMapChange(q, MapAhead(r, tries))
    BY <1>2 DEF NextMaps
  <2> HIDE DEF found, tries
  <2>3. Ahead(r, tries) \in Nat /\ MapAhead(r, tries) \in ListMaps
    BY <1>2, <2>1, AheadOnList
  <2>4. q \in GameType
    BY <2>3, Update
  <2>5. /\ q.map = r.map /\ q.mapslist = r.mapslist /\ q.score = r.score /\ q.made = r.made
        /\ q.timelimit = r.timelimit /\ q.counter = r.counter /\ q.age = r.age
    BY DEF GameType
  <2> HIDE DEF q
  <2> QED
    BY <1>2, <2>2, <2>3, <2>4, <2>5, PrepareAnnounces DEF Announced
<1> QED
  BY <1>1, <1>2

LEMMA OverLimitCounts ==
    ASSUME NEW r \in GameType, NEW ro \in [Person -> Roles]
    PROVE  /\ OverLimit(r, ro) \in Nat
           /\ OverLimit(r, ro) = 0 =>
                \A s \in Scorers : TeamGame \/ ro[s] = "playing" => r.score[s] < KillLimit
<1>1. CASE TeamGame
  <2>1. \A s \in Teams : r.score[s] \in Int
    BY <1>1 DEF GameType, Scorers
  <2> QED
    BY <1>1, <2>1, LimitAssumption DEF OverLimit, Scorers
<1>2. CASE ~TeamGame
  <2> DEFINE over == {p \in Present(ro) : r.score[p] >= KillLimit}
  <2>1. IsFiniteSet(over)
    BY SetsAssumption, FS_Subset DEF Present
  <2>2. Cardinality(over) \in Nat /\ (Cardinality(over) = 0 => over = {})
    <3> HIDE DEF over
    <3> QED
      BY <2>1, FS_CardinalityType, FS_EmptySet
  <2>3. \A p \in Person : r.score[p] \in Int
    BY <1>2 DEF GameType, Scorers
  <2> QED
    BY <1>2, <2>2, <2>3, LimitAssumption DEF OverLimit, Scorers, Present
<1> QED
  BY <1>1, <1>2

LEMMA SortPlayersAnnounces ==
    ASSUME NEW r \in GameType, NEW ro \in [Person -> Roles]
    PROVE  Announced(r, SortPlayers(r, ro))
<1>1. OverLimit(r, ro) \in Nat
  BY OverLimitCounts
<1> QED
  BY <1>1, NextMapsAnnounces DEF SortPlayers, Announced

LEMMA NextMapAnnounces ==
    ASSUME NEW r \in GameType
    PROVE  /\ Announced(r, NextMap(r))
           /\ r.mapslist # <<>> /\ Missing = {} => NextMap(r).counter = MapChangeTime
BY NextMapsAnnounces DEF NextMap

\* The points of teams are those they have made in the game that is on.
OwnPoints(r) == TeamGame => r.score = r.made

\* changemap fails and tries the next map, or loads the map that was announced.
LEMMA ChangeMapResult ==
    ASSUME NEW q \in GameType, NEW ro \in [Person -> Roles]
    PROVE  /\ ChangeMap(q, ro) \in GameType
           /\ ChangeMap(q, ro).mapslist = ReloadList
           /\ OwnPoints(q) => OwnPoints(ChangeMap(q, ro))
           /\ \/ /\ ChangeMap(q, ro).map = q.map
                 /\ \/ /\ ChangeMap(q, ro).counter = q.counter
                       /\ ChangeMap(q, ro).age = q.age
                    \/ /\ ChangeMap(q, ro).counter = MapChangeTime
                       /\ ChangeMap(q, ro).age = 0
                 /\ Missing = {} /\ ReloadList # <<>>
                       => ChangeMap(q, ro).counter = MapChangeTime
                 /\ ChangeMap(q, ro).score = q.score
              \/ /\ ChangeMap(q, ro).counter = -Second
                 /\ \A s \in Scorers : TeamGame \/ ro[s] = "playing"
                       => ChangeMap(q, ro).score[s] = 0
<1> DEFINE r == [q EXCEPT !.mapslist = ReloadList]
<1>1. r \in GameType
  BY Update
<1>2. /\ r.map = q.map /\ r.score = q.score /\ r.counter = q.counter /\ r.age = q.age
      /\ r.mapslist = ReloadList /\ r.mapchange = q.mapchange /\ r.made = q.made
  BY DEF GameType
<1> DEFINE fresh == FreshScores(r, ro)
<1> DEFINE zeros == [s \in Scorers |-> 0]
<1> DEFINE loaded == [r EXCEPT !.map = r.mapchange, !.score = fresh, !.made = zeros]
<1>3. CASE q.mapchange \in Missing \cup Broken \cup {NoMap}
  <2>1. ChangeMap(q, ro) = NextMap(r)
    BY <1>2, <1>3 DEF ChangeMap
  <2> HIDE DEF r
  <2>2. Announced(r, NextMap(r))
        /\ (Missing = {} /\ ReloadList # <<>> => NextMap(r).counter = MapChangeTime)
    BY <1>1, <1>2, NextMapAnnounces
  <2> QED
    BY <1>2, <2>1, <2>2 DEF Announced, OwnPoints
<1>4. CASE q.mapchange \notin Missing \cup Broken \cup {NoMap}
  <2>1. ChangeMap(q, ro) = [SortPlayers(loaded, ro) EXCEPT !.counter = -Second, !.timelimit = TimeLimit]
    BY <1>2, <1>4 DEF ChangeMap
  <2>2. r.mapchange \in ListMaps
    BY <1>1, <1>2, <1>4 DEF GameType
  <2>3. fresh \in [Scorers -> 0 .. KillLimit + 1] /\ zeros \in [Scorers -> 0 .. KillLimit + 1]
    <3>1. r.score \in [Scorers -> 0 .. KillLimit + 1] /\ 0 \in 0 .. KillLimit + 1
      BY <1>1, LimitAssumption DEF GameType
    <3> HIDE DEF r
    <3> QED
      BY <3>1 DEF FreshScores
  <2>4. loaded \in GameType /\ loaded.score = fresh /\ loaded.made = zeros
        /\ loaded.mapslist = ReloadList
    <3> DEFINE a == [r EXCEPT !.map = r.mapchange]
    <3> DEFINE b == [a EXCEPT !.score = fresh]
    <3> HIDE DEF r, fresh, zeros
    <3>1. a \in GameType
      BY <1>1, <2>2, Update
    <3>2. b \in GameType
      <4> HIDE DEF a
      <4> QED
        BY <2>3, <3>1, Update
    <3>3. [b EXCEPT !.made = zeros] \in GameType
      <4> HIDE DEF b
      <4> QED
        BY <2>3, <3>2, Update
    <3>4. loaded = [b EXCEPT !.made = zeros]
      BY <1>1 DEF GameType
    <3>5. loaded.score = fresh /\ loaded.made = zeros /\ loaded.mapslist = ReloadList
      BY <1>1, <1>2 DEF GameType
    <3> QED
      BY <3>3, <3>4, <3>5
  <2> DEFINE sorted == SortPlayers(loaded, ro)
  <2>5. Announced(loaded, sorted)
    <3> HIDE DEF loaded
    <3> QED
      BY <2>4, SortPlayersAnnounces
  <2>6. sorted \in GameType /\ sorted.score = fresh /\ sorted.made = zeros
        /\ sorted.mapslist = ReloadList
    <3> HIDE DEF sorted, loaded, fresh, zeros
    <3> QED
      BY <2>4, <2>5 DEF Announced
  <2>7. [sorted EXCEPT !.counter = -Second, !.timelimit = TimeLimit] \in GameType
    <3> DEFINE c == [sorted EXCEPT !.counter = -Second]
    <3>1. -Second \in Int /\ TimeLimit \in 0 .. TimeLimit
      BY TimeAssumption, LimitAssumption
    <3> HIDE DEF sorted
    <3>2. c \in GameType
      BY <2>6, <3>1, Update
    <3>3. [c EXCEPT !.timelimit = TimeLimit] \in GameType
      <4> HIDE DEF c
      <4> QED
        BY <3>1, <3>2, Update
    <3> QED
      BY <2>6, <3>3 DEF GameType
  <2>8. \A s \in Scorers : TeamGame \/ ro[s] = "playing" => fresh[s] = 0
    BY DEF FreshScores
  <2>9. ChangeMap(q, ro) = [sorted EXCEPT !.counter = -Second, !.timelimit = TimeLimit]
    BY <2>1
  <2>10. /\ ChangeMap(q, ro).counter = -Second
        /\ ChangeMap(q, ro).score = fresh
        /\ ChangeMap(q, ro).made = zeros
        /\ ChangeMap(q, ro).mapslist = ReloadList
    <3> HIDE DEF sorted, fresh, zeros
    <3> QED
      BY <2>6, <2>9 DEF GameType
  <2>11. OwnPoints(ChangeMap(q, ro))
    <3>1. TeamGame => fresh = zeros
      BY DEF FreshScores
    <3> HIDE DEF sorted, fresh, zeros
    <3> QED
      BY <2>10, <3>1 DEF OwnPoints
  <2> HIDE DEF sorted, fresh, zeros
  <2> QED
    BY <2>7, <2>8, <2>9, <2>10, <2>11
<1> QED
  BY <1>3, <1>4

-----------------------------------------------------------------------------
(* What two properties need to know of a game the admin has left alone. *)

\* A countdown that has gone further than it should is not older than it looks.
GraceOf(r) ==
    r.counter > -Second => r.age >= MapChangeTime \/ r.age + r.counter >= MapChangeTime

\* A game is on or a map change is counted down, and whoever is at the limit is
\* in the latter.
LimitOf(r, ro) ==
    /\ r.counter >= 0 \/ r.counter <= -Second
    /\ r.mapslist # <<>>
    /\ \A s \in Scorers : (TeamGame \/ ro[s] = "playing") /\ r.score[s] >= KillLimit => r.counter >= 0

NoPause(r) == r.counter <= MapChangeTime
MapsExist == Missing = {} /\ ReloadList # <<>>

LEMMA AnnouncedKeeps ==
    ASSUME NEW r \in GameType, NEW q, Announced(r, q), NoPause(r)
    PROVE  /\ NoPause(q)
           /\ GraceOf(r) => GraceOf(q)
           /\ \A ro : LimitOf(r, ro) => LimitOf(q, ro)
BY TimeAssumption DEF Announced, NoPause, GraceOf, LimitOf, GameType

\* sortplayers leaves nobody at the limit in a game that goes on.
LEMMA SortPlayersNotices ==
    ASSUME NEW r \in GameType, NEW ro \in [Person -> Roles], MapsExist,
           r.counter >= 0 \/ r.counter <= -Second, r.mapslist # <<>>
    PROVE  LimitOf(SortPlayers(r, ro), ro)
<1>1. r.counter \in Int /\ OverLimit(r, ro) \in Nat
  BY OverLimitCounts DEF GameType
<1>2. CASE ~(r.counter < 1)
  BY <1>1, <1>2 DEF SortPlayers, LimitOf
<1>3. CASE r.counter < 1 /\ OverLimit(r, ro) = 0
  <2>1. SortPlayers(r, ro) = r
    BY <1>1, <1>3, NextMapsAnnounces DEF SortPlayers
  <2>2. \A s \in Scorers : TeamGame \/ ro[s] = "playing" => r.score[s] < KillLimit
    BY <1>3, OverLimitCounts
  <2>3. \A s \in Scorers : r.score[s] \in Int
    BY DEF GameType
  <2> QED
    BY <2>1, <2>2, <2>3, LimitAssumption DEF LimitOf
<1>4. CASE r.counter < 1 /\ OverLimit(r, ro) > 0
  <2>1. SortPlayers(r, ro).counter = MapChangeTime /\ SortPlayers(r, ro).mapslist = r.mapslist
    BY <1>1, <1>4, NextMapsAnnounces DEF SortPlayers, MapsExist, Announced
  <2> QED
    BY <2>1, TimeAssumption DEF LimitOf
<1> QED
  BY <1>1, <1>2, <1>3, <1>4

-----------------------------------------------------------------------------
(* The second half of a frame, timer by timer *)

LEMMA TimersStep ==
    ASSUME NEW q \in GameType, NEW ro \in [Person -> Roles], NEW tenth \in BOOLEAN
    PROVE  /\ Timers(q, ro, tenth) \in GameType
           /\ OwnPoints(q) => OwnPoints(Timers(q, ro, tenth))
           /\ NoPause(q) => /\ NoPause(Timers(q, ro, tenth))
                            /\ GraceOf(q) => GraceOf(Timers(q, ro, tenth))
                            /\ GraceOf(q) /\ Timers(q, ro, tenth).map # q.map => q.age >= MapChangeTime
                            /\ MapsExist /\ LimitOf(q, ro) => LimitOf(Timers(q, ro, tenth), ro)
<1> USE TimeAssumption
<1> DEFINE aged == [q EXCEPT !.age = IF @ > MapChangeTime THEN @ ELSE @ + 1]
<1> DEFINE counted == CountDown(aged)
<1> DEFINE changed == IF MapIsDue(counted) THEN ChangeMap(counted, ro) ELSE counted
<1> DEFINE eased == IF tenth /\ Present(ro) = {} /\ changed.counter > PauseFloor
                    THEN [changed EXCEPT !.counter = @ - Second] ELSE changed
<1> DEFINE timed == TickTimeLimit(eased)
<1>0. Timers(q, ro, tenth) = IF TimeIsUp(timed) THEN NextMap(timed) ELSE timed
  BY DEF Timers
<1>1. /\ aged \in GameType
      /\ aged.age = (IF q.age > MapChangeTime THEN q.age ELSE q.age + 1)
      /\ aged.counter = q.counter /\ aged.map = q.map
      /\ aged.score = q.score /\ aged.made = q.made /\ aged.mapslist = q.mapslist
  BY DEF GameType
<1>2. /\ counted \in GameType
      /\ counted.counter = (IF q.counter > -Second /\ q.counter < PauseFloor
                            THEN q.counter - 1 ELSE q.counter)
      /\ counted.age = aged.age /\ counted.map = q.map
      /\ counted.score = q.score /\ counted.made = q.made /\ counted.mapslist = q.mapslist
  <2>1. counted = IF q.counter > -Second /\ q.counter < PauseFloor
                  THEN [aged EXCEPT !.counter = q.counter - 1] ELSE aged
    <3> HIDE DEF aged
    <3> QED
      BY <1>1 DEF CountDown, Counts
  <2>2. q.counter - 1 \in Int
    BY DEF GameType
  <2> HIDE DEF aged
  <2>3. [aged EXCEPT !.counter = q.counter - 1] \in GameType
    BY <1>1, <2>2, Update
  <2> HIDE DEF counted
  <2> QED
    BY <1>1, <2>1, <2>3 DEF GameType
<1>3. q.age \in 0 .. MapChangeTime + 1 /\ q.counter \in Int
  BY DEF GameType
<1>4. NoPause(q) => /\ NoPause(counted)
                    /\ GraceOf(q) => GraceOf(counted)
                    /\ GraceOf(q) /\ MapIsDue(counted) => q.age >= MapChangeTime
  <2> HIDE DEF aged, counted
  <2> QED
    BY <1>1, <1>2, <1>3 DEF NoPause, GraceOf, MapIsDue
<1>5. /\ changed \in GameType
      /\ ~MapIsDue(counted) => changed.map = q.map
      /\ OwnPoints(q) => OwnPoints(changed)
  <2> HIDE DEF counted
  <2>1. OwnPoints(q) => OwnPoints(counted)
    BY <1>2 DEF OwnPoints
  <2> QED
    BY <1>2, <2>1, ChangeMapResult
<1>6. NoPause(q) => NoPause(changed) /\ (GraceOf(q) => GraceOf(changed))
  <2> HIDE DEF aged, counted
  <2> QED
    BY <1>2, <1>4, ChangeMapResult DEF NoPause, GraceOf
<1>7. NoPause(q) /\ MapsExist /\ LimitOf(q, ro) => LimitOf(changed, ro)
  <2> SUFFICES ASSUME NoPause(q), MapsExist, LimitOf(q, ro) PROVE LimitOf(changed, ro)
    OBVIOUS
  <2> HIDE DEF aged, counted
  <2>1. CASE MapIsDue(counted)
    <3>1. changed = ChangeMap(counted, ro)
      BY <2>1
    <3>2. CASE changed.counter = MapChangeTime
      BY <1>2, <3>1, <3>2, ChangeMapResult DEF LimitOf, MapsExist
    <3>3. CASE changed.counter = -Second /\ \A s \in Scorers :
                 TeamGame \/ ro[s] = "playing" => changed.score[s] = 0
      BY <1>2, <3>1, <3>3, ChangeMapResult, LimitAssumption DEF LimitOf, MapsExist
    <3> QED
      BY <1>2, <3>1, <3>2, <3>3, ChangeMapResult DEF MapsExist
  <2>2. CASE ~MapIsDue(counted)
    <3>1. changed = counted
      BY <2>2
    <3>2. counted.counter >= 0 \/ counted.counter = q.counter
      BY <1>2, <1>3, <2>2 DEF MapIsDue, LimitOf, NoPause
    <3> QED
      BY <1>2, <1>3, <3>1, <3>2 DEF LimitOf
  <2> QED
    BY <2>1, <2>2
<1>8. /\ eased \in GameType /\ eased.map = changed.map /\ (NoPause(q) => eased = changed)
      /\ eased.score = changed.score /\ eased.made = changed.made
  <2> HIDE DEF changed
  <2> QED
    BY <1>5, <1>6 DEF GameType, NoPause
<1>9. /\ timed \in GameType /\ timed.map = eased.map /\ timed.counter = eased.counter
      /\ timed.age = eased.age /\ timed.score = eased.score /\ timed.mapslist = eased.mapslist
      /\ timed.made = eased.made
  <2> HIDE DEF eased
  <2> QED
    BY <1>8, LimitAssumption DEF TickTimeLimit, GameType
<1>10. NoPause(q) => /\ NoPause(timed)
                     /\ GraceOf(q) => GraceOf(timed)
                     /\ GraceOf(q) /\ timed.map # q.map => q.age >= MapChangeTime
                     /\ MapsExist /\ LimitOf(q, ro) => LimitOf(timed, ro)
  <2> HIDE DEF counted, changed, eased, timed
  <2> QED
    BY <1>4, <1>5, <1>6, <1>7, <1>8, <1>9 DEF NoPause, GraceOf, LimitOf
<1>11. OwnPoints(q) => OwnPoints(timed)
  <2> HIDE DEF changed, eased, timed
  <2> QED
    BY <1>5, <1>8, <1>9 DEF OwnPoints
<1> HIDE DEF timed
<1>12. CASE TimeIsUp(timed)
  <2>1. Timers(q, ro, tenth) = NextMap(timed) /\ Announced(timed, NextMap(timed))
    BY <1>0, <1>9, <1>12, NextMapAnnounces
  <2>2. OwnPoints(timed) => OwnPoints(NextMap(timed))
    BY <2>1 DEF Announced, OwnPoints
  <2> QED
    BY <1>9, <1>10, <1>11, <2>1, <2>2, AnnouncedKeeps DEF Announced
<1>13. CASE ~TimeIsUp(timed)
  BY <1>0, <1>9, <1>10, <1>11, <1>13
<1> QED
  BY <1>12, <1>13

-----------------------------------------------------------------------------
(* The actions.  A step without the admin keeps all that was just defined. *)

Keeps ==
    /\ game' \in GameType
    /\ NoPause(game) =>
         /\ NoPause(game')
         /\ GraceOf(game) => GraceOf(game')
         /\ GraceOf(game) /\ game'.map # game.map => game.age >= MapChangeTime
         /\ MapsExist /\ LimitOf(game, role) => LimitOf(game', role')

LEMMA SortedKeeps ==
    ASSUME game \in GameType, role' \in [Person -> Roles], NEW r \in GameType,
           r.counter = game.counter, r.age = game.age,
           r.map = game.map, r.mapslist = game.mapslist,
           game' = SortPlayers(r, role')
    PROVE  Keeps
<1>1. Announced(r, game')
  BY SortPlayersAnnounces
<1>2. NoPause(game) => NoPause(r) /\ (GraceOf(game) => GraceOf(r))
  BY DEF NoPause, GraceOf
<1>3. MapsExist /\ LimitOf(game, role) => LimitOf(game', role')
  BY SortPlayersNotices DEF LimitOf
<1>4. game' \in GameType /\ game'.map = game.map
  BY <1>1 DEF Announced
<1>5. NoPause(game) => NoPause(game') /\ (GraceOf(game) => GraceOf(game'))
  BY <1>1, <1>2, AnnouncedKeeps
<1> QED
  BY <1>3, <1>4, <1>5 DEF Keeps

LEMMA BeginFrameKeeps == TypeOK /\ BeginFrame => Keeps
BY DEF TypeOK, BeginFrame, Keeps, NoPause, GraceOf, LimitOf

LEMMA CappedType == \A n \in Nat : Capped(n) \in 0 .. KillLimit + 1
BY LimitAssumption DEF Capped

LEMMA ScoresKeeps ==
    ASSUME TypeOK, NEW s \in Scorers, NEW n \in 1 .. 2, Scores(s, n) PROVE Keeps
<1> DEFINE score == [game.score EXCEPT ![s] = Capped(@ + n)]
<1> DEFINE made == [game.made EXCEPT ![s] = Capped(@ + n)]
<1> DEFINE a == [game EXCEPT !.score = score]
<1> DEFINE r == [a EXCEPT !.made = made]
<1>1. game \in GameType /\ role' = role /\ role \in [Person -> Roles]
  BY DEF Scores, TypeOK
<1>2. game.score[s] \in Nat /\ game.made[s] \in Nat
  BY <1>1 DEF GameType
<1>3. Capped(game.score[s] + n) \in 0 .. KillLimit + 1 /\ Capped(game.made[s] + n) \in 0 .. KillLimit + 1
  BY <1>2, CappedType
<1>4. score \in [Scorers -> 0 .. KillLimit + 1] /\ made \in [Scorers -> 0 .. KillLimit + 1]
  BY <1>1, <1>3 DEF GameType
<1>5. a \in GameType
  <2> HIDE DEF score
  <2> QED
    BY <1>1, <1>4, Update
<1>6. r \in GameType
  <2> HIDE DEF a, made
  <2> QED
    BY <1>4, <1>5, Update
<1>7. r.counter = game.counter /\ r.age = game.age /\ r.map = game.map /\ r.mapslist = game.mapslist
  BY <1>1 DEF GameType
<1>8. r = [game EXCEPT !.score[s] = Capped(@ + n), !.made[s] = Capped(@ + n)]
  BY <1>1 DEF GameType
<1>9. game' = SortPlayers(r, role')
  <2> HIDE DEF r
  <2> QED
    BY <1>1, <1>8 DEF Scores
<1> HIDE DEF r
<1> QED
  BY <1>1, <1>6, <1>7, <1>9, SortedKeeps

LEMMA BulletTimeOnKeeps == TypeOK /\ BulletTimeOn => Keeps
<1> SUFFICES ASSUME TypeOK, BulletTimeOn PROVE Keeps
  OBVIOUS
<1>1. game \in GameType /\ BulletTime \in 0 .. BulletTime
  BY TimeAssumption DEF TypeOK
<1>2. game' \in GameType
  BY <1>1, Update DEF BulletTimeOn
<1>3. /\ game'.counter = game.counter /\ game'.age = game.age /\ game'.map = game.map
      /\ game'.mapslist = game.mapslist /\ game'.score = game.score /\ role' = role
  BY <1>1 DEF BulletTimeOn, GameType
<1> QED
  BY <1>2, <1>3 DEF Keeps, NoPause, GraceOf, LimitOf

LEMMA EndFrameKeeps == TypeOK /\ EndFrame => Keeps
<1> SUFFICES ASSUME TypeOK, EndFrame PROVE Keeps
  OBVIOUS
<1>1. game \in GameType /\ role' = role /\ role \in [Person -> Roles]
  BY DEF TypeOK, EndFrame
<1>2. CASE game.bullettime > 0 /\ game' = [game EXCEPT !.bullettime = @ - 1]
  <2>1. game.bullettime - 1 \in 0 .. BulletTime
    BY <1>1, <1>2, TimeAssumption DEF GameType
  <2>2. game' \in GameType
    BY <1>1, <1>2, <2>1, Update
  <2>3. /\ game'.counter = game.counter /\ game'.age = game.age /\ game'.map = game.map
        /\ game'.mapslist = game.mapslist /\ game'.score = game.score
    BY <1>1, <1>2 DEF GameType
  <2> QED
    BY <1>1, <2>2, <2>3 DEF Keeps, NoPause, GraceOf, LimitOf
<1>3. CASE \E tenth \in BOOLEAN : game' = Timers(game, role, tenth)
  BY <1>1, <1>3, TimersStep DEF Keeps
<1> QED
  BY <1>2, <1>3 DEF EndFrame

LEMMA JoinKeeps ==
    ASSUME TypeOK, NEW p \in Person, NEW ro \in {"playing", "spectating"}, Join(p, ro)
    PROVE  Keeps
<1>1. game \in GameType /\ role' \in [Person -> Roles]
  BY DEF TypeOK, Join, Roles
<1>2. CASE TeamGame
  BY <1>1, <1>2, SortedKeeps DEF Join
<1>3. CASE ~TeamGame
  <2> DEFINE score == [game.score EXCEPT ![p] = 0]
  <2> DEFINE made == [game.made EXCEPT ![p] = 0]
  <2> DEFINE a == [game EXCEPT !.score = score]
  <2> DEFINE r == [a EXCEPT !.made = made]
  <2>1. score \in [Scorers -> 0 .. KillLimit + 1] /\ made \in [Scorers -> 0 .. KillLimit + 1]
    <3>1. game.score \in [Scorers -> 0 .. KillLimit + 1] /\ game.made \in [Scorers -> 0 .. KillLimit + 1]
      BY <1>1 DEF GameType
    <3>2. 0 \in 0 .. KillLimit + 1
      BY LimitAssumption
    <3> QED
      BY <3>1, <3>2
  <2>2. a \in GameType
    <3> HIDE DEF score
    <3> QED
      BY <1>1, <2>1, Update
  <2>3. r \in GameType
    <3> HIDE DEF a, made
    <3> QED
      BY <2>1, <2>2, Update
  <2>4. r.counter = game.counter /\ r.age = game.age /\ r.map = game.map /\ r.mapslist = game.mapslist
    BY <1>1 DEF GameType
  <2>5. r = [game EXCEPT !.score[p] = 0, !.made[p] = 0]
    BY <1>1 DEF GameType
  <2>6. game' = SortPlayers(r, role')
    <3> HIDE DEF r
    <3> QED
      BY <1>3, <2>5 DEF Join
  <2> HIDE DEF r
  <2> QED
    BY <1>1, <2>3, <2>4, <2>6, SortedKeeps
<1> QED
  BY <1>2, <1>3

LEMMA LeaveKeeps ==
    ASSUME TypeOK, NEW p \in Person, Leave(p) PROVE Keeps
<1>1. game \in GameType /\ role' \in [Person -> Roles]
  BY DEF TypeOK, Leave, Roles
<1> QED
  BY <1>1, SortedKeeps DEF Leave

LEMMA ChangeTeamKeeps ==
    ASSUME TypeOK, NEW p \in Person, ChangeTeam(p) PROVE Keeps
<1> DEFINE once == SortPlayers(game, role')
<1>1. game \in GameType /\ role' \in [Person -> Roles]
  BY DEF TypeOK, ChangeTeam, Roles
<1>2. Announced(game, once)
  BY <1>1, SortPlayersAnnounces
<1>3. game' = SortPlayers(once, role')
  BY DEF ChangeTeam
<1>4. MapsExist /\ LimitOf(game, role) => LimitOf(once, role')
  BY <1>1, SortPlayersNotices DEF LimitOf
<1> HIDE DEF once
<1>5. once \in GameType /\ once.map = game.map
  BY <1>2 DEF Announced
<1>6. Announced(once, game')
  BY <1>1, <1>3, <1>5, SortPlayersAnnounces
<1>7. MapsExist /\ LimitOf(game, role) => LimitOf(game', role')
  BY <1>1, <1>3, <1>4, <1>5, SortPlayersNotices DEF LimitOf
<1>8. NoPause(game) => NoPause(once) /\ (GraceOf(game) => GraceOf(once))
  BY <1>1, <1>2, AnnouncedKeeps
<1>9. NoPause(once) => NoPause(game') /\ (GraceOf(once) => GraceOf(game'))
  BY <1>5, <1>6, AnnouncedKeeps
<1>10. game' \in GameType /\ game'.map = game.map
  BY <1>5, <1>6 DEF Announced
<1> QED
  BY <1>7, <1>8, <1>9, <1>10 DEF Keeps

LEMMA MapVotedKeeps ==
    ASSUME TypeOK, NEW m \in ListMaps, MapVoted(m) PROVE Keeps
<1>1. game \in GameType /\ role' = role
  BY DEF TypeOK, MapVoted
<1>2. Announced(game, game')
  BY <1>1, PrepareAnnounces DEF MapVoted
<1> QED
  BY <1>1, <1>2, AnnouncedKeeps DEF Keeps, Announced

\* A step is the admin's or keeps everything; the rest of the type is kept by all.
LEMMA StepKeeps == TypeOK /\ [Next]_vars => TypeOK' /\ (Keeps \/ MaxCommands > 0)
<1> SUFFICES ASSUME TypeOK, [Next]_vars PROVE TypeOK' /\ (Keeps \/ MaxCommands > 0)
  OBVIOUS
<1> USE BoundAssumption
<1>1. CASE Frame
  <2>1. Keeps
    BY <1>1, BeginFrameKeeps, EndFrameKeeps DEF Frame
  <2> QED
    BY <1>1, <2>1 DEF Frame, BeginFrame, EndFrame, Keeps, TypeOK
<1>2. ASSUME NEW s \in Scorers, NEW n \in 1 .. 2, Scores(s, n) PROVE TypeOK' /\ Keeps
  <2>1. Keeps
    BY <1>2, ScoresKeeps
  <2> QED
    BY <1>2, <2>1 DEF Scores, Keeps, TypeOK
<1>3. CASE BulletTimeOn
  <2>1. Keeps
    BY <1>3, BulletTimeOnKeeps
  <2> QED
    BY <1>3, <2>1 DEF BulletTimeOn, Moves, Keeps, TypeOK
<1>4. ASSUME NEW p \in Person, NEW ro \in {"playing", "spectating"}, Join(p, ro)
      PROVE TypeOK' /\ Keeps
  <2>1. Keeps
    BY <1>4, JoinKeeps
  <2> QED
    BY <1>4, <2>1 DEF Join, Moves, Keeps, TypeOK, Roles
<1>5. ASSUME NEW p \in Person, Leave(p) PROVE TypeOK' /\ Keeps
  <2>1. Keeps
    BY <1>5, LeaveKeeps
  <2> QED
    BY <1>5, <2>1 DEF Leave, Moves, Keeps, TypeOK, Roles
<1>6. ASSUME NEW p \in Person, ChangeTeam(p) PROVE TypeOK' /\ Keeps
  <2>1. Keeps
    BY <1>6, ChangeTeamKeeps
  <2> QED
    BY <1>6, <2>1 DEF ChangeTeam, Moves, Keeps, TypeOK, Roles
<1>7. ASSUME NEW m \in ListMaps, MapVoted(m) PROVE TypeOK' /\ Keeps
  <2>1. Keeps
    BY <1>7, MapVotedKeeps
  <2> QED
    BY <1>7, <2>1 DEF MapVoted, Moves, Keeps, TypeOK
<1>8. ASSUME Command, game' \in GameType PROVE TypeOK' /\ MaxCommands > 0
  BY <1>8 DEF Command, TypeOK
<1>9. ASSUME NEW m \in ListMaps, CommandMap(m) PROVE game' \in GameType
  BY <1>9, PrepareAnnounces DEF CommandMap, Announced, TypeOK
<1>10. CommandNextMap => game' \in GameType
  BY NextMapAnnounces DEF CommandNextMap, Announced, TypeOK
<1>11. CommandPause => game' \in GameType
  <2>1. game \in GameType /\ PauseValue \in Int
    BY TimeAssumption DEF TypeOK
  <2> QED
    BY <2>1, Update DEF CommandPause
<1>12. CommandUnpause => game' \in GameType
  <2>1. game \in GameType /\ game.counter - Second \in Int
    BY TimeAssumption DEF TypeOK, GameType
  <2> QED
    BY <2>1, Update DEF CommandUnpause
<1>13. CommandRestart => game' \in GameType
  <2> DEFINE a == [game EXCEPT !.counter = MapChangeTime]
  <2>1. game \in GameType /\ MapChangeTime \in Int /\ 0 \in 0 .. MapChangeTime + 1
    BY TimeAssumption DEF TypeOK
  <2>2. a \in GameType
    BY <2>1, Update
  <2>3. CommandRestart => game' = [a EXCEPT !.age = 0]
    BY <2>1 DEF CommandRestart, GameType
  <2> HIDE DEF a
  <2> QED
    BY <2>1, <2>2, <2>3, Update
<1>14. CASE UNCHANGED vars
  BY <1>14 DEF vars, TypeOK, Keeps, NoPause, GraceOf, LimitOf
<1> QED
  BY <1>1, <1>2, <1>3, <1>4, <1>5, <1>6, <1>7, <1>8, <1>9, <1>10, <1>11, <1>12, <1>13, <1>14
     DEF Next, CommandMap, CommandNextMap, CommandPause, CommandUnpause, CommandRestart

LEMMA InitHolds == Init => TypeOK /\ NoPause(game) /\ GraceOf(game) /\ LimitOf(game, role)
<1> SUFFICES ASSUME Init PROVE TypeOK /\ NoPause(game) /\ GraceOf(game) /\ LimitOf(game, role)
  OBVIOUS
<1> USE TimeAssumption, LimitAssumption, ListAssumption, BoundAssumption
<1>1. BootList[1] \in ListMaps
  BY DEF ListMaps
<1>2. game \in GameType
  BY <1>1 DEF Init, GameType
<1>3. TypeOK
  BY <1>2 DEF Init, TypeOK, Roles
<1>4. game.counter = -(2 * Second) /\ game.mapslist = BootList /\ \A s \in Scorers : game.score[s] = 0
  BY DEF Init
<1> QED
  BY <1>3, <1>4 DEF NoPause, GraceOf, LimitOf

-----------------------------------------------------------------------------
(* The end of a game of teams.  Their points are all made in it, and sortplayers  *)
(* ends it only for a team that has enough.                                       *)

LEMMA SortPlayersFair ==
    ASSUME NEW r \in GameType, NEW ro \in [Person -> Roles]
    PROVE  /\ SortPlayers(r, ro).score = r.score
           /\ SortPlayers(r, ro).made = r.made
           /\ SortPlayers(r, ro) \in GameType
           /\ TeamGame /\ SortPlayers(r, ro).counter # r.counter
              => \E s \in Scorers : r.score[s] >= KillLimit
<1>1. Announced(r, SortPlayers(r, ro))
  BY SortPlayersAnnounces
<1>2. ASSUME TeamGame, SortPlayers(r, ro).counter # r.counter
      PROVE  \E s \in Scorers : r.score[s] >= KillLimit
  <2>1. SortPlayers(r, ro) = NextMaps(r, OverLimit(r, ro))
    BY <1>2 DEF SortPlayers
  <2>2. OverLimit(r, ro) # 0
    BY <1>2, <2>1, NextMapsAnnounces
  <2> QED
    BY <1>2, <2>2 DEF OverLimit, Scorers
<1> QED
  BY <1>1, <1>2 DEF Announced

Points == \E s \in Scorers, n \in 1 .. 2 : Scores(s, n)
Comings ==
    \E p \in Person : Leave(p) \/ ChangeTeam(p) \/ Join(p, "playing") \/ Join(p, "spectating")
Won == game.counter < 0 /\ game'.counter >= 0 => \E s \in Scorers : game'.made[s] >= KillLimit

LEMMA SortedFair ==
    ASSUME TeamGame, NEW r \in GameType, NEW ro \in [Person -> Roles], OwnPoints(r),
           r.counter = game.counter, game' = SortPlayers(r, ro)
    PROVE  OwnPoints(game') /\ Won
<1>1. game'.score = r.score /\ game'.made = r.made
  BY SortPlayersFair
<1>2. ASSUME game.counter < 0, game'.counter >= 0
      PROVE  \E s \in Scorers : r.score[s] >= KillLimit
  <2>1. game'.counter # r.counter
    BY <1>2 DEF GameType
  <2> QED
    BY <2>1, SortPlayersFair
<1> QED
  BY <1>1, <1>2 DEF OwnPoints, Won

LEMMA PointsFair ==
    ASSUME TeamGame, TypeOK, OwnPoints(game), NEW s \in Scorers, NEW n \in 1 .. 2, Scores(s, n)
    PROVE  OwnPoints(game') /\ Won
<1> DEFINE score == [game.score EXCEPT ![s] = Capped(@ + n)]
           made == [game.made EXCEPT ![s] = Capped(@ + n)]
           a == [game EXCEPT !.score = score]
           r == [a EXCEPT !.made = made]
<1>1. game \in GameType /\ role \in [Person -> Roles] /\ game.score = game.made
  BY DEF TypeOK, OwnPoints
<1>2. game.score[s] \in Nat /\ game.made[s] \in Nat
  BY <1>1 DEF GameType
<1>3. Capped(game.score[s] + n) \in 0 .. KillLimit + 1 /\ Capped(game.made[s] + n) \in 0 .. KillLimit + 1
  BY <1>2, CappedType
<1>4. score \in [Scorers -> 0 .. KillLimit + 1] /\ made \in [Scorers -> 0 .. KillLimit + 1]
  BY <1>1, <1>3 DEF GameType
<1>5. score = made
  BY <1>1
<1>6. a \in GameType
  <2> HIDE DEF score
  <2> QED
    BY <1>1, <1>4, Update
<1>7. r \in GameType
  <2> HIDE DEF a, made
  <2> QED
    BY <1>4, <1>6, Update
<1>8. r.counter = game.counter /\ r.score = score /\ r.made = made
  BY <1>1 DEF GameType
<1>9. r = [game EXCEPT !.score[s] = Capped(@ + n), !.made[s] = Capped(@ + n)]
  BY <1>1 DEF GameType
<1>10. game' = SortPlayers(r, role)
  <2> HIDE DEF r
  <2> QED
    BY <1>9 DEF Scores
<1> HIDE DEF r, score, made
<1> QED
  BY <1>1, <1>5, <1>7, <1>8, <1>10, SortedFair DEF OwnPoints

LEMMA ComingsFair ==
    ASSUME TeamGame, TypeOK, OwnPoints(game), Comings
    PROVE  OwnPoints(game') /\ Won
<1>1. game \in GameType /\ role' \in [Person -> Roles]
  BY DEF TypeOK, Comings, Leave, ChangeTeam, Join, Roles
<1>2. CASE game' = SortPlayers(game, role')
  BY <1>1, <1>2, SortedFair
<1>3. CASE game' = SortPlayers(SortPlayers(game, role'), role')
  <2> DEFINE once == SortPlayers(game, role')
  <2>1. /\ once \in GameType /\ once.score = game.score /\ once.made = game.made
        /\ once.counter # game.counter => \E s \in Scorers : game.score[s] >= KillLimit
    BY <1>1, SortPlayersFair
  <2> HIDE DEF once
  <2>2. game' = SortPlayers(once, role')
    BY <1>3 DEF once
  <2>3. game'.score = once.score /\ game'.made = once.made
    BY <1>1, <2>1, <2>2, SortPlayersFair
  <2>4. game.score = game.made
    BY DEF OwnPoints
  <2>5. CASE once.counter = game.counter
    BY <1>1, <2>1, <2>2, <2>4, <2>5, SortedFair DEF OwnPoints
  <2>6. CASE once.counter # game.counter
    BY <2>1, <2>3, <2>4, <2>6 DEF OwnPoints, Won
  <2> QED
    BY <2>5, <2>6
<1> QED
  BY <1>2, <1>3 DEF Comings, Leave, ChangeTeam, Join

LEMMA StepFair ==
    ASSUME TeamGame, TypeOK, OwnPoints(game), [Next]_vars
    PROVE  OwnPoints(game') /\ (Points \/ Comings => Won)
<1> USE DEF OwnPoints
<1>1. game \in GameType /\ game.score = game.made
  BY DEF TypeOK
<1>2. CASE Points
  BY <1>2, PointsFair DEF Points
<1>3. CASE Comings
  BY <1>3, ComingsFair
<1>4. CASE ~Points /\ ~Comings
  <2> SUFFICES game'.score = game'.made
    BY <1>4
  <2>1. CASE EndFrame
    <3>1. CASE game' = [game EXCEPT !.bullettime = @ - 1]
      BY <1>1, <3>1 DEF GameType
    <3>2. CASE \E tenth \in BOOLEAN : game' = Timers(game, role, tenth)
      BY <1>1, <3>2, TimersStep DEF TypeOK
    <3> QED
      BY <2>1, <3>1, <3>2 DEF EndFrame
  <2>2. CASE BeginFrame \/ UNCHANGED vars
    BY <1>1, <2>2 DEF BeginFrame, vars
  <2>3. CASE \/ BulletTimeOn \/ CommandPause \/ CommandUnpause \/ CommandRestart
    BY <1>1, <2>3 DEF BulletTimeOn, CommandPause, CommandUnpause, CommandRestart, GameType
  <2>4. ASSUME NEW m \in ListMaps, MapVoted(m) \/ CommandMap(m)
        PROVE  game'.score = game'.made
    BY <1>1, <2>4, PrepareAnnounces DEF MapVoted, CommandMap, Announced
  <2>5. CASE CommandNextMap
    BY <1>1, <2>5, NextMapAnnounces DEF CommandNextMap, Announced
  <2> QED
    BY <1>4, <2>1, <2>2, <2>3, <2>4, <2>5 DEF Next, Frame, Points, Comings
<1> QED
  BY <1>2, <1>3, <1>4

-----------------------------------------------------------------------------
\* The types are correct, whatever the admin does.
THEOREM TypeCorrect == Spec => []TypeOK
<1>1. TypeOK /\ [Next]_vars => TypeOK'
  BY StepKeeps
<1> QED
  BY <1>1, InitHolds, PTL DEF Spec

\* preparemapchange and changemap: without the admin every map has been announced
\* mapchangetime frames before it comes, whatever overlaps.
THEOREM Graceful ==
    ASSUME MaxCommands = 0 PROVE Spec => GraceKept
<1> DEFINE GInv == TypeOK /\ NoPause(game) /\ GraceOf(game)
<1>1. Init => GInv
  BY InitHolds
<1>2. GInv /\ [Next]_vars => GInv'
  BY StepKeeps DEF Keeps
<1>3. GInv /\ [Next]_vars => [game'.map # game.map => game.age >= MapChangeTime]_vars
  BY StepKeeps DEF Keeps
<1> QED
  BY <1>1, <1>2, <1>3, PTL DEF Spec, GraceKept

\* sortplayers: as long as the maps exist and the admin keeps out of it, whoever
\* plays at the point limit plays in a game whose end is counted down.
THEOREM Noticed ==
    ASSUME MaxCommands = 0, MapsExist PROVE Spec => []LimitNoticed
<1> DEFINE LInv == TypeOK /\ NoPause(game) /\ LimitOf(game, role)
<1>1. Init => LInv
  BY InitHolds
<1>2. LInv /\ [Next]_vars => LInv'
  BY StepKeeps DEF Keeps
<1>3. LInv => LimitNoticed
  BY DEF LimitOf, LimitNoticed, Playing
<1> QED
  BY <1>1, <1>2, <1>3, PTL DEF Spec

\* sortplayers, in a game of teams: who scores, joins, leaves or changes sides ends a
\* game only when a team has made its points in it, whatever the admin does.
THEOREM TeamsWin ==
    ASSUME TeamGame PROVE Spec => FairEnd
<1> DEFINE FInv == TypeOK /\ OwnPoints(game)
<1>1. Init => FInv
  BY InitHolds DEF Init, OwnPoints
<1>2. FInv /\ [Next]_vars => FInv'
  BY StepKeeps, StepFair
<1>3. FInv /\ [Next]_vars =>
        [game.counter < 0 /\ game'.counter >= 0
         /\ (\/ \E s \in Scorers, n \in 1 .. 2 : Scores(s, n)
             \/ \E p \in Person : Leave(p) \/ ChangeTeam(p) \/ Join(p, "playing") \/ Join(p, "spectating"))
         => \E s \in Scorers : game'.made[s] >= KillLimit]_vars
  BY StepFair DEF Points, Comings, Won
<1> QED
  BY <1>1, <1>2, <1>3, PTL DEF Spec, FairEnd

=============================================================================
