----------------------------- MODULE SessionsFacts -----------------------------
(* What Sessions amounts to, for any connections and any number of seats.        *)
EXTENDS Sessions, FiniteSetTheorems, TLAPS

\* Constants of a server that can be run.  (They are hypotheses and no ASSUME: whoever
\* implements Sessions has assumptions of its own.)
SeatsGiven == MaxPlayers \in Nat /\ SvMaxPlayers \in Nat

TypeOK == stage \in [Conn -> Stages] /\ seat \in [Conn -> {0} \cup Seats]

Playing(c) == stage[c] = "player"

\* A seat comes with the admission, and stays with its owner until that one parts.
Seated == \A c \in Conn :
    /\ stage[c] \in {"away", "guest", "admitted"} => seat[c] = 0
    /\ Playing(c) => seat[c] \in Seats

Alone == \A c, d \in Conn : Playing(c) /\ Playing(d) /\ seat[c] = seat[d] => c = d

Counted == Cardinality(PublicSeats) <= SvMaxPlayers

FactsInv == TypeOK /\ Seated /\ Alone /\ Counted

LEMMA SeatsCountable ==
    ASSUME SeatsGiven
    PROVE  \A S \in SUBSET Seats : IsFiniteSet(S) /\ Cardinality(S) \in Nat
<1>1. IsFiniteSet(Seats)
  BY FS_Interval DEF SeatsGiven, Seats
<1> QED
  BY <1>1, FS_Subset, FS_CardinalityType

LEMMA PublicWithin == Seated => PublicSeats \subseteq Seats
BY DEF Seated, Playing, PublicSeats

\* A step that seats nobody anew keeps what is said of those who play.
LEMMA NobodySeated ==
    ASSUME SeatsGiven, FactsInv, TypeOK',
           \A c \in Conn : Playing(c)' => Playing(c) /\ seat'[c] = seat[c],
           \A c \in Conn : stage'[c] \in {"away", "guest", "admitted"} => seat'[c] = 0
    PROVE  FactsInv'
<1>1. Seated'
  BY DEF FactsInv, Seated, Playing
<1>2. Alone'
  BY DEF FactsInv, Alone, Playing
<1>3. PublicSeats' \subseteq PublicSeats
  BY DEF PublicSeats, Playing
<1>4. PublicSeats \in SUBSET Seats
  BY PublicWithin DEF FactsInv
<1>5. /\ IsFiniteSet(PublicSeats) /\ Cardinality(PublicSeats) \in Nat
      /\ Cardinality(PublicSeats') \in Nat
  BY <1>3, <1>4, SeatsCountable
<1>6. Cardinality(PublicSeats') <= Cardinality(PublicSeats)
  BY <1>3, <1>5, FS_Subset
<1>7. Counted'
  BY <1>5, <1>6 DEF FactsInv, Counted, SeatsGiven
<1> QED
  BY <1>1, <1>2, <1>7 DEF FactsInv

LEMMA MovesFacts ==
    ASSUME TypeOK, NEW c \in Conn, NEW from, NEW to \in Stages, Moves(c, from, to)
    PROVE  /\ stage[c] = from /\ stage'[c] = to
           /\ \A d \in Conn \ {c} : stage'[d] = stage[d]
           /\ stage' \in [Conn -> Stages]
BY DEF TypeOK, Moves

\* One who sits down takes an empty seat, and a public one only while there are some.
LEMMA SitKeeps == ASSUME SeatsGiven, FactsInv, NEW c \in Conn, Sit(c) PROVE FactsInv'
<1>1. PICK i \in Seats :
        /\ \A d \in Conn : ~(Playing(d) /\ seat[d] = i)
        /\ seat' = [seat EXCEPT ![c] = i]
  BY DEF Sit, Playing
<1>2. /\ stage[c] = "admitted" /\ stage'[c] \in {"player", "benched"}
      /\ \A d \in Conn \ {c} : stage'[d] = stage[d]
      /\ stage' \in [Conn -> Stages]
  BY MovesFacts DEF Sit, FactsInv, Stages
<1>3. seat'[c] = i /\ \A d \in Conn \ {c} : seat'[d] = seat[d]
  BY <1>1 DEF FactsInv, TypeOK
<1>4. TypeOK'
  BY <1>1, <1>2 DEF FactsInv, TypeOK
<1>5. Seated'
  BY <1>2, <1>3 DEF FactsInv, Seated, Playing
<1>6. Alone'
  <2> SUFFICES ASSUME NEW d \in Conn, NEW e \in Conn, Playing(d)', Playing(e)', seat'[d] = seat'[e]
               PROVE  d = e
    BY DEF Alone, Playing
  <2>1. \A x \in Conn \ {c} : Playing(x)' => Playing(x) /\ seat'[x] = seat[x] /\ seat[x] # i
    BY <1>1, <1>2, <1>3 DEF Playing
  <2> QED
    BY <1>3, <2>1 DEF FactsInv, Alone
<1>7. Counted'
  <2>1. PublicSeats \in SUBSET Seats
    BY PublicWithin DEF FactsInv
  <2>2. IsFiniteSet(PublicSeats) /\ Cardinality(PublicSeats) \in Nat
    BY <2>1, SeatsCountable
  <2>3. CASE c \in RemoteAdmins
    <3>1. PublicSeats' \subseteq PublicSeats
      BY <1>2, <1>3, <2>3 DEF PublicSeats
    <3>2. Cardinality(PublicSeats') <= Cardinality(PublicSeats)
      BY <2>2, <3>1, FS_Subset
    <3>3. Cardinality(PublicSeats') \in Nat
      BY <2>1, <3>1, SeatsCountable
    <3> QED
      BY <2>2, <3>2, <3>3 DEF FactsInv, Counted, SeatsGiven
  <2>4. CASE Cardinality(PublicSeats) < SvMaxPlayers
    <3>1. PublicSeats' \subseteq PublicSeats \cup {i}
      BY <1>2, <1>3 DEF PublicSeats
    <3>2. /\ IsFiniteSet(PublicSeats \cup {i})
          /\ Cardinality(PublicSeats \cup {i}) \in {Cardinality(PublicSeats), Cardinality(PublicSeats) + 1}
      BY <2>2, FS_AddElement
    <3>3. Cardinality(PublicSeats') <= Cardinality(PublicSeats \cup {i})
      BY <3>1, <3>2, FS_Subset
    <3>4. PublicSeats' \in SUBSET Seats
      BY <1>1, <2>1, <3>1
    <3>5. Cardinality(PublicSeats') \in Nat
      BY <3>4, SeatsCountable
    <3> QED
      BY <2>2, <2>4, <3>2, <3>3, <3>5 DEF Counted, SeatsGiven
  <2> QED
    BY <2>3, <2>4 DEF Sit
<1> QED
  BY <1>4, <1>5, <1>6, <1>7 DEF FactsInv

LEMMA FactsStep == ASSUME SeatsGiven, FactsInv, [Next]_vars PROVE FactsInv'
<1>1. ASSUME NEW c \in Conn, Meet(c) \/ Admit(c) \/ SendOff(c) PROVE FactsInv'
  <2>1. /\ seat' = seat
        /\ \/ stage[c] = "away" /\ stage'[c] = "guest"
           \/ stage[c] = "guest" /\ stage'[c] = "admitted"
           \/ stage[c] = "player" /\ stage'[c] = "benched"
        /\ \A d \in Conn \ {c} : stage'[d] = stage[d]
        /\ stage' \in [Conn -> Stages]
    BY <1>1, MovesFacts DEF Meet, Admit, SendOff, FactsInv, Stages
  <2>2. TypeOK'
    BY <2>1 DEF FactsInv, TypeOK
  <2>3. \A d \in Conn : /\ Playing(d)' => Playing(d) /\ seat'[d] = seat[d]
                        /\ stage'[d] \in {"away", "guest", "admitted"} => seat'[d] = 0
    BY <2>1 DEF FactsInv, Seated, Playing
  <2> QED
    BY <2>2, <2>3, NobodySeated
<1>2. ASSUME NEW c \in Conn, Sit(c) PROVE FactsInv'
  BY <1>2, SitKeeps
<1>3. ASSUME NEW c \in Conn, Part(c) PROVE FactsInv'
  <2>1. /\ stage' \in [Conn -> Stages] /\ seat' \in [Conn -> {0} \cup Seats]
        /\ stage'[c] = "gone"
        /\ \A d \in Conn \ {c} : /\ stage'[d] \in {stage[d], "benched"}
                                 /\ seat'[d] = seat[d]
    BY <1>3 DEF Part, FactsInv, TypeOK, Stages
  <2>2. \A d \in Conn : /\ Playing(d)' => Playing(d) /\ seat'[d] = seat[d]
                        /\ stage'[d] \in {"away", "guest", "admitted"} => seat'[d] = 0
    BY <2>1 DEF FactsInv, Seated, Playing
  <2> QED
    BY <2>1, <2>2, NobodySeated DEF TypeOK
<1>4. CASE Close
  <2>1. /\ stage' \in [Conn -> Stages] /\ seat' = seat
        /\ \A d \in Conn : stage'[d] = IF stage[d] = "player" THEN "benched" ELSE stage[d]
    BY <1>4 DEF Close, FactsInv, TypeOK, Stages
  <2>2. \A d \in Conn : /\ Playing(d)' => Playing(d) /\ seat'[d] = seat[d]
                        /\ stage'[d] \in {"away", "guest", "admitted"} => seat'[d] = 0
    BY <2>1 DEF FactsInv, Seated, Playing
  <2> QED
    BY <2>1, <2>2, NobodySeated DEF FactsInv, TypeOK
<1>5. CASE UNCHANGED vars
  BY <1>5 DEF vars, FactsInv, TypeOK, Seated, Alone, Counted, Playing, PublicSeats
<1> QED
  BY <1>1, <1>2, <1>3, <1>4, <1>5 DEF Next

LEMMA FactsInit == ASSUME SeatsGiven, Init PROVE FactsInv
<1>1. TypeOK /\ Seated /\ Alone
  BY DEF Init, TypeOK, Seated, Alone, Playing, Stages
<1>2. PublicSeats = {}
  BY DEF PublicSeats, Init
<1> QED
  BY <1>1, <1>2, FS_EmptySet DEF FactsInv, Counted, SeatsGiven

\* Whoever plays has a seat of their own, and the public has no more seats than
\* sv_maxplayers (SeatsSound), however many come and go.
THEOREM SeatsAreSound == ASSUME SeatsGiven PROVE Spec => []SeatsSound
<1>1. FactsInv => SeatsSound
  BY DEF FactsInv, Seated, Alone, Counted, Playing, SeatsSound
<1> QED
  BY <1>1, FactsInit, FactsStep, PTL DEF Spec

LEMMA OnwardStep == ASSUME TypeOK, Seated, [Next]_vars, NEW c \in Conn PROVE Onward(c)
<1>1. ASSUME NEW d \in Conn, Meet(d) \/ Admit(d) \/ SendOff(d) PROVE Onward(c)
  BY <1>1, MovesFacts DEF Meet, Admit, SendOff, Onward, Stages
<1>2. ASSUME NEW d \in Conn, Sit(d) PROVE Onward(c)
  <2>1. /\ stage[d] = "admitted" /\ stage'[d] \in {"player", "benched"}
        /\ \A e \in Conn \ {d} : stage'[e] = stage[e] /\ seat'[e] = seat[e]
    BY <1>2, MovesFacts DEF Sit, TypeOK, Stages
  <2> QED
    BY <2>1 DEF Onward, Seated
<1>3. ASSUME NEW d \in Conn, Part(d) PROVE Onward(c)
  BY <1>3 DEF Part, Onward, TypeOK
<1>4. CASE Close \/ UNCHANGED vars
  BY <1>4 DEF Close, vars, Onward, TypeOK
<1> QED
  BY <1>1, <1>2, <1>3, <1>4 DEF Next

\* Nobody comes back from the bench or from outside, and nobody changes seats
\* (NoWayBack): every connection plays one game at most, in one seat.
THEOREM ThereIsNoWayBack == ASSUME SeatsGiven PROVE Spec => NoWayBack
<1>1. FactsInv /\ [Next]_vars => [\A c \in Conn : Onward(c)]_vars
  BY OnwardStep DEF FactsInv
<1> QED
  BY <1>1, FactsInit, FactsStep, PTL DEF Spec, NoWayBack

=============================================================================
