\* Three people in turn on two slots, one of them an admin, with the fairness of
\* the loop.
CONSTANTS
    p1 = p1
    p2 = p2
    p3 = p3
    m1 = m1
    m2 = m2
    Person <- ThreePersons
    Admins <- LastPerson
    Bot = Bot
    Nobody = Nobody
    MaxPlayers = 2
    MapsList <- OneMap
    NoMap = NoMap
    VotePercent = 60
    VotingTime = 2
    VoteTime = 1
    MaxDetections = 1
SPECIFICATION Spec
INVARIANTS TypeOK NoResidue OneBallotEach
PROPERTIES Implements Patience AdminsStay VoteEnds
