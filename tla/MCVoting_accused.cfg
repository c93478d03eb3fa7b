\* The accused leaves and somebody else is given the slot.
CONSTANTS
    p1 = p1
    p2 = p2
    p3 = p3
    m1 = m1
    m2 = m2
    Person <- ThreePersons
    Admins <- NoPersons
    Bot = Bot
    Nobody = Nobody
    MaxPlayers = 2
    MapsList <- OneMap
    NoMap = NoMap
    VotePercent = 60
    VotingTime = 3
    VoteTime = 1
    MaxDetections = 1
SPECIFICATION Spec
PROPERTY KickHitsAccused
