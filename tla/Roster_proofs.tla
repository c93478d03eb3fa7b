----------------------------- MODULE Roster_proofs -----------------------------
(* Proofs about Roster, for any clients and any number of sprites.               *)
EXTENDS Roster, FiniteSetTheorems, SequenceTheorems, TLAPS

-----------------------------------------------------------------------------
(* Types *)

LEMMA MessageFacts ==
    ASSUME TypeOK
    PROVE  /\ PlayersList \in Message
           /\ \A i \in Slots, c \in Clients :
                /\ PlayerDisconnect(i)[c] = [kind |-> "left", slots |-> {i}]
                /\ PlayerDisconnect(i)[c] \in Message
           /\ \A i \in Slots, c \in Clients : \A num :
                /\ NewPlayer(i, num)[c]
                     = [kind |-> IF num[c] = i THEN "yours" ELSE "new", slots |-> {i}]
                /\ NewPlayer(i, num)[c] \in Message
BY DEF PlayersList, PlayerDisconnect, NewPlayer, Message, Slots

LEMMA SentTyped ==
    ASSUME NEW queues \in [Clients -> Seq(Message)], NEW m, \A c \in Clients : m[c] \in Message
    PROVE  /\ Sent(queues, m) \in [Clients -> Seq(Message)]
           /\ \A c \in Clients :
                Sent(queues, m)[c] = IF Open(c) THEN Append(queues[c], m[c]) ELSE queues[c]
<1>1. \A c \in Clients : Append(queues[c], m[c]) \in Seq(Message)
  BY AppendProperties
<1> QED
  BY <1>1 DEF Sent

Queues == [Clients -> Seq(Message)]

LEMMA NewsTyped ==
    ASSUME TypeOK
    PROVE  \A i \in Slots :
            /\ \A q \in Queues : Sent(q, PlayerDisconnect(i)) \in Queues
            /\ \A num : \A q \in Queues : Sent(q, NewPlayer(i, num)) \in Queues
<1> TAKE i \in Slots
<1>1. ASSUME NEW q \in Queues PROVE Sent(q, PlayerDisconnect(i)) \in Queues
  <2>1. \A c \in Clients : PlayerDisconnect(i)[c] \in Message
    BY MessageFacts
  <2> QED
    BY <2>1, SentTyped DEF Queues
<1>2. ASSUME NEW q \in Queues, NEW num PROVE Sent(q, NewPlayer(i, num)) \in Queues
  <2>1. \A c \in Clients : NewPlayer(i, num)[c] \in Message
    BY MessageFacts
  <2> QED
    BY <2>1, SentTyped DEF Queues
<1> QED
  BY <1>1, <1>2

LEMMA EndTyped ==
    ASSUME TypeOK, NEW c \in Clients, EndSession(c)
    PROVE  /\ session' \in [Clients -> {"away", "open", "over"}]
           /\ heartbeats' \in [Clients -> SUBSET (0 .. MaxSprites)]
           /\ view' \in [Clients -> SUBSET Slots]
           /\ hidden' \in [Clients -> SUBSET Slots]
           /\ mysprite' \in [Clients -> 0 .. MaxSprites]
           /\ requestinggame' \in [Clients -> BOOLEAN]
<1>1. 0 \in 0 .. MaxSprites
  BY SpritesAssumption
<1> QED
  BY <1>1 DEF TypeOK, EndSession

LEMMA HeadTyped ==
    ASSUME TypeOK, NEW c \in Clients, toClient[c] # <<>>
    PROVE  /\ toClient[c] \in Seq(Message)
           /\ Head(toClient[c]) \in Message
           /\ Head(toClient[c]).slots \subseteq Slots
           /\ Tail(toClient[c]) \in Seq(Message)
<1>1. toClient[c] \in Seq(Message)
  BY DEF TypeOK
<1>2. Head(toClient[c]) \in Message /\ Tail(toClient[c]) \in Seq(Message)
  BY <1>1, HeadTailProperties
<1> QED
  BY <1>1, <1>2 DEF Message

LEMMA SlotFacts ==
    /\ MaxSprites \in Slots
    /\ \A i \in Slots : i \in 0 .. MaxSprites /\ i # 0
    /\ Clients \subseteq Players /\ Nobody \in Players /\ Bot \in Players /\ DemoCam \in Players
BY SpritesAssumption DEF Slots, Players

LEMMA CountTyped == \A S \in SUBSET Slots : IsFiniteSet(S) /\ Cardinality(S) \in 0 .. MaxSprites
<1>1. IsFiniteSet(Slots) /\ Cardinality(Slots) = MaxSprites
  BY SpritesAssumption, FS_Interval DEF Slots
<1> TAKE S \in SUBSET Slots
<1>2. IsFiniteSet(S) /\ Cardinality(S) <= MaxSprites
  BY <1>1, FS_Subset
<1>3. Cardinality(S) \in Nat
  BY <1>2, FS_CardinalityType
<1> QED
  BY <1>2, <1>3, SpritesAssumption

LEMMA FirstWithin == ASSUME NEW S, NEW n PROVE First(S, n) \subseteq S
BY DEF First

\* Every step keeps every variable in its type.
LEMMA TypeStep == ASSUME TypeOK, [Next]_vars PROVE TypeOK'
<1> USE DEF server, client
<1>1. ASSUME NEW c \in Clients, Connected(c) PROVE TypeOK'
  BY <1>1 DEF Connected, TypeOK
<1>2. ASSUME NEW c \in Clients, Unaccepted(c) PROVE TypeOK'
  <2>1. <<>> \in Seq(Message)
    OBVIOUS
  <2> QED
    BY <1>2, <2>1, EndTyped DEF Unaccepted, TypeOK
<1>3. ASSUME NEW c \in Clients, HandleRequestGame(c) PROVE TypeOK'
  <2>1. CASE Unaccepted(c)
    BY <2>1, <1>2
  <2>2. Append(toClient[c], PlayersList) \in Seq(Message)
    BY MessageFacts, AppendProperties DEF TypeOK
  <2> QED
    BY <1>3, <2>1, <2>2 DEF HandleRequestGame, TypeOK
<1>4. ASSUME NEW c \in Clients, NEW i \in Slots, FirstFree(i), Join(c, i) PROVE TypeOK'
  <2>1. player' \in [Slots -> Players] /\ spritenum' \in [Clients -> 0 .. MaxSprites]
    BY <1>4, SlotFacts DEF Join, SpriteNumber, TypeOK
  <2>2. PICK flooding \in BOOLEAN :
          /\ active' = [active EXCEPT ![i] = ~flooding]
          /\ toClient' = IF flooding
                         THEN Sent(Sent(toClient, NewPlayer(i, spritenum')), PlayerDisconnect(i))
                         ELSE Sent(toClient, NewPlayer(i, spritenum'))
    BY <1>4 DEF Join
  <2>3. toClient \in Queues
    BY DEF TypeOK, Queues
  <2>4. toClient' \in [Clients -> Seq(Message)]
    BY <2>2, <2>3, NewsTyped DEF Queues
  <2> QED
    BY <1>4, <2>1, <2>2, <2>4 DEF Join, Announced, TypeOK
<1>5. ASSUME NEW c \in Clients, HandlePlayerInfo(c) PROVE TypeOK'
  BY <1>5, <1>2, <1>4 DEF HandlePlayerInfo
<1>6. ASSUME NEW c \in Clients, HandleLeave(c) PROVE TypeOK'
  <2>1. spritenum[c] \in Slots
    BY <1>6 DEF HandleLeave, TypeOK, Slots
  <2>2. Sent(toClient, PlayerDisconnect(spritenum[c])) \in [Clients -> Seq(Message)]
    BY <2>1, NewsTyped DEF TypeOK, Queues
  <2>3. active' \in [Slots -> BOOLEAN] /\ player' \in [Slots -> Players]
    BY <1>6, SlotFacts DEF HandleLeave, TypeOK
  <2> QED
    BY <1>6, <2>2, <2>3, EndTyped DEF HandleLeave, Announced, TypeOK
<1>7. ASSUME NEW c \in Clients, Lost(c) PROVE TypeOK'
  <2>0. 0 \in 0 .. MaxSprites
    BY SpritesAssumption
  <2>a. gamerequested' = [gamerequested EXCEPT ![c] = FALSE]
       /\ spritenum' = [spritenum EXCEPT ![c] = 0]
    BY <1>7 DEF Lost
  <2>1. gamerequested' \in [Clients -> BOOLEAN] /\ spritenum' \in [Clients -> 0 .. MaxSprites]
    BY <2>0, <2>a DEF TypeOK
  <2>2. CASE spritenum[c] = 0
    <3>1. /\ toClient' = [toClient EXCEPT ![c] = <<>>]
          /\ UNCHANGED <<active, player, unannounced, recording, moves>> /\ EndSession(c)
      BY <1>7, <2>2 DEF Lost
    <3>2. toClient' \in [Clients -> Seq(Message)]
      BY <3>1 DEF TypeOK
    <3> QED
      BY <2>1, <3>1, <3>2, EndTyped DEF TypeOK
  <2>3. CASE spritenum[c] # 0
    <3>1. spritenum[c] \in Slots
      BY <2>3 DEF TypeOK, Slots
    <3>2. Sent(toClient, PlayerDisconnect(spritenum[c])) \in [Clients -> Seq(Message)]
      BY <3>1, NewsTyped DEF TypeOK, Queues
    <3>3. /\ active' = [active EXCEPT ![spritenum[c]] = FALSE]
          /\ player' = [player EXCEPT ![spritenum[c]] = Nobody]
          /\ toClient' = [Sent(toClient, PlayerDisconnect(spritenum[c])) EXCEPT ![c] = <<>>]
          /\ unannounced' = unannounced \ {spritenum[c]}
          /\ recording' = recording /\ moves' = moves /\ EndSession(c)
      BY <1>7, <2>3 DEF Lost, Announced
    <3>4. active' \in [Slots -> BOOLEAN] /\ player' \in [Slots -> Players]
      BY <3>3, SlotFacts DEF TypeOK
    <3>5. toClient' \in [Clients -> Seq(Message)]
      BY <3>2, <3>3
    <3> HIDE DEF Lost
    <3> QED
      BY <2>1, <3>3, <3>4, <3>5, EndTyped DEF TypeOK
  <2> QED
    BY <2>2, <2>3
<1>8. moves + 1 \in 0 .. MaxMoves \/ ~(moves < MaxMoves)
  BY MovesAssumption DEF TypeOK
<1>9. ASSUME NEW i \in Slots, ChangeTeam(i) PROVE TypeOK'
  <2>1. toClient' \in [Clients -> Seq(Message)]
    BY <1>9, NewsTyped DEF ChangeTeam, TypeOK, Queues
  <2> QED
    BY <1>8, <1>9, <2>1 DEF ChangeTeam, Move, Announced, TypeOK
<1>10. ASSUME NEW i \in Slots, KickPlayer(i) PROVE TypeOK'
  <2>1. toClient' \in [Clients -> Seq(Message)]
    BY <1>10, NewsTyped DEF KickPlayer, TypeOK, Queues
  <2> QED
    BY <1>8, <1>10, <2>1 DEF KickPlayer, Move, Announced, TypeOK
<1>11. ASSUME NEW i \in Slots, AddBotPlayer(i) PROVE TypeOK'
  <2>1. Sent(toClient, NewPlayer(i, spritenum)) \in [Clients -> Seq(Message)]
    BY NewsTyped DEF TypeOK, Queues
  <2>2. player' \in [Slots -> Players]
    BY <1>11, SlotFacts DEF AddBotPlayer, TypeOK
  <2> QED
    BY <1>8, <1>11, <2>1, <2>2 DEF AddBotPlayer, Move, Announced, TypeOK
<1>12. LastKilled => unannounced' \subseteq Slots
  BY SlotFacts DEF LastKilled, TypeOK
<1>13. CASE StopRecord
  BY <1>12, <1>13 DEF StopRecord, TypeOK
<1>14. CASE StartRecord
  BY <1>8, <1>12, <1>14, SlotFacts DEF StartRecord, Move, TypeOK
<1>15. CASE ServerHeartbeat
  <2>1. Cardinality({i \in Slots : active[i]}) \in 0 .. MaxSprites
    BY CountTyped
  <2>2. heartbeats' \in [Clients -> SUBSET (0 .. MaxSprites)]
    BY <1>15, <2>1 DEF ServerHeartbeat, TypeOK
  <2> QED
    BY <1>8, <1>15, <2>2 DEF ServerHeartbeat, Move, TypeOK
<1>16. ASSUME NEW c \in Clients, HandleReliable(c) PROVE TypeOK'
  <2>1. toClient[c] # <<>>
    BY <1>16 DEF HandleReliable, HandlePlayersList, CannotLoadMap, HandleNewPlayer,
                 HandlePlayerDisconnect, Arrives
  <2>2. CASE HandlePlayersList(c)
    <3>1. 0 \in 0 .. MaxSprites /\ toClient' \in [Clients -> Seq(Message)]
      BY <2>1, <2>2, HeadTyped, SpritesAssumption DEF HandlePlayersList, Arrives, TypeOK
    <3>2. Head(toClient[c]).slots \subseteq Slots
      BY <2>1, HeadTyped
    <3>3. \/ Shows(c) /\ mysprite' = [mysprite EXCEPT ![c] = 0]
          \/ /\ hidden' = [hidden EXCEPT ![c] = @ \cup (Head(toClient[c]).slots \ view[c])]
             /\ UNCHANGED <<view, mysprite>>
      BY <2>2 DEF HandlePlayersList
    <3>4. view[c] \subseteq Slots /\ hidden[c] \subseteq Slots
      BY DEF TypeOK
    <3>5. view' \in [Clients -> SUBSET Slots] /\ hidden' \in [Clients -> SUBSET Slots]
      <4> DEFINE h == Head(toClient[c]).slots
      <4>1. view[c] \cup h \subseteq Slots /\ hidden[c] \ h \subseteq Slots
            /\ hidden[c] \cup (h \ view[c]) \subseteq Slots
        BY <3>2, <3>4
      <4>2. view \in [Clients -> SUBSET Slots] /\ hidden \in [Clients -> SUBSET Slots]
        BY DEF TypeOK
      <4>3. \/ view' = [view EXCEPT ![c] = view[c] \cup h]
               /\ hidden' = [hidden EXCEPT ![c] = hidden[c] \ h]
            \/ view' = view /\ hidden' = [hidden EXCEPT ![c] = hidden[c] \cup (h \ view[c])]
        BY <3>3 DEF Shows
      <4> HIDE DEF h
      <4> QED
        BY <4>1, <4>2, <4>3
    <3>6. mysprite' \in [Clients -> 0 .. MaxSprites]
      BY <3>1, <3>3 DEF TypeOK
    <3> QED
      BY <2>2, <3>1, <3>5, <3>6 DEF HandlePlayersList, Arrives, TypeOK
  <2>3. CASE CannotLoadMap(c)
    BY <2>3, EndTyped DEF CannotLoadMap, TypeOK
  <2>4. CASE HandleNewPlayer(c)
    BY <2>1, <2>4, HeadTyped, SlotFacts DEF HandleNewPlayer, Arrives, Shows, TypeOK
  <2>5. CASE HandlePlayerDisconnect(c)
    BY <2>1, <2>5, HeadTyped DEF HandlePlayerDisconnect, Arrives, TypeOK
  <2> QED
    BY <1>16, <2>2, <2>3, <2>4, <2>5 DEF HandleReliable
<1>17. ASSUME NEW c \in Clients, NEW n \in 0 .. MaxSprites, HandleHeartbeat(c, n) PROVE TypeOK'
  <2>1. First(view[c], n) \subseteq view[c] /\ view[c] \subseteq Slots
    BY FirstWithin DEF TypeOK
  <2> QED
    BY <1>17, <2>1 DEF HandleHeartbeat, TypeOK
<1>18. CASE UNCHANGED vars
  BY <1>18 DEF vars, TypeOK
<1> QED
  BY <1>1, <1>3, <1>5, <1>6, <1>7, <1>9, <1>10, <1>11, <1>13, <1>14, <1>15, <1>16, <1>17,
     <1>18 DEF Next, ServerStep, ClientStep, Ended

LEMMA TypeInit == Init => TypeOK
<1>1. <<>> \in Seq(Message) /\ 0 \in 0 .. MaxSprites /\ 0 \in 0 .. MaxMoves
  BY SpritesAssumption, MovesAssumption
<1>2. Init => toClient \in [Clients -> Seq(Message)]
  BY <1>1 DEF Init
<1>3. Init => player \in [Slots -> Players]
  BY SlotFacts DEF Init
<1> QED
  BY <1>1, <1>2, <1>3 DEF Init, TypeOK

\* Every variable stays in its type (TypeOK), for any clients and slots.
THEOREM TypeCorrect == Spec => []TypeOK
BY TypeInit, TypeStep, PTL DEF Spec

-----------------------------------------------------------------------------
(* Queues *)

\* WillShow and AdoptsOwn of a queue q, of sprites S and of the sprite "my".
About(q, i, k) ==
    /\ i \in q[k].slots
    /\ \A l \in DOMAIN q : l > k => i \notin q[l].slots
Show(q, S, i) ==
    \/ \E k \in DOMAIN q : About(q, i, k) /\ q[k].kind # "left"
    \/ (\A k \in DOMAIN q : i \notin q[k].slots) /\ i \in S

Gift(q, k) ==
    /\ q[k].kind = "yours"
    /\ \A l \in DOMAIN q : l > k => q[l].kind \notin {"list", "yours"}
Adopted(q, my, n) ==
    \/ \E k \in DOMAIN q : Gift(q, k) /\ q[k].slots = {n}
    \/ (\A k \in DOMAIN q : q[k].kind \notin {"list", "yours"}) /\ my = n

LEMMA WillShowIsShow ==
    ASSUME NEW c, NEW i
    PROVE  WillShow(c, i) <=> Show(toClient[c], view[c] \cup hidden[c], i)
BY DEF WillShow, Show, LastAbout, About

LEMMA AppendFacts ==
    ASSUME NEW q \in Seq(Message), NEW m \in Message
    PROVE  /\ Len(q) \in Nat /\ DOMAIN q = 1 .. Len(q)
           /\ DOMAIN Append(q, m) = 1 .. (Len(q) + 1)
           /\ \A k \in 1 .. Len(q) : Append(q, m)[k] = q[k]
           /\ Append(q, m)[Len(q) + 1] = m
<1>1. Append(q, m) \in Seq(Message) /\ Len(Append(q, m)) = Len(q) + 1
  BY AppendProperties
<1> QED
  BY <1>1, AppendProperties

LEMMA TailFacts ==
    ASSUME NEW q \in Seq(Message), q # <<>>
    PROVE  /\ Len(q) \in Nat \ {0} /\ DOMAIN q = 1 .. Len(q)
           /\ DOMAIN Tail(q) = 1 .. (Len(q) - 1)
           /\ \A k \in 1 .. (Len(q) - 1) : Tail(q)[k] = q[k + 1]
           /\ Head(q) = q[1]
<1>1. Tail(q) \in Seq(Message) /\ Len(Tail(q)) = Len(q) - 1
      /\ \A k \in 1 .. Len(Tail(q)) : Tail(q)[k] = q[k + 1]
  BY HeadTailProperties
<1>2. Len(q) \in Nat \ {0} /\ DOMAIN q = 1 .. Len(q) /\ Head(q) = q[1]
  BY EmptySeq
<1> QED
  BY <1>1, <1>2

\* The last message about a slot decides what will be shown of it.
LEMMA ShowAppend ==
    ASSUME NEW q \in Seq(Message), NEW m \in Message, NEW S, NEW i
    PROVE  /\ i \in m.slots => (Show(Append(q, m), S, i) <=> m.kind # "left")
           /\ i \notin m.slots => (Show(Append(q, m), S, i) <=> Show(q, S, i))
<1> DEFINE r == Append(q, m)
           n == Len(q)
<1>1. /\ n \in Nat /\ DOMAIN q = 1 .. n /\ DOMAIN r = 1 .. (n + 1)
      /\ \A k \in 1 .. n : r[k] = q[k]
      /\ r[n + 1] = m
  BY AppendFacts
<1> HIDE DEF r, n
<1>2. ASSUME i \in m.slots PROVE Show(r, S, i) <=> m.kind # "left"
  <2>1. About(r, i, n + 1)
    BY <1>1, <1>2 DEF About
  <2>2. \A k \in DOMAIN r : About(r, i, k) => k = n + 1
    BY <1>1, <1>2 DEF About
  <2> QED
    BY <1>1, <1>2, <2>1, <2>2 DEF Show
<1>3. ASSUME i \notin m.slots PROVE Show(r, S, i) <=> Show(q, S, i)
  <2>1. \A k \in DOMAIN q : k \in DOMAIN r /\ r[k] = q[k]
    BY <1>1
  <2>2. \A k \in DOMAIN r : i \in r[k].slots => k \in DOMAIN q
    BY <1>1, <1>3
  <2>3. \A k \in DOMAIN q : About(r, i, k) <=> About(q, i, k)
    BY <2>1, <2>2 DEF About
  <2>4. \A k \in DOMAIN r : About(r, i, k) => k \in DOMAIN q
    BY <2>2 DEF About
  <2>5. (\A k \in DOMAIN r : i \notin r[k].slots) <=> (\A k \in DOMAIN q : i \notin q[k].slots)
    BY <2>1, <2>2
  <2> QED
    BY <2>1, <2>3, <2>4, <2>5 DEF Show
<1> QED
  BY <1>2, <1>3 DEF r

\* A message that is handled as it says leaves what will be shown as it is.
LEMMA ShowTail ==
    ASSUME NEW q \in Seq(Message), q # <<>>, NEW S, NEW T, NEW i,
           i \in T <=> IF i \in Head(q).slots THEN Head(q).kind # "left" ELSE i \in S
    PROVE  Show(Tail(q), T, i) <=> Show(q, S, i)
<1> DEFINE r == Tail(q)
           n == Len(q)
<1>1. /\ n \in Nat \ {0} /\ DOMAIN q = 1 .. n /\ DOMAIN r = 1 .. (n - 1)
      /\ \A k \in 1 .. (n - 1) : r[k] = q[k + 1]
      /\ Head(q) = q[1]
  BY TailFacts
<1> HIDE DEF r, n
<1>2. /\ 1 \in DOMAIN q
      /\ \A k \in DOMAIN r : k + 1 \in DOMAIN q /\ r[k] = q[k + 1] /\ k + 1 > 1
      /\ \A k \in DOMAIN q : k # 1 => k - 1 \in DOMAIN r /\ r[k - 1] = q[k]
      /\ \A k, l \in DOMAIN r : l > k <=> l + 1 > k + 1
      /\ \A k, l \in DOMAIN q : k # 1 /\ l # 1 => (l > k <=> l - 1 > k - 1)
      /\ \A k, l \in DOMAIN q : k # 1 /\ l > k => l # 1
      /\ \A k \in DOMAIN q : k = 1 \/ k > 1
  BY <1>1
<1>3. \A k \in DOMAIN r : About(r, i, k) => About(q, i, k + 1)
  <2> SUFFICES ASSUME NEW k \in DOMAIN r, About(r, i, k), NEW l \in DOMAIN q, l > k + 1
               PROVE  i \notin q[l].slots
    BY <1>2 DEF About
  <2>1. l # 1 /\ l - 1 \in DOMAIN r /\ r[l - 1] = q[l] /\ l - 1 > k
    BY <1>1
  <2> QED
    BY <2>1 DEF About
<1>4. \A k \in DOMAIN q : k # 1 /\ About(q, i, k) => About(r, i, k - 1)
  <2> SUFFICES ASSUME NEW k \in DOMAIN q, k # 1, About(q, i, k), NEW l \in DOMAIN r, l > k - 1
               PROVE  i \notin r[l].slots
    BY <1>2 DEF About
  <2>1. l + 1 \in DOMAIN q /\ r[l] = q[l + 1] /\ l + 1 > k
    BY <1>1
  <2> QED
    BY <2>1 DEF About
<1>5. CASE \E k \in DOMAIN r : i \in r[k].slots
  <2>1. ~About(q, i, 1)
    BY <1>2, <1>5 DEF About
  <2>2. (\E k \in DOMAIN r : About(r, i, k) /\ r[k].kind # "left")
          <=> (\E k \in DOMAIN q : About(q, i, k) /\ q[k].kind # "left")
    BY <1>2, <1>3, <1>4, <2>1
  <2>3. \E k \in DOMAIN q : i \in q[k].slots
    BY <1>2, <1>5
  <2> QED
    BY <1>5, <2>2, <2>3 DEF Show, r
<1>6. CASE \A k \in DOMAIN r : i \notin r[k].slots
  <2>1. \A k \in DOMAIN q : k # 1 => i \notin q[k].slots
    BY <1>2, <1>6
  <2>2. Show(r, T, i) <=> i \in T
    BY <1>6 DEF Show, About
  <2>3. CASE i \in q[1].slots
    <3>1. About(q, i, 1) /\ \A k \in DOMAIN q : About(q, i, k) => k = 1
      BY <1>2, <2>1, <2>3 DEF About
    <3>2. Show(q, S, i) <=> q[1].kind # "left"
      BY <1>2, <2>3, <3>1 DEF Show
    <3> QED
      BY <1>1, <2>2, <2>3, <3>2 DEF r
  <2>4. CASE i \notin q[1].slots
    <3>1. \A k \in DOMAIN q : i \notin q[k].slots
      BY <2>1, <2>4
    <3>2. Show(q, S, i) <=> i \in S
      BY <3>1 DEF Show, About
    <3> QED
      BY <1>1, <2>2, <2>4, <3>2 DEF r
  <2> QED
    BY <2>3, <2>4
<1> QED
  BY <1>5, <1>6

\* The last gift decides which sprite a client will control.
LEMMA AdoptedAppend ==
    ASSUME NEW q \in Seq(Message), NEW m \in Message, NEW my, NEW n
    PROVE  /\ m.kind = "yours" /\ m.slots = {n} => Adopted(Append(q, m), my, n)
           /\ m.kind \notin {"list", "yours"} /\ Adopted(q, my, n) => Adopted(Append(q, m), my, n)
<1> DEFINE r == Append(q, m)
           z == Len(q)
<1>1. /\ z \in Nat /\ DOMAIN q = 1 .. z /\ DOMAIN r = 1 .. (z + 1)
      /\ \A k \in 1 .. z : r[k] = q[k]
      /\ r[z + 1] = m
  BY AppendFacts
<1> HIDE DEF r, z
<1>2. ASSUME m.kind = "yours", m.slots = {n} PROVE Adopted(r, my, n)
  <2>1. Gift(r, z + 1)
    BY <1>1, <1>2 DEF Gift
  <2> QED
    BY <1>1, <1>2, <2>1 DEF Adopted
<1>3. ASSUME m.kind \notin {"list", "yours"}, Adopted(q, my, n) PROVE Adopted(r, my, n)
  <2>1. CASE \E k \in DOMAIN q : Gift(q, k) /\ q[k].slots = {n}
    <3>1. PICK k \in DOMAIN q : Gift(q, k) /\ q[k].slots = {n}
      BY <2>1
    <3>2. Gift(r, k) /\ k \in DOMAIN r /\ r[k].slots = {n}
      BY <1>1, <1>3, <3>1 DEF Gift
    <3> QED
      BY <3>2 DEF Adopted
  <2>2. CASE (\A k \in DOMAIN q : q[k].kind \notin {"list", "yours"}) /\ my = n
    BY <1>1, <1>3, <2>2 DEF Adopted
  <2> QED
    BY <1>3, <2>1, <2>2 DEF Adopted
<1> QED
  BY <1>2, <1>3 DEF r

LEMMA AdoptedTail ==
    ASSUME NEW q \in Seq(Message), q # <<>>, NEW my, NEW n, Adopted(q, my, n)
    PROVE  /\ Head(q).kind # "yours" => Adopted(Tail(q), my, n)
           /\ Head(q).kind = "yours" => \A j \in Head(q).slots : Adopted(Tail(q), j, n)
<1> DEFINE r == Tail(q)
           z == Len(q)
<1>1. /\ z \in Nat \ {0} /\ DOMAIN q = 1 .. z /\ DOMAIN r = 1 .. (z - 1)
      /\ \A k \in 1 .. (z - 1) : r[k] = q[k + 1]
      /\ Head(q) = q[1]
  BY TailFacts
<1> HIDE DEF r, z
<1>2. 1 \in DOMAIN q /\ \A k \in DOMAIN r : k + 1 \in DOMAIN q /\ r[k] = q[k + 1] /\ k + 1 > 1
  BY <1>1
<1>3. ASSUME NEW k \in DOMAIN q, k # 1, Gift(q, k), q[k].slots = {n}, NEW j
      PROVE  Adopted(r, j, n)
  <2>1. k - 1 \in DOMAIN r /\ r[k - 1] = q[k]
    BY <1>1, <1>3
  <2>2. Gift(r, k - 1)
    <3> SUFFICES ASSUME NEW l \in DOMAIN r, l > k - 1 PROVE r[l].kind \notin {"list", "yours"}
      BY <1>3, <2>1 DEF Gift
    <3>1. l + 1 \in DOMAIN q /\ l + 1 > k /\ r[l] = q[l + 1]
      BY <1>1
    <3> QED
      BY <1>3, <3>1 DEF Gift
  <2> QED
    BY <1>3, <2>1, <2>2 DEF Adopted
<1>4. ASSUME Gift(q, 1), q[1].slots = {n} PROVE \A j \in q[1].slots : Adopted(r, j, n)
  BY <1>2, <1>4 DEF Adopted, Gift
<1>5. ASSUME \A k \in DOMAIN q : q[k].kind \notin {"list", "yours"}, my = n
      PROVE  Adopted(r, my, n) /\ q[1].kind # "yours"
  BY <1>2, <1>5 DEF Adopted
<1>6. Gift(q, 1) => q[1].kind = "yours"
  BY DEF Gift
<1> QED
  BY <1>1, <1>3, <1>4, <1>5, <1>6 DEF Adopted, r

-----------------------------------------------------------------------------
(* The invariant *)

Idle == \A c \in Clients : ~Open(c) => toClient[c] = <<>> /\ view[c] = {} /\ hidden[c] = {}

\* Nobody has a sprite before the list has arrived, or without having asked for it.
Unseated == \A c \in Clients :
    session[c] = "away" \/ requestinggame[c] \/ ~gamerequested[c] => spritenum[c] = 0

AwayAsksNot == \A c \in Clients : session[c] = "away" => ~gamerequested[c]

OwnersOpen == \A c \in Clients : InPlay(c) => Open(c)

LastOnly == unannounced \subseteq {MaxSprites}

\* ListsFollow, and of those who are still to be let in: they show nobody who is not
\* there.
Follows(c, i) ==
    /\ WillShow(c, i) => Listed(i)
    /\ gamerequested[c] /\ Listed(i) => WillShow(c, i)
Lists == \A c \in Clients : Open(c) => \A i \in Slots \ unannounced : Follows(c, i)

Adopts == \A c \in Clients : InPlay(c) => Adopted(toClient[c], mysprite[c], spritenum[c])

Basics == Idle /\ Unseated /\ AwayAsksNot /\ OwnersOpen /\ LastOnly

RosterInv == TypeOK /\ Basics /\ Lists /\ Adopts

\* What a step does to the queue of each client it sends news to.
LEMMA NewsSent ==
    ASSUME TypeOK, NEW i \in Slots, NEW num, NEW d \in Clients
    PROVE  /\ Sent(toClient, PlayerDisconnect(i))[d]
                = IF Open(d) THEN Append(toClient[d], [kind |-> "left", slots |-> {i}])
                  ELSE toClient[d]
           /\ Sent(toClient, NewPlayer(i, num))[d]
                = IF Open(d) THEN Append(toClient[d],
                        [kind |-> IF num[d] = i THEN "yours" ELSE "new", slots |-> {i}])
                  ELSE toClient[d]
BY DEF Sent, PlayerDisconnect, NewPlayer

LEMMA SessionEnds ==
    ASSUME TypeOK, NEW c \in Clients, EndSession(c)
    PROVE  /\ session'[c] = "over" /\ view'[c] = {} /\ hidden'[c] = {} /\ ~requestinggame'[c]
           /\ \A d \in Clients \ {c} :
                /\ session'[d] = session[d] /\ view'[d] = view[d] /\ hidden'[d] = hidden[d]
                /\ mysprite'[d] = mysprite[d] /\ requestinggame'[d] = requestinggame[d]
BY DEF EndSession, TypeOK

\* What a farewell and a loss have in common.
Gone(c) ==
    /\ spritenum[c] # 0
    /\ active' = [active EXCEPT ![spritenum[c]] = FALSE]
    /\ player' = [player EXCEPT ![spritenum[c]] = Nobody]
    /\ toClient' = [Sent(toClient, PlayerDisconnect(spritenum[c])) EXCEPT ![c] = <<>>]
    /\ Announced(spritenum[c])
    /\ EndSession(c)
    /\ \A d \in Clients \ {c} :
        gamerequested'[d] = gamerequested[d] /\ spritenum'[d] = spritenum[d]
    /\ spritenum'[c] \in {spritenum[c], 0}
    /\ gamerequested'[c] \/ spritenum'[c] = 0

LEMMA LeaveIsGone ==
    ASSUME TypeOK, Unseated, NEW c \in Clients, HandleLeave(c)
    PROVE  Gone(c)
BY DEF HandleLeave, Gone, Unseated, TypeOK

LEMMA LostIsGone ==
    ASSUME TypeOK, NEW c \in Clients, Lost(c), spritenum[c] # 0
    PROVE  Gone(c)
<1>1. /\ gamerequested' = [gamerequested EXCEPT ![c] = FALSE]
      /\ spritenum' = [spritenum EXCEPT ![c] = 0]
      /\ active' = [active EXCEPT ![spritenum[c]] = FALSE]
      /\ player' = [player EXCEPT ![spritenum[c]] = Nobody]
      /\ toClient' = [Sent(toClient, PlayerDisconnect(spritenum[c])) EXCEPT ![c] = <<>>]
      /\ Announced(spritenum[c]) /\ EndSession(c)
  BY DEF Lost
<1>2. /\ \A d \in Clients \ {c} :
            gamerequested'[d] = gamerequested[d] /\ spritenum'[d] = spritenum[d]
      /\ spritenum'[c] = 0
  BY <1>1 DEF TypeOK
<1> QED
  BY <1>1, <1>2 DEF Gone

\* A session that ends without anything said of it.
Quits(c) ==
    /\ spritenum'[c] = 0
    /\ EndSession(c)
    /\ toClient' = [toClient EXCEPT ![c] = <<>>]
    /\ \A d \in Clients \ {c} :
        gamerequested'[d] = gamerequested[d] /\ spritenum'[d] = spritenum[d]
    /\ UNCHANGED <<active, player, unannounced>>

LEMMA QuitsFacts ==
    ASSUME TypeOK, Unseated, NEW c \in Clients
    PROVE  /\ Unaccepted(c) /\ spritenum[c] = 0 => Quits(c)
           /\ CannotLoadMap(c) => Quits(c)
           /\ Lost(c) /\ spritenum[c] = 0 => Quits(c)
<1>1. Unaccepted(c) /\ spritenum[c] = 0 => Quits(c)
  BY DEF Unaccepted, Quits
<1>2. CannotLoadMap(c) => Quits(c)
  BY DEF CannotLoadMap, Quits, Unseated
<1>3. ASSUME Lost(c), spritenum[c] = 0 PROVE Quits(c)
  <2>1. /\ gamerequested' = [gamerequested EXCEPT ![c] = FALSE]
        /\ spritenum' = [spritenum EXCEPT ![c] = 0]
        /\ toClient' = [toClient EXCEPT ![c] = <<>>]
        /\ UNCHANGED <<active, player, unannounced>> /\ EndSession(c)
    BY <1>3 DEF Lost
  <2> QED
    BY <2>1 DEF Quits, TypeOK
<1> QED
  BY <1>1, <1>2, <1>3

LEMMA BasicsStep == ASSUME TypeOK, Basics, [Next]_vars PROVE Basics'
<1> USE DEF Basics, Open
<1> DEFINE B == Idle' /\ Unseated' /\ AwayAsksNot' /\ OwnersOpen' /\ LastOnly'
<1>1. ASSUME NEW c \in Clients, Connected(c) PROVE B
  BY <1>1 DEF Connected, TypeOK, Idle, Unseated, AwayAsksNot, OwnersOpen, InPlay, LastOnly
<1>2. ASSUME NEW c \in Clients, Quits(c) PROVE B
  <2>1. /\ session'[c] = "over" /\ view'[c] = {} /\ hidden'[c] = {} /\ ~requestinggame'[c]
        /\ \A d \in Clients \ {c} :
             /\ session'[d] = session[d] /\ view'[d] = view[d] /\ hidden'[d] = hidden[d]
             /\ requestinggame'[d] = requestinggame[d]
    BY <1>2, SessionEnds DEF Quits
  <2>2. toClient'[c] = <<>> /\ \A d \in Clients \ {c} : toClient'[d] = toClient[d]
    BY <1>2 DEF Quits, TypeOK
  <2> QED
    BY <1>2, <2>1, <2>2 DEF Quits, Idle, Unseated, AwayAsksNot, OwnersOpen, InPlay, LastOnly
<1>3. ASSUME NEW c \in Clients, HandleRequestGame(c) PROVE B
  <2>1. CASE Unaccepted(c)
    BY <1>2, <1>3, <2>1, QuitsFacts DEF HandleRequestGame
  <2>2. CASE ~Unaccepted(c)
    BY <1>3, <2>2 DEF HandleRequestGame, TypeOK, Idle, Unseated, AwayAsksNot, OwnersOpen, InPlay,
       LastOnly, client
  <2> QED
    BY <2>1, <2>2
<1>4. ASSUME NEW c \in Clients, NEW i \in Slots, HandlePlayerInfo(c), Join(c, i) PROVE B
  <2>1. /\ player' = [player EXCEPT ![i] = c]
        /\ spritenum' = [spritenum EXCEPT ![c] = i]
        /\ unannounced' = unannounced \ {i}
        /\ UNCHANGED <<session, gamerequested, client>>
    BY <1>4 DEF Join, SpriteNumber, Announced
  <2>2. session[c] = "open" /\ ~requestinggame[c] /\ gamerequested[c]
    BY <1>4 DEF HandlePlayerInfo
  <2>3. \A d \in Clients : ~Open(d) => toClient'[d] = toClient[d]
    BY <1>4 DEF Join, Sent
  <2>4. \A j \in Slots : active'[j] => j = i \/ active[j]
    BY <1>4 DEF Join, TypeOK
  <2>5. Idle' /\ Unseated' /\ AwayAsksNot' /\ LastOnly'
    BY <2>1, <2>2, <2>3 DEF Idle, Unseated, AwayAsksNot, LastOnly, client, TypeOK
  <2>6. OwnersOpen'
    <3> SUFFICES ASSUME NEW d \in Clients, InPlay(d)' PROVE Open(d)'
      BY DEF OwnersOpen
    <3>1. CASE d = c
      BY <2>1, <2>2, <3>1
    <3>2. CASE d # c
      <4>1. spritenum'[d] = spritenum[d] /\ spritenum[d] \in Slots
        BY <2>1, <3>2 DEF InPlay, TypeOK, Slots
      <4>2. spritenum[d] # i
        BY <2>1, <3>2, <4>1 DEF InPlay, TypeOK
      <4>3. InPlay(d)
        BY <2>1, <2>4, <4>1, <4>2 DEF InPlay, TypeOK
      <4> QED
        BY <2>1, <4>3 DEF OwnersOpen
    <3> QED
      BY <3>1, <3>2
  <2> QED
    BY <2>5, <2>6
<1>5. ASSUME NEW c \in Clients, HandlePlayerInfo(c) PROVE B
  BY <1>2, <1>4, <1>5, QuitsFacts DEF HandlePlayerInfo
<1>6. ASSUME NEW c \in Clients, Gone(c) PROVE B
  <2>0. spritenum[c] \in Slots
    BY <1>6 DEF Gone, TypeOK, Slots
  <2>1. /\ session'[c] = "over" /\ view'[c] = {} /\ hidden'[c] = {} /\ ~requestinggame'[c]
        /\ \A d \in Clients \ {c} :
             /\ session'[d] = session[d] /\ view'[d] = view[d] /\ hidden'[d] = hidden[d]
             /\ requestinggame'[d] = requestinggame[d]
    BY <1>6, SessionEnds DEF Gone
  <2>2. toClient'[c] = <<>> /\ \A d \in Clients \ {c} : ~Open(d) => toClient'[d] = toClient[d]
    BY <1>6 DEF Gone, Sent
  <2>3. /\ \A d \in Clients \ {c} :
             gamerequested'[d] = gamerequested[d] /\ spritenum'[d] = spritenum[d]
        /\ gamerequested'[c] \/ spritenum'[c] = 0
        /\ unannounced' \subseteq unannounced
    BY <1>6 DEF Gone, Announced
  <2>4. Idle' /\ Unseated' /\ AwayAsksNot' /\ LastOnly'
    BY <2>1, <2>2, <2>3 DEF Idle, Unseated, AwayAsksNot, LastOnly
  <2>5. /\ \A j \in Slots : active'[j] => active[j] /\ j # spritenum[c]
        /\ \A j \in Slots : j # spritenum[c] => player'[j] = player[j]
        /\ spritenum'[c] = spritenum[c] \/ spritenum'[c] = 0
    BY <1>6, <2>0 DEF Gone, TypeOK
  <2>6. \A d \in Clients : InPlay(d)' => d # c /\ InPlay(d)
    <3> TAKE d \in Clients
    <3>0. spritenum[d] \in 0 .. MaxSprites /\ 0 \in 0 .. MaxSprites
      BY SpritesAssumption DEF TypeOK
    <3>1. spritenum'[d] \in 0 .. MaxSprites
      BY <2>3, <2>5, <3>0
    <3>2. InPlay(d)' => spritenum'[d] \in Slots
      BY <3>1 DEF InPlay, Slots
    <3> QED
      BY <2>3, <2>5, <3>2 DEF InPlay
  <2> QED
    BY <2>1, <2>4, <2>6 DEF OwnersOpen
<1>7. ASSUME UNCHANGED <<session, gamerequested, spritenum, client>>,
             \A d \in Clients : ~Open(d) => toClient'[d] = toClient[d],
             unannounced' \subseteq unannounced \cup {MaxSprites},
             \A d \in Clients : InPlay(d)' => InPlay(d)
      PROVE  B
  BY <1>7 DEF Idle, Unseated, AwayAsksNot, OwnersOpen, LastOnly, client
<1>8. ASSUME NEW i \in Slots, ChangeTeam(i) PROVE B
  <2>1. \A d \in Clients : ~Open(d) => toClient'[d] = toClient[d]
    BY <1>8 DEF ChangeTeam, Sent
  <2> QED
    BY <1>7, <1>8, <2>1 DEF ChangeTeam, Announced, server, InPlay
<1>9. ASSUME NEW i \in Slots, KickPlayer(i) PROVE B
  <2>1. \A d \in Clients : ~Open(d) => toClient'[d] = toClient[d]
    BY <1>9 DEF KickPlayer, Sent
  <2>2. \A d \in Clients : InPlay(d)' => InPlay(d)
    BY <1>9 DEF KickPlayer, InPlay, TypeOK, Slots
  <2> QED
    BY <1>7, <1>9, <2>1, <2>2 DEF KickPlayer, Announced
<1>10. ASSUME NEW i \in Slots, AddBotPlayer(i) PROVE B
  <2>1. \A d \in Clients : ~Open(d) => toClient'[d] = toClient[d]
    BY <1>10 DEF AddBotPlayer, Sent
  <2>2. \A d \in Clients : InPlay(d)' => InPlay(d)
    <3> SUFFICES ASSUME NEW d \in Clients, InPlay(d)' PROVE InPlay(d)
      OBVIOUS
    <3>1. spritenum[d] \in Slots /\ spritenum'[d] = spritenum[d]
      BY <1>10 DEF AddBotPlayer, InPlay, TypeOK, Slots
    <3>2. spritenum[d] # i /\ player'[spritenum[d]] = player[spritenum[d]]
      BY <1>10, <3>1, PlayersAssumption DEF AddBotPlayer, InPlay, TypeOK
    <3>3. active'[spritenum[d]] = active[spritenum[d]]
      BY <1>10, <3>1, <3>2 DEF AddBotPlayer, TypeOK
    <3> QED
      BY <3>1, <3>2, <3>3 DEF InPlay
  <2>3. unannounced' \subseteq unannounced
    BY <1>10 DEF AddBotPlayer, Announced
  <2> QED
    BY <1>7, <1>10, <2>1, <2>2, <2>3 DEF AddBotPlayer
<1>11. CASE StopRecord
  <2>1. \A d \in Clients : InPlay(d)' => InPlay(d)
    BY <1>11 DEF StopRecord, InPlay, TypeOK, Slots
  <2> QED
    BY <1>7, <1>11, <2>1 DEF StopRecord, LastKilled
<1>12. CASE StartRecord
  <2>1. \A d \in Clients : InPlay(d)' => InPlay(d)
    <3> SUFFICES ASSUME NEW d \in Clients, InPlay(d)' PROVE InPlay(d)
      OBVIOUS
    <3>1. spritenum[d] \in Slots /\ spritenum'[d] = spritenum[d]
      BY <1>12 DEF StartRecord, InPlay, TypeOK, Slots
    <3> QED
      BY <1>12, <3>1, SlotFacts, PlayersAssumption DEF StartRecord, InPlay, TypeOK
  <2> QED
    BY <1>7, <1>12, <2>1 DEF StartRecord, LastKilled
<1>13. CASE ServerHeartbeat
  BY <1>7, <1>13 DEF ServerHeartbeat, server, InPlay
<1>14. ASSUME NEW c \in Clients, Open(c), UNCHANGED server, UNCHANGED unannounced,
              \A d \in Clients \ {c} : toClient'[d] = toClient[d] /\ view'[d] = view[d]
                /\ hidden'[d] = hidden[d] /\ requestinggame'[d] = requestinggame[d],
              requestinggame'[c] => requestinggame[c]
       PROVE  B
  BY <1>14 DEF Idle, Unseated, AwayAsksNot, OwnersOpen, LastOnly, InPlay, server
<1>15. ASSUME NEW c \in Clients, HandleReliable(c) PROVE B
  <2>1. CASE HandlePlayersList(c)
    <3>1. \A d \in Clients \ {c} : toClient'[d] = toClient[d] /\ view'[d] = view[d]
            /\ hidden'[d] = hidden[d] /\ requestinggame'[d] = requestinggame[d]
      BY <2>1 DEF HandlePlayersList, Arrives, Shows, TypeOK
    <3>2. requestinggame'[c] => requestinggame[c]
      BY <2>1 DEF HandlePlayersList, TypeOK
    <3> QED
      BY <1>14, <2>1, <3>1, <3>2 DEF HandlePlayersList, Arrives
  <2>2. CASE CannotLoadMap(c)
    BY <1>2, <2>2, QuitsFacts
  <2>3. CASE HandleNewPlayer(c)
    <3>1. \A d \in Clients \ {c} : toClient'[d] = toClient[d] /\ view'[d] = view[d]
            /\ hidden'[d] = hidden[d] /\ requestinggame'[d] = requestinggame[d]
      BY <2>3 DEF HandleNewPlayer, Arrives, Shows, TypeOK
    <3> QED
      BY <1>14, <2>3, <3>1 DEF HandleNewPlayer, Arrives
  <2>4. CASE HandlePlayerDisconnect(c)
    <3>1. \A d \in Clients \ {c} : toClient'[d] = toClient[d] /\ view'[d] = view[d]
            /\ hidden'[d] = hidden[d] /\ requestinggame'[d] = requestinggame[d]
      BY <2>4 DEF HandlePlayerDisconnect, Arrives, TypeOK
    <3> QED
      BY <1>14, <2>4, <3>1 DEF HandlePlayerDisconnect, Arrives
  <2> QED
    BY <1>15, <2>1, <2>2, <2>3, <2>4 DEF HandleReliable
<1>16. ASSUME NEW c \in Clients, NEW n \in 0 .. MaxSprites, HandleHeartbeat(c, n) PROVE B
  <2>1. \A d \in Clients \ {c} : toClient'[d] = toClient[d] /\ view'[d] = view[d]
          /\ hidden'[d] = hidden[d] /\ requestinggame'[d] = requestinggame[d]
    BY <1>16 DEF HandleHeartbeat, TypeOK
  <2> QED
    BY <1>14, <1>16, <2>1 DEF HandleHeartbeat
<1>17. CASE UNCHANGED vars
  BY <1>17 DEF vars, server, client, Idle, Unseated, AwayAsksNot, OwnersOpen, LastOnly, InPlay
<1>18. ASSUME NEW c \in Clients, HandleLeave(c) \/ Lost(c) PROVE B
  BY <1>2, <1>6, <1>18, LeaveIsGone, LostIsGone, QuitsFacts
<1> QED
  BY <1>1, <1>3, <1>5, <1>8, <1>9, <1>10, <1>11, <1>12, <1>13, <1>15, <1>16, <1>17, <1>18
     DEF Next, ServerStep, ClientStep, Ended

-----------------------------------------------------------------------------
(* The lists follow *)

LEMMA ShowNext ==
    ASSUME NEW c, NEW i
    PROVE  WillShow(c, i)' <=> Show(toClient'[c], view'[c] \cup hidden'[c], i)
BY DEF WillShow, Show, LastAbout, About

\* News of slot j reach the queue of d.
LEMMA News ==
    ASSUME TypeOK, NEW d \in Clients, NEW j, NEW m \in Message, m.slots = {j},
           toClient'[d] = Append(toClient[d], m),
           view'[d] = view[d], hidden'[d] = hidden[d]
    PROVE  /\ WillShow(d, j)' <=> m.kind # "left"
           /\ \A i : i # j => (WillShow(d, i)' <=> WillShow(d, i))
<1>1. toClient[d] \in Seq(Message)
  BY DEF TypeOK
<1>2. \A i : WillShow(d, i)' <=> Show(Append(toClient[d], m), view[d] \cup hidden[d], i)
  BY ShowNext
<1>3. \A i : /\ i \in m.slots => (WillShow(d, i)' <=> m.kind # "left")
             /\ i \notin m.slots => (WillShow(d, i)' <=> WillShow(d, i))
  <2> TAKE i
  <2>1. /\ i \in m.slots => (Show(Append(toClient[d], m), view[d] \cup hidden[d], i)
                                <=> m.kind # "left")
        /\ i \notin m.slots => (Show(Append(toClient[d], m), view[d] \cup hidden[d], i)
                                <=> Show(toClient[d], view[d] \cup hidden[d], i))
    BY <1>1, ShowAppend
  <2>2. WillShow(d, i) <=> Show(toClient[d], view[d] \cup hidden[d], i)
    BY WillShowIsShow
  <2> QED
    BY <1>2, <2>1, <2>2
<1>4. j \in m.slots /\ \A i : i # j => i \notin m.slots
  OBVIOUS
<1> QED
  BY <1>3, <1>4

\* All is as it was for d, or more has been emptied without a word.
Undisturbed(d) ==
    /\ session'[d] = session[d] /\ gamerequested'[d] = gamerequested[d]
    /\ toClient'[d] = toClient[d]
    /\ view'[d] \cup hidden'[d] = view[d] \cup hidden[d]
    /\ unannounced \subseteq unannounced'
    /\ \A i \in Slots \ unannounced' : Listed(i)' <=> Listed(i)

LEMMA FollowsUndisturbed ==
    ASSUME Lists, NEW d \in Clients, Undisturbed(d), Open(d)
    PROVE  \A i \in Slots \ unannounced' : Follows(d, i)'
<1> TAKE i \in Slots \ unannounced'
<1>1. WillShow(d, i)' <=> WillShow(d, i)
  BY ShowNext, WillShowIsShow DEF Undisturbed
<1>2. (Listed(i)' <=> Listed(i)) /\ Follows(d, i) /\ gamerequested'[d] = gamerequested[d]
  BY DEF Undisturbed, Lists
<1> QED
  BY <1>1, <1>2 DEF Follows

\* The last word said of slot j is right, the others are as they were.
ToldRight(d, j) ==
    /\ gamerequested'[d] = gamerequested[d]
    /\ unannounced' = unannounced \ {j}
    /\ WillShow(d, j)' <=> Listed(j)'
    /\ \A i \in Slots : i # j => (WillShow(d, i)' <=> WillShow(d, i))
                                 /\ (Listed(i)' <=> Listed(i))

LEMMA FollowsTold ==
    ASSUME Lists, NEW d \in Clients, NEW j \in Slots, ToldRight(d, j), Open(d)
    PROVE  \A i \in Slots \ unannounced' : Follows(d, i)'
<1> TAKE i \in Slots \ unannounced'
<1>1. CASE i = j
  BY <1>1 DEF ToldRight, Follows
<1>2. CASE i # j
  <2>1. Follows(d, i) /\ (WillShow(d, i)' <=> WillShow(d, i)) /\ (Listed(i)' <=> Listed(i))
        /\ gamerequested'[d] = gamerequested[d]
    BY <1>2 DEF ToldRight, Lists
  <2> QED
    BY <2>1 DEF Follows
<1> QED
  BY <1>1, <1>2

\* The client d has handled the first message as it says.
Handled(d) ==
    /\ Open(d) /\ session' = session /\ gamerequested' = gamerequested
    /\ toClient[d] # <<>> /\ toClient'[d] = Tail(toClient[d])
    /\ \A i \in Slots : i \in view'[d] \cup hidden'[d] <=>
            IF i \in Head(toClient[d]).slots THEN Head(toClient[d]).kind # "left"
            ELSE i \in view[d] \cup hidden[d]
    /\ unannounced' = unannounced
    /\ active' = active /\ player' = player

LEMMA FollowsHandled ==
    ASSUME TypeOK, Lists, NEW d \in Clients, Handled(d)
    PROVE  \A i \in Slots \ unannounced' : Follows(d, i)'
<1> TAKE i \in Slots \ unannounced'
<1>1. toClient[d] \in Seq(Message)
  BY DEF TypeOK
<1>2. Show(Tail(toClient[d]), view'[d] \cup hidden'[d], i)
        <=> Show(toClient[d], view[d] \cup hidden[d], i)
  BY <1>1, ShowTail DEF Handled
<1>3. WillShow(d, i)' <=> WillShow(d, i)
  BY <1>2, ShowNext, WillShowIsShow DEF Handled
<1>4. (Listed(i)' <=> Listed(i)) /\ Follows(d, i) /\ gamerequested'[d] = gamerequested[d]
  BY DEF Handled, Lists, Listed
<1> QED
  BY <1>3, <1>4 DEF Follows

\* A client sees the players who are there, and no others, when what is under way to it
\* has arrived: kept by every step.
LEMMA ListsStep == ASSUME TypeOK, Basics, Lists, [Next]_vars PROVE Lists'
<1>o. ASSUME NEW d \in Clients, session'[d] = session[d] PROVE Open(d)' <=> Open(d)
  BY <1>o DEF Open
<1>u. ASSUME \A d \in Clients : Open(d)' => Undisturbed(d) PROVE Lists'
  BY <1>u, FollowsUndisturbed DEF Lists, Undisturbed, Open
<1>1. ASSUME NEW c \in Clients, Connected(c) PROVE Lists'
  <2>1. \A i \in Slots : ~WillShow(c, i)' /\ ~gamerequested'[c]
    <3> TAKE i \in Slots
    <3>1. toClient'[c] = <<>> /\ view'[c] = {} /\ hidden'[c] = {} /\ ~gamerequested'[c]
      BY <1>1 DEF Connected, Basics, Idle, AwayAsksNot, Open
    <3>2. ~Show(<<>>, {}, i)
      BY DEF Show
    <3> QED
      BY <3>1, <3>2, ShowNext
  <2>2. \A d \in Clients \ {c} : Undisturbed(d)
    BY <1>1 DEF Connected, Undisturbed, Listed, TypeOK
  <2> QED
    BY <2>1, <2>2, <1>o, FollowsUndisturbed DEF Lists, Follows, Undisturbed
<1>2. ASSUME NEW c \in Clients, Quits(c) PROVE Lists'
  <2>1. ~Open(c)' /\ \A d \in Clients \ {c} :
          session'[d] = session[d] /\ view'[d] = view[d] /\ hidden'[d] = hidden[d]
    BY <1>2, SessionEnds DEF Quits, Open
  <2>2. \A d \in Clients \ {c} : toClient'[d] = toClient[d]
    BY <1>2 DEF Quits, TypeOK
  <2> QED
    BY <1>2, <1>u, <2>1, <2>2 DEF Quits, Undisturbed, Listed
<1>3. ASSUME NEW c \in Clients, HandleRequestGame(c) PROVE Lists'
  <2>1. CASE Unaccepted(c)
    BY <1>2, <1>3, <2>1, QuitsFacts DEF HandleRequestGame, Basics
  <2>2. CASE ~Unaccepted(c)
    <3>1. /\ Open(c) /\ ~gamerequested[c]
          /\ gamerequested' = [gamerequested EXCEPT ![c] = TRUE]
          /\ toClient' = [toClient EXCEPT ![c] = Append(@, PlayersList)]
          /\ UNCHANGED <<session, active, player, view, hidden, unannounced>>
      BY <1>3, <2>2 DEF HandleRequestGame, client
    <3>2. \A d \in Clients \ {c} : Undisturbed(d)
      BY <3>1 DEF Undisturbed, Listed, TypeOK
    <3>3. ASSUME NEW i \in Slots \ unannounced' PROVE Follows(c, i)'
      <4>1. toClient'[c] = Append(toClient[c], PlayersList) /\ toClient[c] \in Seq(Message)
        BY <3>1 DEF TypeOK
      <4>2. PlayersList \in Message
        BY MessageFacts
      <4>3. PlayersList.kind = "list" /\ (i \in PlayersList.slots <=> Listed(i))
        BY <3>3 DEF PlayersList
      <4>4. WillShow(c, i) => Listed(i)
        BY <3>1, <3>3 DEF Lists, Follows
      <4>5. WillShow(c, i)' <=> Show(Append(toClient[c], PlayersList), view[c] \cup hidden[c], i)
        BY <3>1, <4>1, ShowNext
      <4>6. WillShow(c, i)' <=> Listed(i)
        BY <4>1, <4>2, <4>3, <4>4, <4>5, ShowAppend, WillShowIsShow
      <4> QED
        BY <3>1, <4>6 DEF Follows, Listed
    <3> QED
      BY <1>o, <3>1, <3>2, <3>3, FollowsUndisturbed DEF Lists
  <2> QED
    BY <2>1, <2>2
<1>n. ASSUME NEW j \in Slots, UNCHANGED <<session, gamerequested, view, hidden>>,
             unannounced' = unannounced \ {j},
             \A i \in Slots : i # j => (Listed(i)' <=> Listed(i)),
             \A d \in Clients : Open(d) => \E m \in Message :
                m.slots = {j} /\ toClient'[d] = Append(toClient[d], m)
                /\ (m.kind # "left" <=> Listed(j)')
      PROVE  Lists'
  <2> SUFFICES ASSUME NEW d \in Clients, Open(d)
               PROVE  \A i \in Slots \ unannounced' : Follows(d, i)'
    BY <1>n DEF Lists, Open
  <2>1. PICK m \in Message : m.slots = {j} /\ toClient'[d] = Append(toClient[d], m)
                /\ (m.kind # "left" <=> Listed(j)')
    BY <1>n
  <2>2. /\ WillShow(d, j)' <=> m.kind # "left"
        /\ \A i : i # j => (WillShow(d, i)' <=> WillShow(d, i))
    BY <1>n, <2>1, News
  <2>3. ToldRight(d, j)
    BY <1>n, <2>1, <2>2 DEF ToldRight
  <2> QED
    BY <2>3, FollowsTold
<1>l. \A j \in Slots : [kind |-> "left", slots |-> {j}] \in Message
                       /\ [kind |-> "new", slots |-> {j}] \in Message
                       /\ [kind |-> "yours", slots |-> {j}] \in Message
  BY DEF Message
<1>4. ASSUME NEW c \in Clients, NEW j \in Slots, FirstFree(j), Join(c, j) PROVE Lists'
  <2>1. PICK flooding \in BOOLEAN :
          /\ active' = [active EXCEPT ![j] = ~flooding]
          /\ toClient' = IF flooding
                         THEN Sent(Sent(toClient, NewPlayer(j, spritenum')), PlayerDisconnect(j))
                         ELSE Sent(toClient, NewPlayer(j, spritenum'))
    BY <1>4 DEF Join
  <2>2. /\ player' = [player EXCEPT ![j] = c]
        /\ unannounced' = unannounced \ {j}
        /\ UNCHANGED <<session, gamerequested, view, hidden>>
    BY <1>4 DEF Join, Announced, client
  <2>3. (Listed(j)' <=> ~flooding) /\ \A i \in Slots : i # j => (Listed(i)' <=> Listed(i))
    BY <2>1, <2>2, PlayersAssumption DEF Listed, TypeOK
  <2>4. CASE ~flooding
    <3>1. \A d \in Clients : Open(d) => \E m \in Message :
                m.slots = {j} /\ toClient'[d] = Append(toClient[d], m)
                /\ (m.kind # "left" <=> Listed(j)')
      <4> TAKE d \in Clients
      <4> HAVE Open(d)
      <4> DEFINE m == [kind |-> IF spritenum'[d] = j THEN "yours" ELSE "new", slots |-> {j}]
      <4>1. toClient'[d] = Append(toClient[d], m)
        BY <2>1, <2>4, NewsSent
      <4>2. m \in Message /\ m.slots = {j} /\ m.kind # "left"
        BY <1>l
      <4> QED
        BY <2>3, <2>4, <4>1, <4>2
    <3> QED
      BY <1>n, <2>2, <2>3, <3>1
  <2>5. CASE flooding
    <3> SUFFICES ASSUME NEW d \in Clients, Open(d)
                 PROVE  \A i \in Slots \ unannounced' : Follows(d, i)'
      BY <2>2 DEF Lists, Open
    <3> DEFINE m == [kind |-> IF spritenum'[d] = j THEN "yours" ELSE "new", slots |-> {j}]
               q == Append(toClient[d], m)
               l == [kind |-> "left", slots |-> {j}]
               S == view[d] \cup hidden[d]
    <3>1. m \in Message /\ m.slots = {j} /\ l \in Message /\ l.slots = {j} /\ l.kind = "left"
      BY <1>l
    <3>2. Sent(toClient, NewPlayer(j, spritenum'))[d] = q
      BY NewsSent
    <3>3. toClient'[d] = Append(q, l)
      BY <2>1, <2>5, <3>2 DEF Sent, PlayerDisconnect
    <3>4. toClient[d] \in Seq(Message) /\ q \in Seq(Message)
      BY <3>1, AppendProperties DEF TypeOK
    <3> HIDE DEF m, l, q
    <3>5. \A i : WillShow(d, i)' <=> Show(Append(q, l), S, i)
      BY <2>2, <3>3, ShowNext
    <3>6. \A i : i # j => (Show(Append(q, l), S, i) <=> Show(toClient[d], S, i))
      <4> TAKE i
      <4> HAVE i # j
      <4>1. i \notin m.slots /\ i \notin l.slots
        BY <3>1
      <4>2. Show(Append(q, l), S, i) <=> Show(q, S, i)
        BY <3>1, <3>4, <4>1, ShowAppend
      <4>3. Show(q, S, i) <=> Show(toClient[d], S, i)
        BY <3>1, <3>4, <4>1, ShowAppend DEF q
      <4> QED
        BY <4>2, <4>3
    <3>7. ~Show(Append(q, l), S, j)
      BY <3>1, <3>4, ShowAppend
    <3>8. ToldRight(d, j)
      BY <2>2, <2>3, <2>5, <3>5, <3>6, <3>7, WillShowIsShow DEF ToldRight
    <3> QED
      BY <3>8, FollowsTold
  <2> QED
    BY <2>4, <2>5
<1>5. ASSUME NEW c \in Clients, HandlePlayerInfo(c) PROVE Lists'
  BY <1>2, <1>4, <1>5, QuitsFacts DEF HandlePlayerInfo, Basics
<1>6. ASSUME NEW c \in Clients, Gone(c) PROVE Lists'
  <2>1. spritenum[c] \in Slots
    BY <1>6 DEF Gone, TypeOK, Slots
  <2>2. PICK j \in Slots : j = spritenum[c]
    BY <2>1
  <2>3. /\ ~Open(c)' /\ \A d \in Clients \ {c} :
             session'[d] = session[d] /\ view'[d] = view[d] /\ hidden'[d] = hidden[d]
    BY <1>6, SessionEnds DEF Gone, Open
  <2>4. ~Listed(j)' /\ \A i \in Slots : i # j => (Listed(i)' <=> Listed(i))
    BY <1>6, <2>2 DEF Gone, Listed, TypeOK
  <2>5. ASSUME NEW d \in Clients, Open(d)' PROVE \A i \in Slots \ unannounced' : Follows(d, i)'
    <3>1. d # c /\ Open(d)
      BY <2>3, <2>5 DEF Open
    <3> DEFINE l == [kind |-> "left", slots |-> {j}]
    <3>2. toClient'[d] = Append(toClient[d], l)
      <4>1. toClient'[d] = Sent(toClient, PlayerDisconnect(j))[d]
        BY <1>6, <2>2, <3>1 DEF Gone, Sent
      <4> QED
        BY <3>1, <4>1, NewsSent
    <3>3. l \in Message /\ l.slots = {j} /\ l.kind = "left"
      BY <1>l
    <3> HIDE DEF l
    <3>4. /\ ~WillShow(d, j)'
          /\ \A i : i # j => (WillShow(d, i)' <=> WillShow(d, i))
      BY <2>3, <3>1, <3>2, <3>3, News
    <3>5. ToldRight(d, j)
      BY <1>6, <2>2, <2>4, <3>1, <3>4 DEF ToldRight, Gone, Announced
    <3> QED
      BY <3>1, <3>5, FollowsTold
  <2> QED
    BY <2>5 DEF Lists
<1>7. ASSUME NEW c \in Clients, HandleLeave(c) \/ Lost(c) PROVE Lists'
  BY <1>2, <1>6, <1>7, LeaveIsGone, LostIsGone, QuitsFacts DEF Basics
<1>8. ASSUME NEW j \in Slots, ChangeTeam(j) PROVE Lists'
  <2>1. \A d \in Clients : Open(d) => \E m \in Message :
                m.slots = {j} /\ toClient'[d] = Append(toClient[d], m)
                /\ (m.kind # "left" <=> Listed(j)')
    <3> TAKE d \in Clients
    <3> HAVE Open(d)
    <3> DEFINE m == [kind |-> IF spritenum[d] = j THEN "yours" ELSE "new", slots |-> {j}]
    <3>1. toClient'[d] = Append(toClient[d], m)
      BY <1>8, NewsSent DEF ChangeTeam
    <3>2. m \in Message /\ m.slots = {j} /\ m.kind # "left"
      BY <1>l
    <3>3. Listed(j)'
      BY <1>8 DEF ChangeTeam, server, Listed
    <3> QED
      BY <3>1, <3>2, <3>3
  <2> QED
    BY <1>8, <1>n, <2>1 DEF ChangeTeam, Announced, server, client, Listed
<1>9. ASSUME NEW j \in Slots, KickPlayer(j) PROVE Lists'
  <2>1. ~Listed(j)' /\ \A i \in Slots : i # j => (Listed(i)' <=> Listed(i))
    BY <1>9 DEF KickPlayer, Listed, TypeOK
  <2>2. \A d \in Clients : Open(d) => \E m \in Message :
                m.slots = {j} /\ toClient'[d] = Append(toClient[d], m)
                /\ (m.kind # "left" <=> Listed(j)')
    <3> TAKE d \in Clients
    <3> HAVE Open(d)
    <3>1. toClient'[d] = Append(toClient[d], [kind |-> "left", slots |-> {j}])
      BY <1>9, NewsSent DEF KickPlayer
    <3> QED
      BY <1>l, <2>1, <3>1
  <2> QED
    BY <1>9, <1>n, <2>1, <2>2 DEF KickPlayer, Announced, client
<1>10. ASSUME NEW j \in Slots, AddBotPlayer(j) PROVE Lists'
  <2>1. CASE active' = [active EXCEPT ![j] = TRUE]
             /\ toClient' = Sent(toClient, NewPlayer(j, spritenum)) /\ Announced(j)
    <3>1. Listed(j)' /\ \A i \in Slots : i # j => (Listed(i)' <=> Listed(i))
      BY <1>10, <2>1, PlayersAssumption DEF AddBotPlayer, Listed, TypeOK
    <3>2. \A d \in Clients : Open(d) => \E m \in Message :
                m.slots = {j} /\ toClient'[d] = Append(toClient[d], m)
                /\ (m.kind # "left" <=> Listed(j)')
      <4> TAKE d \in Clients
      <4> HAVE Open(d)
      <4> DEFINE m == [kind |-> IF spritenum[d] = j THEN "yours" ELSE "new", slots |-> {j}]
      <4>1. toClient'[d] = Append(toClient[d], m)
        BY <2>1, NewsSent
      <4>2. m \in Message /\ m.slots = {j} /\ m.kind # "left"
        BY <1>l
      <4> QED
        BY <3>1, <4>1, <4>2
    <3> QED
      BY <1>10, <1>n, <2>1, <3>1, <3>2 DEF AddBotPlayer, Announced, client
  <2>2. CASE UNCHANGED <<active, toClient, unannounced>>
    <3>1. \A i \in Slots : Listed(i)' <=> Listed(i)
      BY <1>10, <2>2 DEF AddBotPlayer, FirstFree, Listed, TypeOK
    <3> QED
      BY <1>10, <1>u, <2>2, <3>1 DEF AddBotPlayer, Undisturbed, client
  <2> QED
    BY <1>10, <2>1, <2>2 DEF AddBotPlayer
<1>11. CASE StopRecord
  <2>1. \A i \in Slots \ unannounced' : Listed(i)' <=> Listed(i)
    BY <1>11 DEF StopRecord, LastKilled, Listed, TypeOK
  <2> QED
    BY <1>11, <1>u, <2>1 DEF StopRecord, LastKilled, Undisturbed, client
<1>12. CASE StartRecord
  <2>1. \A i \in Slots \ unannounced' : Listed(i)' <=> Listed(i)
    <3>1. \A i \in Slots \ {MaxSprites} : Listed(i)' <=> Listed(i)
      BY <1>12 DEF StartRecord, Listed, TypeOK
    <3>2. ~Listed(MaxSprites)'
      BY <1>12, SlotFacts DEF StartRecord, Listed, TypeOK
    <3>3. Listed(MaxSprites) => MaxSprites \in unannounced'
      BY <1>12 DEF StartRecord, LastKilled
    <3> QED
      BY <3>1, <3>2, <3>3
  <2> QED
    BY <1>12, <1>u, <2>1 DEF StartRecord, LastKilled, Undisturbed, client
<1>13. CASE ServerHeartbeat \/ UNCHANGED vars
  BY <1>13, <1>u DEF ServerHeartbeat, vars, server, client, Undisturbed, Listed
<1>14. ASSUME NEW c \in Clients, Handled(c),
              \A d \in Clients \ {c} : toClient'[d] = toClient[d] /\ view'[d] = view[d]
                /\ hidden'[d] = hidden[d]
       PROVE  Lists'
  <2>1. \A d \in Clients \ {c} : Undisturbed(d)
    BY <1>14 DEF Handled, Undisturbed, Listed
  <2> QED
    BY <1>14, <1>o, <2>1, FollowsHandled, FollowsUndisturbed DEF Lists, Handled
<1>15. ASSUME NEW c \in Clients, HandlePlayersList(c) PROVE Lists'
  <2>1. /\ Open(c) /\ toClient[c] # <<>> /\ Head(toClient[c]).kind = "list"
        /\ UNCHANGED <<session, gamerequested, active, player, unannounced>>
    BY <1>15 DEF HandlePlayersList, Arrives, server
  <2>2. toClient'[c] = Tail(toClient[c])
        /\ \A d \in Clients \ {c} : toClient'[d] = toClient[d]
    BY <1>15 DEF HandlePlayersList, Arrives, TypeOK
  <2>3. /\ view'[c] \cup hidden'[c] = view[c] \cup hidden[c] \cup Head(toClient[c]).slots
        /\ \A d \in Clients \ {c} : view'[d] = view[d] /\ hidden'[d] = hidden[d]
    BY <1>15 DEF HandlePlayersList, Shows, TypeOK
  <2>4. Handled(c)
    BY <2>1, <2>2, <2>3 DEF Handled
  <2> QED
    BY <1>14, <2>2, <2>3, <2>4
<1>16. ASSUME NEW c \in Clients, HandleNewPlayer(c) PROVE Lists'
  <2>1. /\ Open(c) /\ toClient[c] # <<>> /\ Head(toClient[c]).kind \in {"new", "yours"}
        /\ UNCHANGED <<session, gamerequested, active, player, unannounced>>
    BY <1>16 DEF HandleNewPlayer, Arrives, server
  <2>2. toClient'[c] = Tail(toClient[c])
        /\ \A d \in Clients \ {c} : toClient'[d] = toClient[d]
    BY <1>16 DEF HandleNewPlayer, Arrives, TypeOK
  <2>3. /\ view'[c] \cup hidden'[c] = view[c] \cup hidden[c] \cup Head(toClient[c]).slots
        /\ \A d \in Clients \ {c} : view'[d] = view[d] /\ hidden'[d] = hidden[d]
    BY <1>16 DEF HandleNewPlayer, Shows, TypeOK
  <2>4. Handled(c)
    BY <2>1, <2>2, <2>3 DEF Handled
  <2> QED
    BY <1>14, <2>2, <2>3, <2>4
<1>17. ASSUME NEW c \in Clients, HandlePlayerDisconnect(c) PROVE Lists'
  <2>1. /\ Open(c) /\ toClient[c] # <<>> /\ Head(toClient[c]).kind = "left"
        /\ UNCHANGED <<session, gamerequested, active, player, unannounced>>
    BY <1>17 DEF HandlePlayerDisconnect, Arrives, server
  <2>2. toClient'[c] = Tail(toClient[c])
        /\ \A d \in Clients \ {c} : toClient'[d] = toClient[d]
    BY <1>17 DEF HandlePlayerDisconnect, Arrives, TypeOK
  <2>3. /\ view'[c] \cup hidden'[c] = (view[c] \cup hidden[c]) \ Head(toClient[c]).slots
        /\ \A d \in Clients \ {c} : view'[d] = view[d] /\ hidden'[d] = hidden[d]
    BY <1>17 DEF HandlePlayerDisconnect, TypeOK
  <2>4. Handled(c)
    BY <2>1, <2>2, <2>3 DEF Handled
  <2> QED
    BY <1>14, <2>2, <2>3, <2>4
<1>18. ASSUME NEW c \in Clients, NEW n \in 0 .. MaxSprites, HandleHeartbeat(c, n) PROVE Lists'
  <2>1. First(view[c], n) \subseteq view[c]
    BY FirstWithin
  <2>2. \A d \in Clients : view'[d] \cup hidden'[d] = view[d] \cup hidden[d]
    BY <1>18, <2>1 DEF HandleHeartbeat, TypeOK
  <2> QED
    BY <1>18, <1>u, <2>2 DEF HandleHeartbeat, Undisturbed, server, Listed
<1>19. ASSUME NEW c \in Clients, HandleReliable(c) PROVE Lists'
  BY <1>2, <1>15, <1>16, <1>17, <1>19, QuitsFacts DEF HandleReliable, Basics
<1> QED
  BY <1>1, <1>3, <1>5, <1>7, <1>8, <1>9, <1>10, <1>11, <1>12, <1>13, <1>18, <1>19
     DEF Next, ServerStep, ClientStep, Ended

-----------------------------------------------------------------------------
(* The sprites arrive at their clients *)

\* What d controls, or will, is not touched.
Keeps(d) ==
    /\ InPlay(d)' => InPlay(d) /\ spritenum'[d] = spritenum[d]
    /\ mysprite'[d] = mysprite[d]
    /\ \/ toClient'[d] = toClient[d]
       \/ \E m \in Message :
            /\ toClient'[d] = Append(toClient[d], m)
            /\ m.kind \notin {"list", "yours"} \/ (m.kind = "yours" /\ m.slots = {spritenum[d]})

LEMMA AdoptsKept ==
    ASSUME TypeOK, Adopts, NEW d \in Clients, Keeps(d), InPlay(d)'
    PROVE  Adopted(toClient'[d], mysprite'[d], spritenum'[d])
<1>1. Adopted(toClient[d], mysprite[d], spritenum[d]) /\ mysprite'[d] = mysprite[d]
      /\ spritenum'[d] = spritenum[d] /\ toClient[d] \in Seq(Message)
  BY DEF Adopts, Keeps, TypeOK
<1>2. ASSUME NEW m \in Message, toClient'[d] = Append(toClient[d], m),
             m.kind \notin {"list", "yours"} \/ (m.kind = "yours" /\ m.slots = {spritenum[d]})
      PROVE  Adopted(toClient'[d], mysprite[d], spritenum[d])
  BY <1>1, <1>2, AdoptedAppend
<1> QED
  BY <1>1, <1>2 DEF Keeps

LEMMA NewPlayerKeeps ==
    ASSUME TypeOK, NEW j \in Slots, NEW d \in Clients, Open(d),
           toClient' = Sent(toClient, NewPlayer(j, spritenum)),
           InPlay(d)' => InPlay(d), UNCHANGED <<spritenum, mysprite>>
    PROVE  Keeps(d)
<1> DEFINE m == [kind |-> IF spritenum[d] = j THEN "yours" ELSE "new", slots |-> {j}]
<1>1. toClient'[d] = Append(toClient[d], m)
  BY NewsSent
<1>2. m \in Message /\ (m.kind = "new" \/ (m.kind = "yours" /\ m.slots = {spritenum[d]}))
  BY DEF Message
<1> QED
  BY <1>1, <1>2 DEF Keeps

LEMMA DisconnectKeeps ==
    ASSUME TypeOK, NEW j \in Slots, NEW d \in Clients, Open(d),
           toClient'[d] = Sent(toClient, PlayerDisconnect(j))[d],
           InPlay(d)' => InPlay(d) /\ spritenum'[d] = spritenum[d], mysprite'[d] = mysprite[d]
    PROVE  Keeps(d)
<1> DEFINE m == [kind |-> "left", slots |-> {j}]
<1>1. toClient'[d] = Append(toClient[d], m)
  BY NewsSent
<1>2. m \in Message /\ m.kind = "left"
  BY DEF Message
<1> QED
  BY <1>1, <1>2 DEF Keeps

\* A client in play controls its sprite, or will: kept by every step.
LEMMA AdoptsStep == ASSUME TypeOK, Basics, Adopts, [Next]_vars PROVE Adopts'
<1>k. ASSUME \A d \in Clients : InPlay(d)' => Keeps(d) PROVE Adopts'
  BY <1>k, AdoptsKept DEF Adopts
<1>o. \A d \in Clients : InPlay(d) => Open(d) /\ spritenum[d] \in Slots /\ ~requestinggame[d]
  BY DEF Basics, OwnersOpen, Unseated, InPlay, TypeOK, Slots
<1>1. ASSUME NEW c \in Clients, Connected(c) PROVE Adopts'
  BY <1>1, <1>k DEF Connected, Keeps, InPlay
<1>2. ASSUME NEW c \in Clients, Quits(c) PROVE Adopts'
  <2>1. \A d \in Clients \ {c} : mysprite'[d] = mysprite[d]
    BY <1>2, SessionEnds DEF Quits
  <2>2. \A d \in Clients \ {c} : toClient'[d] = toClient[d]
    BY <1>2 DEF Quits, TypeOK
  <2>3. \A d \in Clients : InPlay(d)' => d # c /\ Keeps(d)
    BY <1>2, <2>1, <2>2 DEF Quits, InPlay, Keeps
  <2> QED
    BY <1>k, <2>3
<1>3. ASSUME NEW c \in Clients, HandleRequestGame(c) PROVE Adopts'
  <2>1. CASE Unaccepted(c)
    BY <1>2, <1>3, <2>1, QuitsFacts DEF HandleRequestGame, Basics
  <2>2. CASE ~Unaccepted(c)
    <3>1. /\ spritenum[c] = 0
          /\ \A d \in Clients \ {c} : toClient'[d] = toClient[d]
          /\ UNCHANGED <<spritenum, active, player, mysprite>>
      BY <1>3, <2>2 DEF HandleRequestGame, client, TypeOK
    <3> QED
      BY <1>k, <3>1 DEF Keeps, InPlay
  <2> QED
    BY <2>1, <2>2
<1>4. ASSUME NEW c \in Clients, NEW j \in Slots, HandlePlayerInfo(c), FirstFree(j), Join(c, j)
      PROVE  Adopts'
  <2>1. PICK flooding \in BOOLEAN :
          /\ active' = [active EXCEPT ![j] = ~flooding]
          /\ toClient' = IF flooding
                         THEN Sent(Sent(toClient, NewPlayer(j, spritenum')), PlayerDisconnect(j))
                         ELSE Sent(toClient, NewPlayer(j, spritenum'))
    BY <1>4 DEF Join
  <2>2. /\ player' = [player EXCEPT ![j] = c]
        /\ spritenum' = [spritenum EXCEPT ![c] = j]
        /\ mysprite' = mysprite /\ Open(c)
    BY <1>4 DEF Join, SpriteNumber, client, HandlePlayerInfo
  <2> SUFFICES ASSUME NEW d \in Clients, InPlay(d)'
               PROVE  Adopted(toClient'[d], mysprite'[d], spritenum'[d])
    BY DEF Adopts
  <2>3. CASE d = c
    <3> DEFINE m == [kind |-> "yours", slots |-> {j}]
    <3>1. spritenum'[d] = j /\ active'[j]
      BY <2>2, <2>3 DEF InPlay, TypeOK
    <3>2. ~flooding
      BY <2>1, <3>1 DEF TypeOK
    <3>3. toClient'[d] = Append(toClient[d], m)
      <4>1. toClient' = Sent(toClient, NewPlayer(j, spritenum')) /\ Open(d)
        BY <2>1, <2>2, <2>3, <3>2
      <4>2. Sent(toClient, NewPlayer(j, spritenum'))[d]
              = Append(toClient[d], [kind |-> IF spritenum'[d] = j THEN "yours" ELSE "new",
                                     slots |-> {j}])
        BY <4>1, NewsSent
      <4> QED
        BY <3>1, <4>1, <4>2
    <3>4. m \in Message /\ m.kind = "yours" /\ m.slots = {j} /\ toClient[d] \in Seq(Message)
      BY DEF Message, TypeOK
    <3> QED
      BY <3>1, <3>3, <3>4, AdoptedAppend
  <2>4. CASE d # c
    <3>1. spritenum'[d] = spritenum[d] /\ spritenum[d] \in Slots
      BY <2>2, <2>4 DEF InPlay, TypeOK, Slots
    <3>2. spritenum[d] # j
      BY <2>2, <2>4, <3>1 DEF InPlay, TypeOK
    <3>3. InPlay(d) /\ Open(d)
      BY <1>o, <2>1, <2>2, <3>1, <3>2 DEF InPlay, TypeOK
    <3> DEFINE m == [kind |-> "new", slots |-> {j}]
               l == [kind |-> "left", slots |-> {j}]
    <3>4. Sent(toClient, NewPlayer(j, spritenum'))[d] = Append(toClient[d], m)
      BY <3>1, <3>2, <3>3, NewsSent
    <3>5. /\ m \in Message /\ m.kind \notin {"list", "yours"}
          /\ l \in Message /\ l.kind \notin {"list", "yours"}
          /\ toClient[d] \in Seq(Message)
      BY DEF Message, TypeOK
    <3>6. Append(toClient[d], m) \in Seq(Message)
      BY <3>5, AppendProperties
    <3>7. Adopted(toClient[d], mysprite[d], spritenum[d])
      BY <3>3 DEF Adopts
    <3> HIDE DEF m
    <3>8. Adopted(Append(toClient[d], m), mysprite[d], spritenum[d])
      BY <3>5, <3>7, AdoptedAppend
    <3>9. CASE ~flooding
      BY <2>1, <2>2, <3>1, <3>4, <3>8, <3>9
    <3>10. CASE flooding
      <4>1. toClient'[d] = Append(Append(toClient[d], m), l)
        BY <2>1, <3>3, <3>4, <3>10 DEF Sent, PlayerDisconnect
      <4> HIDE DEF l
      <4> QED
        BY <2>2, <3>1, <3>5, <3>6, <3>8, <4>1, AdoptedAppend
    <3> QED
      BY <3>9, <3>10
  <2> QED
    BY <2>3, <2>4
<1>5. ASSUME NEW c \in Clients, HandlePlayerInfo(c) PROVE Adopts'
  BY <1>2, <1>4, <1>5, QuitsFacts DEF HandlePlayerInfo, Basics
<1>6. ASSUME NEW c \in Clients, Gone(c) PROVE Adopts'
  <2>1. spritenum[c] \in Slots
    BY <1>6 DEF Gone, TypeOK, Slots
  <2>2. PICK j \in Slots : j = spritenum[c]
    BY <2>1
  <2>3. \A d \in Clients \ {c} : mysprite'[d] = mysprite[d]
    BY <1>6, SessionEnds DEF Gone
  <2>4. ~active'[j] /\ \A i \in Slots : i # j => active'[i] = active[i] /\ player'[i] = player[i]
    BY <1>6, <2>2 DEF Gone, TypeOK
  <2>5. ASSUME NEW d \in Clients, InPlay(d)' PROVE Keeps(d)
    <3>1. d # c
      BY <1>6, <2>2, <2>4, <2>5 DEF Gone, InPlay
    <3>2. spritenum'[d] = spritenum[d] /\ spritenum[d] \in Slots
      BY <1>6, <2>5, <3>1 DEF Gone, InPlay, TypeOK, Slots
    <3>3. InPlay(d) /\ Open(d)
      BY <1>o, <2>4, <2>5, <3>2 DEF InPlay
    <3>4. toClient'[d] = Sent(toClient, PlayerDisconnect(j))[d]
      BY <1>6, <2>2, <3>1 DEF Gone, Sent
    <3> QED
      BY <2>3, <3>1, <3>2, <3>3, <3>4, DisconnectKeeps
  <2> QED
    BY <1>k, <2>5
<1>7. ASSUME NEW c \in Clients, HandleLeave(c) \/ Lost(c) PROVE Adopts'
  BY <1>2, <1>6, <1>7, LeaveIsGone, LostIsGone, QuitsFacts DEF Basics
<1>8. ASSUME NEW j \in Slots, ChangeTeam(j) PROVE Adopts'
  <2>1. \A d \in Clients : InPlay(d)' => InPlay(d) /\ Open(d)
    BY <1>8, <1>o DEF ChangeTeam, server, InPlay
  <2> QED
    BY <1>8, <1>k, <2>1, NewPlayerKeeps DEF ChangeTeam, server, client
<1>9. ASSUME NEW j \in Slots, KickPlayer(j) PROVE Adopts'
  <2>1. \A d \in Clients : InPlay(d)' => InPlay(d) /\ Open(d) /\ spritenum'[d] = spritenum[d]
    BY <1>9, <1>o DEF KickPlayer, InPlay, TypeOK, Slots
  <2> QED
    BY <1>9, <1>k, <2>1, DisconnectKeeps DEF KickPlayer, client
<1>10. ASSUME NEW j \in Slots, AddBotPlayer(j) PROVE Adopts'
  <2>1. \A d \in Clients : InPlay(d)' => InPlay(d) /\ Open(d)
    <3> SUFFICES ASSUME NEW d \in Clients, InPlay(d)' PROVE InPlay(d)
      BY <1>o
    <3>1. spritenum[d] \in Slots /\ spritenum'[d] = spritenum[d]
      BY <1>10 DEF AddBotPlayer, InPlay, TypeOK, Slots
    <3>2. spritenum[d] # j /\ player'[spritenum[d]] = player[spritenum[d]]
      BY <1>10, <3>1, PlayersAssumption DEF AddBotPlayer, InPlay, TypeOK
    <3>3. active'[spritenum[d]] = active[spritenum[d]]
      BY <1>10, <3>1, <3>2 DEF AddBotPlayer, TypeOK
    <3> QED
      BY <3>1, <3>2, <3>3 DEF InPlay
  <2>2. CASE toClient' = Sent(toClient, NewPlayer(j, spritenum))
    BY <1>10, <1>k, <2>1, <2>2, NewPlayerKeeps DEF AddBotPlayer, client
  <2>3. CASE toClient' = toClient
    BY <1>10, <1>k, <2>1, <2>3 DEF AddBotPlayer, client, Keeps
  <2> QED
    BY <1>10, <2>2, <2>3 DEF AddBotPlayer
<1>11. CASE StopRecord
  <2>1. \A d \in Clients : InPlay(d)' => InPlay(d)
    BY <1>11 DEF StopRecord, InPlay, TypeOK, Slots
  <2> QED
    BY <1>11, <1>k, <2>1 DEF StopRecord, Keeps, client
<1>12. CASE StartRecord
  <2>1. \A d \in Clients : InPlay(d)' => InPlay(d)
    <3> SUFFICES ASSUME NEW d \in Clients, InPlay(d)' PROVE InPlay(d)
      OBVIOUS
    <3>1. spritenum[d] \in Slots /\ spritenum'[d] = spritenum[d]
      BY <1>12 DEF StartRecord, InPlay, TypeOK, Slots
    <3> QED
      BY <1>12, <3>1, SlotFacts, PlayersAssumption DEF StartRecord, InPlay, TypeOK
  <2> QED
    BY <1>12, <1>k, <2>1 DEF StartRecord, Keeps, client
<1>13. CASE ServerHeartbeat \/ UNCHANGED vars
  BY <1>13, <1>k DEF ServerHeartbeat, vars, server, client, Keeps, InPlay
<1>14. ASSUME NEW c \in Clients, UNCHANGED <<spritenum, active, player>>,
              toClient[c] # <<>>, toClient'[c] = Tail(toClient[c]),
              \A d \in Clients \ {c} : toClient'[d] = toClient[d] /\ mysprite'[d] = mysprite[d],
              InPlay(c) => \/ Head(toClient[c]).kind # "yours" /\ mysprite'[c] = mysprite[c]
                           \/ Head(toClient[c]).kind = "yours"
                              /\ mysprite'[c] \in Head(toClient[c]).slots
       PROVE  Adopts'
  <2> SUFFICES ASSUME NEW d \in Clients, InPlay(d)'
               PROVE  Adopted(toClient'[d], mysprite'[d], spritenum'[d])
    BY DEF Adopts
  <2>1. InPlay(d) /\ Adopted(toClient[d], mysprite[d], spritenum[d]) /\ spritenum' = spritenum
        /\ toClient[d] \in Seq(Message)
    BY <1>14 DEF InPlay, Adopts, TypeOK
  <2>2. CASE d # c
    BY <1>14, <2>1, <2>2
  <2>3. CASE d = c
    BY <1>14, <2>1, <2>3, AdoptedTail
  <2> QED
    BY <2>2, <2>3
<1>15. ASSUME NEW c \in Clients, HandlePlayersList(c) PROVE Adopts'
  <2>1. /\ toClient[c] # <<>> /\ toClient'[c] = Tail(toClient[c])
        /\ \A d \in Clients \ {c} : toClient'[d] = toClient[d]
        /\ UNCHANGED <<spritenum, active, player>>
    BY <1>15 DEF HandlePlayersList, Arrives, server, TypeOK
  <2>2. \A d \in Clients \ {c} : mysprite'[d] = mysprite[d]
    BY <1>15 DEF HandlePlayersList, TypeOK
  <2>3. ~InPlay(c)
    BY <1>15, <1>o DEF HandlePlayersList
  <2> QED
    BY <1>14, <2>1, <2>2, <2>3
<1>16. ASSUME NEW c \in Clients, HandleNewPlayer(c) PROVE Adopts'
  <2>1. /\ toClient[c] # <<>> /\ toClient'[c] = Tail(toClient[c])
        /\ \A d \in Clients \ {c} : toClient'[d] = toClient[d]
        /\ UNCHANGED <<spritenum, active, player>>
    BY <1>16 DEF HandleNewPlayer, Arrives, server, TypeOK
  <2>2. \A d \in Clients \ {c} : mysprite'[d] = mysprite[d]
    BY <1>16 DEF HandleNewPlayer, TypeOK
  <2>3. \/ Head(toClient[c]).kind # "yours" /\ mysprite'[c] = mysprite[c]
        \/ Head(toClient[c]).kind = "yours" /\ mysprite'[c] \in Head(toClient[c]).slots
    BY <1>16 DEF HandleNewPlayer, TypeOK
  <2> QED
    BY <1>14, <2>1, <2>2, <2>3
<1>17. ASSUME NEW c \in Clients, HandlePlayerDisconnect(c) PROVE Adopts'
  <2>1. /\ toClient[c] # <<>> /\ toClient'[c] = Tail(toClient[c])
        /\ \A d \in Clients \ {c} : toClient'[d] = toClient[d]
        /\ UNCHANGED <<spritenum, active, player, mysprite>>
        /\ Head(toClient[c]).kind = "left"
    BY <1>17 DEF HandlePlayerDisconnect, Arrives, server, TypeOK
  <2> QED
    BY <1>14, <2>1
<1>18. ASSUME NEW c \in Clients, NEW n \in 0 .. MaxSprites, HandleHeartbeat(c, n) PROVE Adopts'
  BY <1>18, <1>k DEF HandleHeartbeat, server, Keeps, InPlay
<1>19. ASSUME NEW c \in Clients, HandleReliable(c) PROVE Adopts'
  BY <1>2, <1>15, <1>16, <1>17, <1>19, QuitsFacts DEF HandleReliable, Basics
<1> QED
  BY <1>1, <1>3, <1>5, <1>7, <1>8, <1>9, <1>10, <1>11, <1>12, <1>13, <1>18, <1>19
     DEF Next, ServerStep, ClientStep, Ended

-----------------------------------------------------------------------------
(* The theorems *)

LEMMA RosterInit == Init => RosterInv
<1> SUFFICES ASSUME Init PROVE RosterInv
  OBVIOUS
<1>1. TypeOK
  BY TypeInit
<1>2. \A c \in Clients : session[c] = "away" /\ toClient[c] = <<>> /\ view[c] = {}
        /\ hidden[c] = {} /\ spritenum[c] = 0 /\ ~gamerequested[c]
  BY DEF Init
<1>3. Basics
  BY <1>2 DEF Basics, Idle, Unseated, AwayAsksNot, OwnersOpen, LastOnly, InPlay, Init
<1>4. Lists /\ Adopts
  BY <1>2 DEF Lists, Open, Adopts, InPlay
<1> QED
  BY <1>1, <1>3, <1>4 DEF RosterInv

LEMMA RosterStep == RosterInv /\ [Next]_vars => RosterInv'
BY TypeStep, BasicsStep, ListsStep, AdoptsStep DEF RosterInv

LEMMA Invariant == Spec => []RosterInv
BY RosterInit, RosterStep, PTL DEF Spec

LEMMA FollowImplied == RosterInv => ListsFollow
BY DEF RosterInv, Lists, Follows, ListsFollow

LEMMA AdoptsImplied == RosterInv => AdoptsOwn
BY DEF RosterInv, Adopts, Adopted, Gift, AdoptsOwn, LastGift

\* Whoever has been let in shows, or will, exactly those who are in the game
\* (ListsFollow), for any number of clients and slots; but for sprites its heartbeats
\* or its list have hidden, and for slots stoprecord has emptied (hidden, unannounced).
THEOREM ListsAreRight == Spec => []ListsFollow
BY Invariant, FollowImplied, PTL

\* A client in play controls the sprite the server gave it, or will (AdoptsOwn).
THEOREM EveryoneAdoptsTheirOwn == Spec => []AdoptsOwn
BY Invariant, AdoptsImplied, PTL

\* Of slots that are all in the game, no more precede i than are in the game with it.
LEMMA FewerBefore ==
    ASSUME NEW V \in SUBSET Slots, NEW A \in SUBSET Slots, NEW i \in A,
           \A j \in V : j < i => j \in A
    PROVE  Cardinality({j \in V : j < i}) < Cardinality(A)
<1> DEFINE B == {j \in V : j < i}
<1>1. IsFiniteSet(A) /\ Cardinality(A) \in Nat
  BY CountTyped
<1>2. B \in SUBSET (A \ {i})
  <2>1. \A j \in V : j < i => j # i
    BY DEF Slots
  <2> QED
    BY <2>1
<1>3. IsFiniteSet(A \ {i}) /\ Cardinality(A \ {i}) = Cardinality(A) - 1
  BY <1>1, FS_RemoveElement
<1>4. Cardinality(B) <= Cardinality(A \ {i})
  BY <1>2, <1>3, FS_Subset
<1>5. Cardinality(B) \in Nat
  BY CountTyped
<1> QED
  BY <1>1, <1>3, <1>4, <1>5

LEMMA FreshStep == RosterInv => TakesGhostsOnly
<1> SUFFICES ASSUME RosterInv, NEW c \in Clients, gamerequested[c], toClient[c] = <<>>,
                    HandleHeartbeat(c, Counted), NEW i \in view[c], i \notin view'[c],
                    i \notin unannounced
             PROVE  FALSE
  BY DEF TakesGhostsOnly
<1> DEFINE A == {j \in Slots : active[j]}
<1>1. TypeOK /\ Lists /\ LastOnly /\ Open(c)
  BY DEF RosterInv, Basics, HandleHeartbeat
<1>2. view[c] \subseteq Slots /\ i \in Slots
  BY <1>1 DEF TypeOK
<1>3. \A j \in view[c] \ unannounced : Listed(j)
  <2> TAKE j \in view[c] \ unannounced
  <2>1. WillShow(c, j)
    BY DEF WillShow
  <2> QED
    BY <1>1, <1>2, <2>1 DEF Lists, Follows
<1>4. i \in A /\ \A j \in view[c] : j < i => j \in A
  <2>1. \A j \in view[c] : j < i => j \notin unannounced
    BY <1>1, <1>2, SpritesAssumption DEF LastOnly, Slots
  <2> QED
    BY <1>2, <1>3, <2>1 DEF Listed
<1>5. Cardinality({j \in view[c] : j < i}) < Cardinality(A)
  BY <1>2, <1>4, FewerBefore
<1>6. view'[c] = First(view[c], Counted)
  BY <1>1 DEF HandleHeartbeat, TypeOK
<1> QED
  BY <1>5, <1>6 DEF First, Counted

\* A heartbeat that counts those who are there takes nobody off a client that is up to
\* date, but for ghosts (FreshHeartbeats).
THEOREM HeartbeatsTakeGhostsOnly == Spec => FreshHeartbeats
BY Invariant, FreshStep, PTL DEF Spec, FreshHeartbeats

-----------------------------------------------------------------------------
(* Roster implements Sessions *)

SessionStep == [Promise!Next]_Promise!vars

SameFor(c) ==
    /\ session'[c] = session[c]
    /\ spritenum'[c] = spritenum[c]
    /\ gamerequested'[c] = gamerequested[c]

\* Of whom the server says the same, and who is as much in play as before, is at the
\* same stage.
LEMMA SameStage ==
    ASSUME NEW c \in Clients, SameFor(c)
    PROVE  /\ seats'[c] = seats[c]
           /\ (InPlay(c)' <=> InPlay(c)) => stages'[c] = stages[c]
BY DEF SameFor, stages, seats, Open

LEMMA InPlayMeans ==
    ASSUME TypeOK, Basics, NEW c \in Clients
    PROVE  /\ InPlay(c) => /\ Open(c) /\ spritenum[c] \in Slots /\ spritenum[c] # 0
                           /\ seats[c] = spritenum[c]
           /\ stages[c] = "player" <=> InPlay(c)
<1>1. InPlay(c) => Open(c) /\ spritenum[c] \in Slots /\ spritenum[c] # 0
  BY DEF Basics, OwnersOpen, InPlay, TypeOK, Slots
<1> QED
  BY <1>1 DEF stages, seats, Open

LEMMA SameServer ==
    ASSUME \A c \in Clients : SameFor(c) /\ (InPlay(c)' <=> InPlay(c))
    PROVE  SessionStep
<1>1. \A c \in Clients : stages'[c] = stages[c] /\ seats'[c] = seats[c]
  BY SameStage
<1>2. stages' = stages /\ seats' = seats
  BY <1>1 DEF stages, seats
<1> QED
  BY <1>2 DEF SessionStep, Promise!vars

\* One slot is emptied or given to none of the clients: who was in play there, if
\* anybody was, is sent off.
LEMMA SlotCleared ==
    ASSUME TypeOK, Basics, NEW i \in Slots, \A c \in Clients : SameFor(c),
           \A j \in Slots \ {i} : active'[j] = active[j] /\ player'[j] = player[j],
           active'[i] => player'[i] \notin Clients
    PROVE  SessionStep
<1>1. ASSUME NEW c \in Clients, ~(InPlay(c) /\ spritenum[c] = i)
      PROVE  stages'[c] = stages[c] /\ seats'[c] = seats[c]
  <2>1. spritenum'[c] = spritenum[c] /\ (spritenum[c] = 0 \/ spritenum[c] \in Slots)
    BY DEF SameFor, TypeOK, Slots
  <2>2. InPlay(c)' <=> InPlay(c)
    BY <1>1, <2>1 DEF InPlay
  <2> QED
    BY <2>2, SameStage
<1>2. ASSUME NEW d \in Clients, InPlay(d), spritenum[d] = i PROVE SessionStep
  <2>1. /\ Open(d) /\ spritenum[d] # 0 /\ stages[d] = "player"
        /\ session'[d] = session[d] /\ spritenum'[d] = i
    BY <1>2, InPlayMeans DEF SameFor
  <2>2. ~InPlay(d)'
    BY <2>1 DEF InPlay
  <2>3. stages'[d] = "benched" /\ seats'[d] = seats[d]
    BY <1>2, <2>1, <2>2, SameStage DEF stages, Open
  <2>4. \A c \in Clients \ {d} : stages'[c] = stages[c] /\ seats'[c] = seats[c]
    <3>1. \A c \in Clients \ {d} : ~(InPlay(c) /\ spritenum[c] = i)
      BY <1>2 DEF InPlay
    <3> QED
      BY <1>1, <3>1
  <2>5. \A c \in Clients : stages'[c] = IF c = d THEN "benched" ELSE stages[c]
    BY <2>3, <2>4
  <2>6. stages' = [stages EXCEPT ![d] = "benched"] /\ seats' = seats
    <3>1. seats' = seats
      BY <2>3, <2>4 DEF seats
    <3>2. stages = [c \in Clients |-> stages[c]] /\ stages' = [c \in Clients |-> stages'[c]]
      BY DEF stages
    <3> QED
      BY <2>5, <3>1, <3>2
  <2>7. Promise!SendOff(d)
    BY <2>1, <2>6 DEF Promise!SendOff, Promise!Moves
  <2> QED
    BY <2>7 DEF SessionStep, Promise!Next
<1>3. CASE \A c \in Clients : ~(InPlay(c) /\ spritenum[c] = i)
  <2>1. \A c \in Clients : stages'[c] = stages[c] /\ seats'[c] = seats[c]
    BY <1>1, <1>3
  <2>2. stages' = stages /\ seats' = seats
    BY <2>1 DEF stages, seats
  <2> QED
    BY <2>2 DEF SessionStep, Promise!vars
<1> QED
  BY <1>2, <1>3

\* c parts: its slot, if it has one, is emptied.
LEMMA Parted ==
    ASSUME TypeOK, Basics, NEW c \in Clients, Open(c), session'[c] = "over",
           \A d \in Clients \ {c} : SameFor(d),
           \/ spritenum[c] = 0 /\ active' = active /\ player' = player
           \/ /\ spritenum[c] \in Slots
              /\ ~active'[spritenum[c]]
              /\ \A j \in Slots \ {spritenum[c]} : active'[j] = active[j] /\ player'[j] = player[j]
    PROVE  SessionStep
<1>1. stages[c] \notin {"away", "gone"} /\ seats[c] = spritenum[c]
  BY DEF stages, seats, Open
<1>2. stages'[c] = "gone" /\ seats'[c] = 0
  BY DEF stages, seats, Open
<1>3. ASSUME NEW d \in Clients \ {c}
      PROVE  /\ seats'[d] = seats[d]
             /\ stages'[d] = IF stages[d] = "player" /\ seats[d] = seats[c] THEN "benched"
                             ELSE stages[d]
  <2>1. SameFor(d) /\ seats'[d] = seats[d]
    BY SameStage
  <2>2. CASE InPlay(d) /\ spritenum[d] = spritenum[c]
    <3>1. Open(d) /\ spritenum[d] \in Slots /\ spritenum[d] # 0 /\ stages[d] = "player"
          /\ seats[d] = seats[c]
      BY <1>1, <2>2, InPlayMeans
    <3>2. ~InPlay(d)'
      BY <2>1, <2>2, <3>1 DEF InPlay, SameFor
    <3>3. stages'[d] = "benched"
      BY <2>1, <3>1, <3>2 DEF stages, SameFor, Open
    <3> QED
      BY <2>1, <3>1, <3>3
  <2>3. CASE ~(InPlay(d) /\ spritenum[d] = spritenum[c])
    <3>1. spritenum[d] = 0 \/ spritenum[d] \in Slots
      BY DEF TypeOK, Slots
    <3>2. InPlay(d)' <=> InPlay(d)
      BY <2>1, <2>3, <3>1 DEF InPlay, SameFor
    <3>3. stages'[d] = stages[d]
      BY <2>1, <3>2, SameStage
    <3>4. ~(stages[d] = "player" /\ seats[d] = seats[c])
      BY <1>1, <2>3, InPlayMeans
    <3> QED
      BY <2>1, <3>3, <3>4
  <2> QED
    BY <2>2, <2>3
<1>4. stages' = [d \in Clients |->
            IF d = c THEN "gone"
            ELSE IF stages[d] = "player" /\ seats[d] = seats[c] THEN "benched"
            ELSE stages[d]]
  <2>1. \A d \in Clients : stages'[d] =
            IF d = c THEN "gone"
            ELSE IF stages[d] = "player" /\ seats[d] = seats[c] THEN "benched"
            ELSE stages[d]
    BY <1>2, <1>3
  <2> QED
    BY <2>1 DEF stages
<1>5. \A d \in Clients : seats'[d] = IF d = c THEN 0 ELSE seats[d]
  BY <1>2, <1>3
<1>6. seats' = [seats EXCEPT ![c] = 0]
  BY <1>5 DEF seats
<1>7. Promise!Part(c)
  BY <1>1, <1>4, <1>6 DEF Promise!Part
<1> QED
  BY <1>7 DEF SessionStep, Promise!Next

LEMMA QuitsParts == ASSUME TypeOK, Basics, NEW c \in Clients, Open(c), spritenum[c] = 0,
                           session' = [session EXCEPT ![c] = "over"],
                           \A d \in Clients \ {c} : spritenum'[d] = spritenum[d]
                                                    /\ gamerequested'[d] = gamerequested[d],
                           active' = active, player' = player
                    PROVE  SessionStep
<1>1. session'[c] = "over" /\ \A d \in Clients \ {c} : SameFor(d)
  BY DEF TypeOK, SameFor
<1> QED
  BY <1>1, Parted

LEMMA GoneParts == ASSUME TypeOK, Basics, NEW c \in Clients, Open(c), Gone(c) PROVE SessionStep
<1>1. session'[c] = "over" /\ \A d \in Clients \ {c} : SameFor(d)
  BY SessionEnds DEF Gone, SameFor
<1>2. spritenum[c] \in Slots
  BY DEF Gone, TypeOK, Slots
<1>3. ~active'[spritenum[c]]
      /\ \A j \in Slots \ {spritenum[c]} : active'[j] = active[j] /\ player'[j] = player[j]
  BY <1>2 DEF Gone, TypeOK
<1> QED
  BY <1>1, <1>2, <1>3, Parted

LEMMA Leaving ==
    ASSUME TypeOK, Basics, NEW c \in Clients, HandleLeave(c) \/ Lost(c) \/ CannotLoadMap(c)
    PROVE  SessionStep
<1>1. Open(c)
  BY DEF HandleLeave, Lost, CannotLoadMap
<1>2. CASE HandleLeave(c) \/ (Lost(c) /\ spritenum[c] # 0)
  BY <1>1, <1>2, LeaveIsGone, LostIsGone, GoneParts DEF Basics
<1>3. CASE CannotLoadMap(c) \/ (Lost(c) /\ spritenum[c] = 0)
  <2>1. Quits(c) /\ spritenum[c] = 0
    BY <1>3, QuitsFacts DEF Basics, Unseated, CannotLoadMap
  <2> QED
    BY <1>1, <2>1, QuitsParts DEF Quits, EndSession
<1> QED
  BY <1>2, <1>3

\* c takes one step forward; nobody else does anything.
LEMMA Forward ==
    ASSUME TypeOK, Basics, NEW c \in Clients, NEW s, stages'[c] = s,
           \A d \in Clients \ {c} : SameFor(d) /\ (InPlay(d)' <=> InPlay(d))
    PROVE  /\ stages' = [stages EXCEPT ![c] = s]
           /\ seats' = [seats EXCEPT ![c] = seats'[c]]
<1>1. \A d \in Clients \ {c} : stages'[d] = stages[d] /\ seats'[d] = seats[d]
  BY SameStage
<1>2. \A d \in Clients : /\ stages'[d] = IF d = c THEN s ELSE stages[d]
                         /\ seats'[d] = IF d = c THEN seats'[c] ELSE seats[d]
  BY <1>1
<1>3. /\ stages = [d \in Clients |-> stages[d]] /\ stages' = [d \in Clients |-> stages'[d]]
      /\ seats = [d \in Clients |-> seats[d]] /\ seats' = [d \in Clients |-> seats'[d]]
  BY DEF stages, seats
<1> QED
  BY <1>2, <1>3

LEMMA Meeting == ASSUME TypeOK, Basics, NEW c \in Clients, Connected(c) PROVE SessionStep
<1>1. /\ session[c] = "away" /\ session'[c] = "open" /\ ~gamerequested[c] /\ spritenum[c] = 0
      /\ UNCHANGED <<gamerequested, spritenum, active, player>>
      /\ \A d \in Clients \ {c} : session'[d] = session[d]
  BY DEF Connected, TypeOK, Basics, AwayAsksNot, Unseated
<1>2. stages[c] = "away" /\ stages'[c] = "guest" /\ seats'[c] = seats[c]
  BY <1>1 DEF stages, seats, InPlay, Open
<1>3. \A d \in Clients \ {c} : SameFor(d) /\ (InPlay(d)' <=> InPlay(d))
  BY <1>1 DEF SameFor, InPlay
<1>4. stages' = [stages EXCEPT ![c] = "guest"] /\ seats' = seats
  BY <1>2, <1>3, Forward DEF seats
<1>5. Promise!Meet(c)
  BY <1>2, <1>4 DEF Promise!Meet, Promise!Moves
<1> QED
  BY <1>5 DEF SessionStep, Promise!Next

LEMMA Asking == ASSUME TypeOK, Basics, NEW c \in Clients, HandleRequestGame(c) PROVE SessionStep
<1>1. Open(c) /\ spritenum[c] = 0 /\ ~gamerequested[c]
  BY DEF HandleRequestGame
<1>2. CASE Unaccepted(c)
  BY <1>1, <1>2, QuitsParts DEF Unaccepted, EndSession
<1>3. CASE ~Unaccepted(c)
  <2>1. /\ gamerequested' = [gamerequested EXCEPT ![c] = TRUE]
        /\ UNCHANGED <<session, spritenum, active, player>>
    BY <1>3 DEF HandleRequestGame
  <2>2. gamerequested'[c] /\ \A d \in Clients \ {c} : gamerequested'[d] = gamerequested[d]
    BY <2>1 DEF TypeOK
  <2>3. stages[c] = "guest" /\ stages'[c] = "admitted" /\ seats'[c] = seats[c]
    BY <1>1, <2>1, <2>2 DEF stages, seats, InPlay, Open
  <2>4. \A d \in Clients \ {c} : SameFor(d) /\ (InPlay(d)' <=> InPlay(d))
    BY <2>1, <2>2 DEF SameFor, InPlay
  <2>5. stages' = [stages EXCEPT ![c] = "admitted"] /\ seats' = seats
    BY <2>3, <2>4, Forward DEF seats
  <2>6. Promise!Admit(c)
    BY <2>3, <2>5 DEF Promise!Admit, Promise!Moves
  <2> QED
    BY <2>6 DEF SessionStep, Promise!Next
<1> QED
  BY <1>2, <1>3

\* While a slot is free, fewer clients are in play than there are slots.
LEMMA RoomLeft ==
    ASSUME TypeOK, Basics, NEW i \in Slots, ~active[i]
    PROVE  Cardinality(Promise!PublicSeats) < MaxSprites
<1>1. Promise!PublicSeats \subseteq Slots \ {i}
  <2> SUFFICES ASSUME NEW d \in Clients, stages[d] = "player" PROVE seats[d] \in Slots \ {i}
    BY DEF Promise!PublicSeats
  <2>1. InPlay(d) /\ seats[d] = spritenum[d] /\ spritenum[d] \in Slots
    BY InPlayMeans
  <2> QED
    BY <2>1 DEF InPlay
<1>2. IsFiniteSet(Slots) /\ Cardinality(Slots) = MaxSprites
  BY SpritesAssumption, FS_Interval DEF Slots
<1>3. IsFiniteSet(Slots \ {i}) /\ Cardinality(Slots \ {i}) = MaxSprites - 1
  BY <1>2, FS_RemoveElement
<1>4. Cardinality(Promise!PublicSeats) <= MaxSprites - 1
      /\ Cardinality(Promise!PublicSeats) \in Nat
  BY <1>1, <1>3, FS_Subset, FS_CardinalityType
<1> QED
  BY <1>4, SpritesAssumption

LEMMA Joining ==
    ASSUME TypeOK, Basics, NEW c \in Clients, HandlePlayerInfo(c)
    PROVE  SessionStep
<1>1. Open(c) /\ spritenum[c] = 0 /\ gamerequested[c]
  BY DEF HandlePlayerInfo
<1>2. CASE Unaccepted(c)
  BY <1>1, <1>2, QuitsParts DEF Unaccepted, EndSession
<1>3. ASSUME NEW i \in Slots, FirstFree(i), Join(c, i) PROVE SessionStep
  <2>1. PICK flooding \in BOOLEAN : active' = [active EXCEPT ![i] = ~flooding]
    BY <1>3 DEF Join
  <2>2. /\ ~active[i] /\ i # 0
        /\ \A j \in Slots \ {i} : active'[j] = active[j] /\ player'[j] = player[j]
        /\ active'[i] = ~flooding /\ player'[i] = c
        /\ spritenum'[c] = i /\ \A d \in Clients \ {c} : spritenum'[d] = spritenum[d]
        /\ UNCHANGED <<session, gamerequested>>
    BY <1>3, <2>1, SlotFacts DEF FirstFree, Join, SpriteNumber, TypeOK
  <2>3. \A d \in Clients \ {c} : SameFor(d) /\ (InPlay(d)' <=> InPlay(d))
    <3> TAKE d \in Clients \ {c}
    <3>1. spritenum'[d] = spritenum[d] /\ (spritenum[d] = 0 \/ spritenum[d] \in Slots)
      BY <2>2 DEF TypeOK, Slots
    <3>2. InPlay(d)' <=> InPlay(d)
      BY <2>2, <3>1 DEF InPlay
    <3> QED
      BY <2>2, <3>2 DEF SameFor
  <2>4. stages[c] = "admitted"
    BY <1>1 DEF stages, InPlay, Open
  <2>5. stages'[c] \in {"player", "benched"} /\ seats'[c] = i
    BY <1>1, <2>2 DEF stages, seats, Open
  <2>6. PICK s \in {"player", "benched"} : stages'[c] = s
    BY <2>5
  <2>7. stages' = [stages EXCEPT ![c] = s] /\ seats' = [seats EXCEPT ![c] = i]
    BY <2>3, <2>5, <2>6, Forward
  <2>8. \A d \in Clients : ~(stages[d] = "player" /\ seats[d] = i)
    BY <2>2, InPlayMeans DEF InPlay
  <2>9. Promise!Cardinality(Promise!PublicSeats) < MaxSprites
    BY <2>2, RoomLeft DEF Promise!Cardinality, Cardinality
  <2>10. i \in Promise!Seats
    BY DEF Promise!Seats, Slots
  <2>11. Promise!Moves(c, "admitted", "player") \/ Promise!Moves(c, "admitted", "benched")
    BY <2>4, <2>7 DEF Promise!Moves
  <2>12. Promise!Sit(c)
    BY <2>7, <2>8, <2>9, <2>10, <2>11 DEF Promise!Sit
  <2> QED
    BY <2>12 DEF SessionStep, Promise!Next
<1> QED
  BY <1>2, <1>3 DEF HandlePlayerInfo

LEMMA EveryStep == ASSUME TypeOK, Basics, [Next]_vars PROVE SessionStep
<1>s. ASSUME UNCHANGED <<session, gamerequested, spritenum, active, player>> PROVE SessionStep
  BY <1>s, SameServer DEF SameFor, InPlay
<1>c. ASSUME NEW i \in Slots, UNCHANGED <<session, gamerequested, spritenum>>,
             \A j \in Slots \ {i} : active'[j] = active[j] /\ player'[j] = player[j],
             active'[i] => player'[i] \notin Clients
      PROVE  SessionStep
  BY <1>c, SlotCleared DEF SameFor
<1>1. ASSUME NEW c \in Clients,
             \/ Connected(c) \/ HandleRequestGame(c) \/ HandlePlayerInfo(c)
             \/ HandleLeave(c) \/ Lost(c)
      PROVE  SessionStep
  BY <1>1, Meeting, Asking, Joining, Leaving
<1>2. ASSUME NEW i \in Slots, ChangeTeam(i) PROVE SessionStep
  BY <1>2, <1>s DEF ChangeTeam, server
<1>3. ASSUME NEW i \in Slots, KickPlayer(i) PROVE SessionStep
  BY <1>3, <1>c DEF KickPlayer, TypeOK
<1>4. ASSUME NEW i \in Slots, AddBotPlayer(i) PROVE SessionStep
  <2>1. /\ UNCHANGED <<session, gamerequested, spritenum>>
        /\ \A j \in Slots \ {i} : active'[j] = active[j] /\ player'[j] = player[j]
        /\ player'[i] \notin Clients
    BY <1>4, PlayersAssumption DEF AddBotPlayer, TypeOK
  <2> QED
    BY <2>1, <1>c
<1>5. CASE StopRecord
  BY <1>5, <1>c, SlotFacts DEF StopRecord, TypeOK
<1>6. CASE StartRecord
  <2>1. /\ UNCHANGED <<session, gamerequested, spritenum>>
        /\ \A j \in Slots \ {MaxSprites} : active'[j] = active[j] /\ player'[j] = player[j]
        /\ active'[MaxSprites] => player'[MaxSprites] \notin Clients
    BY <1>6, SlotFacts, PlayersAssumption DEF StartRecord, TypeOK
  <2> QED
    BY <2>1, <1>c, SlotFacts
<1>7. CASE ServerHeartbeat
  BY <1>7, <1>s DEF ServerHeartbeat, server
<1>8. ASSUME NEW c \in Clients, ClientStep(c) PROVE SessionStep
  <2>1. CASE CannotLoadMap(c)
    BY <2>1, Leaving
  <2>2. CASE ~CannotLoadMap(c)
    <3>1. UNCHANGED server
      BY <1>8, <2>2 DEF ClientStep, HandleReliable, HandlePlayersList, HandleNewPlayer,
         HandlePlayerDisconnect, HandleHeartbeat, Arrives
    <3> QED
      BY <3>1, <1>s DEF server
  <2> QED
    BY <2>1, <2>2
<1>9. CASE Ended \/ UNCHANGED vars
  BY <1>9, <1>s DEF Ended, vars, server
<1> QED
  BY <1>1, <1>2, <1>3, <1>4, <1>5, <1>6, <1>7, <1>8, <1>9 DEF Next, ServerStep

\* What the clients and the server do to each other here is what Sessions promises
\* (Implements), for any number of clients and slots: the same promise that
\* ServerSessions keeps.
THEOREM RosterImplementsSessions == Spec => Implements
<1>1. Init => Promise!Init
  <2> SUFFICES ASSUME Init PROVE Promise!Init
    OBVIOUS
  <2>1. \A c \in Clients : stages[c] = "away" /\ seats[c] = 0
    BY DEF Init, stages, seats, Open
  <2> QED
    BY <2>1 DEF stages, seats, Promise!Init
<1>2. RosterInv /\ [Next]_vars => [Promise!Next]_Promise!vars
  BY EveryStep DEF RosterInv, SessionStep
<1> QED
  BY <1>1, <1>2, Invariant, PTL DEF Spec, Implements, Promise!Spec

-----------------------------------------------------------------------------
(* What follows from the promise *)

Facts == INSTANCE SessionsFacts WITH
    Conn <- Clients, MaxPlayers <- MaxSprites, SvMaxPlayers <- MaxSprites, RemoteAdmins <- {},
    stage <- stages, seat <- seats

\* Sessions and SessionsFacts are about the same specification.
LEMMA SamePromise == [Promise!Next]_Promise!vars => [Facts!Next]_Facts!vars
<1>1. \A c \in Clients :
        /\ Promise!Meet(c) => Facts!Meet(c)
        /\ Promise!Admit(c) => Facts!Admit(c)
        /\ Promise!SendOff(c) => Facts!SendOff(c)
        /\ Promise!Part(c) => Facts!Part(c)
  BY DEF Promise!Meet, Facts!Meet, Promise!Admit, Facts!Admit, Promise!SendOff, Facts!SendOff,
     Promise!Part, Facts!Part, Promise!Moves, Facts!Moves
<1>2. \A c \in Clients : Promise!Sit(c) => Facts!Sit(c)
  BY DEF Promise!Sit, Facts!Sit, Promise!Moves, Facts!Moves, Promise!Seats, Facts!Seats,
     Promise!PublicSeats, Facts!PublicSeats, Promise!Cardinality, Facts!Cardinality
<1>3. Promise!Close => Facts!Close
  BY DEF Promise!Close, Facts!Close
<1> QED
  BY <1>1, <1>2, <1>3 DEF Promise!Next, Facts!Next, Promise!vars, Facts!vars

LEMMA SameOnward ==
    [\A c \in Clients : Facts!Onward(c)]_Facts!vars
        => [\A c \in Clients : Promise!Onward(c)]_Promise!vars
<1>1. \A c \in Clients : Facts!Onward(c) => Promise!Onward(c)
  BY DEF Facts!Onward, Promise!Onward
<1> QED
  BY <1>1 DEF Facts!vars, Promise!vars

\* A client whose sprite is taken from it is not given another, and one whose session
\* is over is not let in again (Sessions!NoWayBack), whatever the clients believe.
THEOREM NobodyComesBack == Spec => Promise!NoWayBack
<1>1. Facts!SeatsGiven
  BY SpritesAssumption DEF Facts!SeatsGiven
<1>2. Facts!Spec => Facts!NoWayBack
  BY <1>1, Facts!ThereIsNoWayBack
<1>3. Promise!Init => Facts!Init
  BY DEF Promise!Init, Facts!Init
<1>4. Spec => Facts!Spec
  BY <1>3, SamePromise, RosterImplementsSessions, PTL DEF Implements, Promise!Spec, Facts!Spec
<1> QED
  BY <1>2, <1>4, SameOnward, PTL DEF Facts!NoWayBack, Promise!NoWayBack

=============================================================================
