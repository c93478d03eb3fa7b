---------------------------- MODULE Sessions_proofs ----------------------------
(***************************************************************************)
(* ServerSessions implements Sessions, for any number of connections and   *)
(* slots.  Most steps of the server are none of Sessions, or concern one   *)
(* slot only (SlotCleared); the others are named steps of Sessions.        *)
(***************************************************************************)
EXTENDS ServerSessions_proofs

\* A connection without an entry in mConnectionMap has a player that has neither
\* asked nor joined, or none.
Strangers == \A c \in Conn \ mConnectionMap : spritenum[c] = 0 /\ ~gamerequested[c]

LEMMA StrangersStep == IInv /\ Strangers /\ [Next]_vars => Strangers'
<1> SUFFICES ASSUME IInv, Strangers, [Next]_vars PROVE Strangers'
  OBVIOUS
<1> USE DEF IInv
<1>1. UNCHANGED <<mapvars, plvars>> => Strangers'
  BY DEF mapvars, plvars, Strangers
<1>2. \A why : Crash(why) => Strangers'
  BY <1>1 DEF Crash
<1>3. ASSUME NEW c \in Conn,
             \/ ClientConnects(c) \/ ConnectionDies(c) \/ ProcessConnecting(c) \/ AssertMap(c)
             \/ HandleUnknownPeer(c) \/ HandleLeaveVotedOut(c) \/ HandleLeave(c) \/ HandleOffence(c)
      PROVE  Strangers'
  BY <1>1, <1>2, <1>3 DEF ClientConnects, ConnectionDies, ProcessConnecting, AssertMap,
     HandleUnknownPeer, HandleLeaveVotedOut, HandleLeave, HandleOffence
<1>4. ASSUME NEW c \in Conn, ProcessConnected(c) \/ ProcessLost(c) PROVE Strangers'
  BY <1>4 DEF ProcessConnected, ProcessLost, plvars, Strangers, TypeOK
<1>5. ASSUME NEW c \in Conn, HandleRequestGame(c) PROVE Strangers'
  <2>1. CASE Unaccepted(c)
    BY <1>1, <2>1 DEF Unaccepted
  <2>2. CASE ~Unaccepted(c)
    <3>1. /\ c \in mConnectionMap /\ mConnectionMap' = mConnectionMap /\ spritenum' = spritenum
          /\ gamerequested' = [gamerequested EXCEPT ![c] = TRUE]
      BY <1>5, <2>2 DEF HandleRequestGame, MessageOf, mapvars
    <3> QED
      BY <3>1 DEF Strangers, TypeOK
  <2> QED
    BY <2>1, <2>2
<1>6. ASSUME NEW c \in Conn, HandlePlayerInfo(c) PROVE Strangers'
  BY <1>1, <1>2, <1>6 DEF HandlePlayerInfo, MessageOf, Unaccepted, Join, mapvars, Strangers, TypeOK
<1>7. ASSUME NEW i \in Slots, KickPlayer(i) \/ NoResponse(i) PROVE Strangers'
  BY <1>1, <1>7 DEF KickPlayer, NoResponse
<1>8. CASE AddBotPlayer \/ StopRecord \/ StartRecord \/ ShutDown \/ RunCallbacks \/ NothingToHandle
           \/ UNCHANGED vars
  BY <1>1, <1>2, <1>8 DEF AddBotPlayer, StopRecord, StartRecord, ShutDown, RunCallbacks,
     NothingToHandle, vars
<1> QED
  BY <1>3, <1>4, <1>5, <1>6, <1>7, <1>8 DEF Next, ServerLoop, ProcessEvents, Poll, HandleMessage, Ended

-----------------------------------------------------------------------------
(* Stages and seats *)

LEMMA InPlayMeans ==
    ASSUME IInv, NEW c \in Conn, InPlay(c)
    PROVE  /\ c \in mConnectionMap /\ gns[c] # "closed"
           /\ spritenum[c] \in Slots
           /\ stages[c] = "player" /\ seats[c] = spritenum[c]
<1>1. spritenum[c] \in Slots
  BY SlotsAssumption DEF InPlay, IInv, TypeOK, Slots
<1> QED
  BY <1>1 DEF InPlay, IInv, NoOrphanSprite, stages, seats

\* Whom gns, the map and the player object say the same of, and who is as much in
\* play as before, is at the same stage.
SameFor(c) ==
    /\ (gns'[c] = "closed") <=> (gns[c] = "closed")
    /\ (c \in mConnectionMap') <=> (c \in mConnectionMap)
    /\ spritenum'[c] = spritenum[c]
    /\ gamerequested'[c] = gamerequested[c]

LEMMA SameStage ==
    ASSUME NEW c \in Conn, SameFor(c)
    PROVE  /\ seats'[c] = seats[c]
           /\ (InPlay(c)' <=> InPlay(c)) => stages'[c] = stages[c]
BY DEF SameFor, stages, seats

LEMMA Stutter ==
    ASSUME \A c \in Conn : SameFor(c) /\ (InPlay(c)' <=> InPlay(c))
    PROVE  UNCHANGED Promise!vars
<1>1. \A c \in Conn : stages'[c] = stages[c] /\ seats'[c] = seats[c]
  BY SameStage
<1>2. stages' = stages /\ seats' = seats
  BY <1>1 DEF stages, seats
<1> QED
  BY <1>2 DEF Promise!vars

LEMMA SameSlots ==
    ASSUME UNCHANGED sprvars, NEW c \in Conn, spritenum'[c] = spritenum[c]
    PROVE  InPlay(c)' <=> InPlay(c)
BY DEF sprvars, InPlay

LEMMA GnsStutter ==
    ASSUME UNCHANGED <<mapvars, plvars, sprvars>>,
           \A c \in Conn : (gns'[c] = "closed") <=> (gns[c] = "closed")
    PROVE  UNCHANGED Promise!vars
<1>1. \A c \in Conn : SameFor(c) /\ (InPlay(c)' <=> InPlay(c))
  BY SameSlots DEF SameFor, mapvars, plvars
<1> QED
  BY <1>1, Stutter

\* A connection that is closed before and after a step is gone, whatever becomes
\* of its player object.
Gone(c) == gns[c] = "closed" /\ gns'[c] = "closed"

LEMMA GoneStays ==
    ASSUME IInv, IInv', NEW c \in Conn, Gone(c)
    PROVE  ~InPlay(c) /\ ~InPlay(c)' /\ stages'[c] = stages[c] /\ seats'[c] = seats[c]
<1>1. ~InPlay(c)
  BY InPlayMeans DEF Gone
<1>2. ~InPlay(c)'
  <2>1. SUFFICES ASSUME InPlay(c)' PROVE FALSE
    OBVIOUS
  <2>2. spritenum'[c] \in Slots
    BY <2>1, SlotsAssumption DEF InPlay, IInv, TypeOK, Slots
  <2> QED
    BY <2>1, <2>2 DEF InPlay, IInv, NoOrphanSprite, Gone
<1>3. stages'[c] = stages[c] /\ seats'[c] = seats[c]
  BY DEF Gone, stages, seats
<1> QED
  BY <1>1, <1>2, <1>3

\* One slot is emptied or given to nobody of Conn: who was in play there, if
\* anybody was, is sent off.
LEMMA SlotCleared ==
    ASSUME IInv, IInv', NEW i \in Slots, \A c \in Conn : SameFor(c) \/ Gone(c),
           \A j \in Slots \ {i} : active'[j] = active[j] /\ player'[j] = player[j],
           active'[i] => player'[i] \notin Conn
    PROVE  [Promise!Next]_Promise!vars
<1>1. ASSUME NEW c \in Conn, ~(InPlay(c) /\ spritenum[c] = i)
      PROVE  stages'[c] = stages[c] /\ seats'[c] = seats[c]
  <2>1. CASE Gone(c)
    BY <2>1, GoneStays
  <2>2. CASE SameFor(c)
    <3>1. spritenum'[c] = spritenum[c] /\ spritenum[c] \in {0} \cup Slots
      BY <2>2, SlotsAssumption DEF SameFor, IInv, TypeOK, Slots
    <3>2. InPlay(c)' <=> InPlay(c)
      BY <1>1, <3>1 DEF InPlay
    <3> QED
      BY <2>2, <3>2, SameStage
  <2> QED
    BY <2>1, <2>2
<1>2. ASSUME NEW d \in Conn, InPlay(d), spritenum[d] = i
      PROVE  [Promise!Next]_Promise!vars
  <2>0. SameFor(d)
    BY <1>2, GoneStays
  <2>1. ~InPlay(d)' /\ stages[d] = "player" /\ seats'[d] = seats[d]
    <3>1. stages[d] = "player"
      BY <1>2, InPlayMeans
    <3>2. spritenum'[d] = i /\ seats'[d] = seats[d]
      BY <1>2, <2>0, SameStage DEF SameFor
    <3> QED
      BY <3>1, <3>2 DEF InPlay
  <2>2. stages'[d] = "benched"
    <3>1. d \in mConnectionMap /\ gns[d] # "closed" /\ spritenum[d] # 0
      BY <1>2, InPlayMeans DEF InPlay
    <3>2. d \in mConnectionMap' /\ gns'[d] # "closed" /\ spritenum'[d] # 0
      BY <2>0, <3>1 DEF SameFor
    <3> QED
      BY <2>1, <3>2 DEF stages
  <2>3. \A c \in Conn \ {d} : stages'[c] = stages[c] /\ seats'[c] = seats[c]
    <3>1. \A c \in Conn \ {d} : ~(InPlay(c) /\ spritenum[c] = i)
      BY <1>2 DEF InPlay
    <3> QED
      BY <1>1, <3>1
  <2>4. stages' = [stages EXCEPT ![d] = "benched"]
    <3>1. \A c \in Conn : stages'[c] = IF c = d THEN "benched" ELSE stages[c]
      BY <2>2, <2>3
    <3>2. stages' = [c \in Conn |-> stages'[c]] /\ stages = [c \in Conn |-> stages[c]]
      BY DEF stages
    <3> QED
      BY <3>1, <3>2
  <2>5. seats' = seats
    BY <2>1, <2>3 DEF seats
  <2>6. Promise!SendOff(d)
    BY <2>1, <2>4, <2>5 DEF Promise!SendOff, Promise!Moves
  <2> QED
    BY <2>6 DEF Promise!Next
<1>3. CASE \A c \in Conn : ~(InPlay(c) /\ spritenum[c] = i)
  <2>1. \A c \in Conn : stages'[c] = stages[c] /\ seats'[c] = seats[c]
    BY <1>1, <1>3
  <2>2. stages' = stages /\ seats' = seats
    BY <2>1 DEF stages, seats
  <2> QED
    BY <2>2 DEF Promise!vars
<1> QED
  BY <1>2, <1>3

\* c parts: its slot, if it has one, is emptied.
LEMMA Parted ==
    ASSUME IInv, NEW c \in Conn, c \in mConnectionMap, gns[c] # "closed",
           gns' = [gns EXCEPT ![c] = "closed"],
           \A d \in Conn \ {c} : SameFor(d),
           \/ spritenum[c] = 0 /\ UNCHANGED sprvars
           \/ spritenum[c] # 0 /\ CreateSprite(spritenum[c], Dummy, FALSE)
    PROVE  Promise!Part(c)
<1>1. stages[c] \notin {"away", "gone"} /\ seats[c] = spritenum[c]
  BY DEF stages, seats
<1>2. stages'[c] = "gone" /\ seats'[c] = 0
  BY DEF stages, seats, IInv, TypeOK
<1>3. ASSUME NEW d \in Conn \ {c}
      PROVE  /\ seats'[d] = seats[d]
             /\ stages'[d] = IF stages[d] = "player" /\ seats[d] = seats[c] THEN "benched"
                             ELSE stages[d]
  <2>1. seats'[d] = seats[d] /\ spritenum'[d] = spritenum[d]
    BY SameStage DEF SameFor
  <2>2. stages[d] = "player" <=> InPlay(d)
    BY InPlayMeans DEF stages
  <2>3. CASE InPlay(d) /\ spritenum[d] = spritenum[c]
    <3>1. spritenum[d] \in Slots /\ stages[d] = "player" /\ seats[d] = spritenum[d]
          /\ gns[d] # "closed" /\ d \in mConnectionMap /\ spritenum[d] # 0
      BY <2>3, InPlayMeans DEF InPlay
    <3>2. CreateSprite(spritenum[c], Dummy, FALSE)
      BY <2>3, <3>1
    <3>3. ~active'[spritenum[d]]
      BY <2>3, <3>1, <3>2, CreateSpriteKeeps DEF IInv
    <3>4. ~InPlay(d)'
      BY <2>1, <3>3 DEF InPlay
    <3>5. stages'[d] = "benched"
      BY <2>1, <3>1, <3>4 DEF stages, SameFor
    <3>6. seats[d] = seats[c]
      BY <1>1, <2>3, <3>1
    <3> QED
      BY <2>1, <3>1, <3>5, <3>6
  <2>4. CASE ~(InPlay(d) /\ spritenum[d] = spritenum[c])
    <3>1. InPlay(d)' <=> InPlay(d)
      <4>1. CASE UNCHANGED sprvars
        BY <2>1, <4>1, SameSlots
      <4>2. CASE spritenum[c] # 0 /\ CreateSprite(spritenum[c], Dummy, FALSE)
        <5>1. spritenum[c] \in Slots
          BY <4>2, SlotsAssumption DEF IInv, TypeOK, Slots
        <5>2. \A j \in Slots \ {spritenum[c]} : active'[j] = active[j] /\ player'[j] = player[j]
          BY <4>2, <5>1, CreateSpriteKeeps DEF IInv
        <5>3. ~active'[spritenum[c]]
          BY <4>2, <5>1, CreateSpriteKeeps DEF IInv
        <5>4. spritenum[d] \in {0} \cup Slots
          BY SlotsAssumption DEF IInv, TypeOK, Slots
        <5> QED
          BY <2>1, <2>4, <5>2, <5>3, <5>4 DEF InPlay
      <4> QED
        BY <4>1, <4>2
    <3>2. stages'[d] = stages[d]
      BY <3>1, SameStage
    <3>3. ~(stages[d] = "player" /\ seats[d] = seats[c])
      BY <1>1, <2>2, <2>4, InPlayMeans
    <3> QED
      BY <2>1, <3>2, <3>3
  <2> QED
    BY <2>3, <2>4
<1>4. stages' = [d \in Conn |->
            IF d = c THEN "gone"
            ELSE IF stages[d] = "player" /\ seats[d] = seats[c] THEN "benched"
            ELSE stages[d]]
  <2>1. \A d \in Conn : stages'[d] =
            IF d = c THEN "gone"
            ELSE IF stages[d] = "player" /\ seats[d] = seats[c] THEN "benched"
            ELSE stages[d]
    BY <1>2, <1>3
  <2> QED
    BY <2>1 DEF stages
<1>5. seats' = [seats EXCEPT ![c] = 0]
  BY <1>2, <1>3 DEF seats
<1> QED
  BY <1>1, <1>4, <1>5 DEF Promise!Part

-----------------------------------------------------------------------------
(* Every step of the server is a step of Sessions or none of its business *)

SessionStep == [Promise!Next]_Promise!vars

\* The server changes the sprite table at slot i and nothing else of the three tables.
LEMMA SlotOnly ==
    ASSUME IInv, IInv', NEW i \in Slots, UNCHANGED <<gns, mapvars, plvars>>,
           \/ Kill(i)
           \/ \E stays \in BOOLEAN : CreateSprite(i, Bot, stays)
           \/ CreateSprite(i, DemoCam, TRUE)
    PROVE  SessionStep
<1>1. \A c \in Conn : SameFor(c)
  BY DEF SameFor, mapvars, plvars
<1>2. /\ \A j \in Slots \ {i} : active'[j] = active[j] /\ player'[j] = player[j]
      /\ active'[i] => player'[i] \notin Conn
  <2>1. CASE Kill(i)
    BY <2>1 DEF Kill, IInv, TypeOK
  <2>2. ASSUME NEW stays \in BOOLEAN, NEW p \in {Bot, DemoCam}, CreateSprite(i, p, stays)
        PROVE  /\ \A j \in Slots \ {i} : active'[j] = active[j] /\ player'[j] = player[j]
               /\ active'[i] => player'[i] \notin Conn
    BY <2>2, CreateSpriteKeeps, PlayerAssumption DEF IInv
  <2> QED
    BY <2>1, <2>2
<1> QED
  BY <1>1, <1>2, SlotCleared DEF SessionStep

LEMMA Idle ==
    ASSUME UNCHANGED <<mapvars, plvars, sprvars>>,
           \A c \in Conn : (gns'[c] = "closed") <=> (gns[c] = "closed")
    PROVE  SessionStep
BY GnsStutter DEF SessionStep

LEMMA CrashIdle == ASSUME NEW why, Crash(why) PROVE SessionStep
<1>1. UNCHANGED <<gns, mapvars, plvars, sprvars>>
  BY DEF Crash, netvars
<1> QED
  BY <1>1, Idle

LEMMA GnsSteps ==
    ASSUME IInv, NEW c \in Conn, ClientConnects(c) \/ ConnectionDies(c) \/ ProcessConnecting(c)
    PROVE  SessionStep
<1>1. UNCHANGED <<mapvars, plvars, sprvars>>
  BY DEF ClientConnects, ConnectionDies, ProcessConnecting
<1>2. gns' = gns \/ \E s \in {"connecting", "connected", "refused", "lost"} :
                       gns[c] # "closed" /\ gns' = [gns EXCEPT ![c] = s]
  BY DEF ClientConnects, ConnectionDies, ProcessConnecting
<1>3. \A d \in Conn : (gns'[d] = "closed") <=> (gns[d] = "closed")
  BY <1>2 DEF IInv, TypeOK
<1> QED
  BY <1>1, <1>3, Idle

LEMMA Meeting ==
    ASSUME IInv, IInv', Strangers, NEW c \in Conn, ProcessConnected(c)
    PROVE  SessionStep
<1>1. /\ c \notin mConnectionMap /\ mConnectionMap' = mConnectionMap \cup {c}
      /\ gns' = gns /\ UNCHANGED plvars /\ UNCHANGED sprvars
  BY DEF ProcessConnected
<1>2. spritenum[c] = 0 /\ ~gamerequested[c]
  BY <1>1 DEF Strangers
<1>3. \A d \in Conn \ {c} : stages'[d] = stages[d] /\ seats'[d] = seats[d]
  <2> SUFFICES ASSUME NEW d \in Conn \ {c} PROVE stages'[d] = stages[d] /\ seats'[d] = seats[d]
    OBVIOUS
  <2>1. SameFor(d) /\ (InPlay(d)' <=> InPlay(d))
    BY <1>1, SameSlots DEF SameFor, plvars
  <2> QED
    BY <2>1, SameStage
<1>4. seats'[c] = seats[c]
  BY <1>1 DEF seats, plvars
<1>5. seats' = seats
  BY <1>3, <1>4 DEF seats
<1>6. CASE gns[c] = "closed"
  <2>1. stages'[c] = stages[c]
    BY <1>1, <1>6 DEF stages
  <2>2. stages' = stages
    BY <1>3, <2>1 DEF stages
  <2> QED
    BY <1>5, <2>2 DEF SessionStep, Promise!vars
<1>7. CASE gns[c] # "closed"
  <2>1. stages[c] = "away" /\ stages'[c] = "guest"
    BY <1>1, <1>2, <1>7 DEF stages, plvars, InPlay
  <2>2. \A d \in Conn : stages'[d] = IF d = c THEN "guest" ELSE stages[d]
    BY <1>3, <2>1
  <2>3. stages' = [stages EXCEPT ![c] = "guest"]
    BY <2>2 DEF stages
  <2>4. Promise!Meet(c)
    BY <1>5, <2>1, <2>3 DEF Promise!Meet, Promise!Moves
  <2> QED
    BY <2>4 DEF SessionStep, Promise!Next
<1> QED
  BY <1>6, <1>7

LEMMA PartedStep == ASSUME NEW c \in Conn, Promise!Part(c) PROVE SessionStep
BY DEF SessionStep, Promise!Next

LEMMA Losing ==
    ASSUME IInv, IInv', NEW c \in Conn, ProcessLost(c)
    PROVE  SessionStep
<1>1. /\ c \in mConnectionMap /\ DisconnectionCallback(c)
      /\ gns' = [gns EXCEPT ![c] = "closed"]
      /\ mConnectionMap' = mConnectionMap \ {c}
      /\ gamerequested' = [gamerequested EXCEPT ![c] = FALSE]
      /\ spritenum' = [spritenum EXCEPT ![c] = 0]
  BY DEF ProcessLost, CloseConnection
<1>2. \A d \in Conn \ {c} : SameFor(d)
  <2>1. \A d \in Conn \ {c} : gns'[d] = gns[d] /\ spritenum'[d] = spritenum[d]
                               /\ gamerequested'[d] = gamerequested[d]
    BY <1>1 DEF IInv, TypeOK
  <2>2. \A d \in Conn \ {c} : (d \in mConnectionMap') <=> (d \in mConnectionMap)
    BY <1>1
  <2> QED
    BY <2>1, <2>2 DEF SameFor
<1>3. \/ spritenum[c] = 0 /\ UNCHANGED sprvars
      \/ spritenum[c] # 0 /\ CreateSprite(spritenum[c], Dummy, FALSE)
  BY <1>1 DEF DisconnectionCallback
<1>4. CASE gns[c] # "closed"
  BY <1>1, <1>2, <1>3, <1>4, Parted, PartedStep
<1>5. CASE gns[c] = "closed"
  <2>1. \A d \in Conn : SameFor(d) \/ Gone(d)
    <3>1. gns'[c] = "closed"
      BY <1>1 DEF IInv, TypeOK
    <3> QED
      BY <1>2, <1>5, <3>1 DEF Gone
  <2>2. PICK i \in Slots : spritenum[c] # 0 => spritenum[c] = i
    BY SlotsAssumption DEF IInv, TypeOK, Slots
  <2>3. CASE spritenum[c] # 0
    <3>1. CreateSprite(i, Dummy, FALSE)
      BY <1>3, <2>2, <2>3
    <3>2. /\ \A j \in Slots \ {i} : active'[j] = active[j] /\ player'[j] = player[j]
          /\ active'[i] => player'[i] \notin Conn
      BY <3>1, CreateSpriteKeeps DEF IInv
    <3> QED
      BY <2>1, <3>2, SlotCleared DEF SessionStep
  <2>4. CASE spritenum[c] = 0
    <3>1. active' = active /\ player' = player
      BY <1>3, <2>4 DEF sprvars
    <3>2. \A d \in Conn : stages'[d] = stages[d] /\ seats'[d] = seats[d]
      <4> SUFFICES ASSUME NEW d \in Conn PROVE stages'[d] = stages[d] /\ seats'[d] = seats[d]
        OBVIOUS
      <4>1. CASE Gone(d)
        BY <4>1, GoneStays
      <4>2. CASE SameFor(d)
        <5>1. InPlay(d)' <=> InPlay(d)
          BY <3>1, <4>2 DEF InPlay, SameFor
        <5> QED
          BY <4>2, <5>1, SameStage
      <4> QED
        BY <2>1, <4>1, <4>2
    <3>3. stages' = stages /\ seats' = seats
      BY <3>2 DEF stages, seats
    <3> QED
      BY <3>3 DEF SessionStep, Promise!vars
  <2> QED
    BY <2>3, <2>4
<1> QED
  BY <1>4, <1>5

\* A handler that closes the connection of the sender of its message, who was not
\* closed yet, and leaves the player objects and the map alone.
LEMMA Dismissal ==
    ASSUME IInv, NEW c \in Conn, MessageOf(c), CloseConnection(c), UNCHANGED <<mapvars, plvars>>,
           \/ spritenum[c] = 0 /\ UNCHANGED sprvars
           \/ spritenum[c] # 0 /\ CreateSprite(spritenum[c], Dummy, FALSE)
    PROVE  SessionStep
<1>1. c \in mConnectionMap /\ gns[c] # "closed" /\ gns' = [gns EXCEPT ![c] = "closed"]
  BY DEF MessageOf, Receive, CloseConnection
<1>2. \A d \in Conn \ {c} : gns'[d] = gns[d]
  BY <1>1 DEF IInv, TypeOK
<1>3. \A d \in Conn \ {c} : SameFor(d)
  BY <1>2 DEF SameFor, mapvars, plvars
<1> QED
  BY <1>1, <1>3, Parted, PartedStep

LEMMA Asking ==
    ASSUME IInv, NEW c \in Conn, HandleRequestGame(c)
    PROVE  SessionStep
<1>1. MessageOf(c) /\ spritenum[c] = 0 /\ ~gamerequested[c]
  BY DEF HandleRequestGame
<1>2. CASE Unaccepted(c)
  <2>1. CloseConnection(c) /\ UNCHANGED <<mapvars, plvars>> /\ UNCHANGED sprvars
    BY <1>2 DEF Unaccepted
  <2> QED
    BY <1>1, <2>1, Dismissal
<1>3. CASE ~Unaccepted(c)
  <2>1. /\ gamerequested' = [gamerequested EXCEPT ![c] = TRUE]
        /\ gns' = gns /\ mConnectionMap' = mConnectionMap /\ spritenum' = spritenum
        /\ UNCHANGED sprvars
    BY <1>3 DEF HandleRequestGame, netvars, mapvars
  <2>2. c \in mConnectionMap /\ gns[c] # "closed"
    BY <1>1 DEF MessageOf, Receive
  <2>3. \A d \in Conn \ {c} : gamerequested'[d] = gamerequested[d]
    BY <2>1 DEF IInv, TypeOK
  <2>4. \A d \in Conn \ {c} : stages'[d] = stages[d] /\ seats'[d] = seats[d]
    <3> SUFFICES ASSUME NEW d \in Conn \ {c} PROVE stages'[d] = stages[d] /\ seats'[d] = seats[d]
      OBVIOUS
    <3>1. SameFor(d) /\ (InPlay(d)' <=> InPlay(d))
      BY <2>1, <2>3, SameSlots DEF SameFor
    <3> QED
      BY <3>1, SameStage
  <2>5. stages[c] = "guest" /\ seats'[c] = seats[c]
    BY <1>1, <2>1, <2>2 DEF stages, seats, InPlay
  <2>6. stages'[c] = "admitted"
    <3>1. gamerequested'[c] /\ spritenum'[c] = 0
      BY <1>1, <2>1 DEF IInv, TypeOK
    <3> QED
      BY <2>1, <2>2, <3>1 DEF stages, InPlay
  <2>7. \A d \in Conn : stages'[d] = IF d = c THEN "admitted" ELSE stages[d]
    BY <2>4, <2>6
  <2>8. stages' = [stages EXCEPT ![c] = "admitted"] /\ seats' = seats
    BY <2>4, <2>5, <2>7 DEF stages, seats
  <2>9. Promise!Admit(c)
    BY <2>5, <2>8 DEF Promise!Admit, Promise!Moves
  <2> QED
    BY <2>9 DEF SessionStep, Promise!Next
<1> QED
  BY <1>2, <1>3

\* The public seats are the slots of humans that need a seat of sv_maxplayers.
LEMMA PublicSeatsCounted ==
    ASSUME IInv, NEW c \in Conn, SeatLeft(c)
    PROVE  c \in RemoteAdmins \/ Cardinality(Promise!PublicSeats) < SvMaxPlayers
<1> SUFFICES ASSUME ~HumansFull PROVE Cardinality(Promise!PublicSeats) < SvMaxPlayers
  BY DEF SeatLeft
<1>1. Promise!PublicSeats \subseteq Seated
  <2> SUFFICES ASSUME NEW d \in Conn \ RemoteAdmins, stages[d] = "player"
               PROVE  seats[d] \in Seated
    BY DEF Promise!PublicSeats
  <2>1. InPlay(d)
    BY DEF stages
  <2>2. spritenum[d] \in Slots /\ seats[d] = spritenum[d]
    BY <2>1, InPlayMeans
  <2> QED
    BY <2>1, <2>2 DEF InPlay, Seated
<1>2. IsFiniteSet(Seated) /\ Cardinality(Seated) \in Nat
  BY SlotsFinite DEF Seated
<1>3. /\ Cardinality(Promise!PublicSeats) <= Cardinality(Seated)
      /\ Cardinality(Promise!PublicSeats) \in Nat
  BY <1>1, <1>2, FS_Subset, FS_CardinalityType
<1>4. PlayersNum \in Nat /\ BotsNum \in Nat
  BY SlotsFinite DEF PlayersNum, BotsNum
<1>5. PlayersNum - BotsNum < SvMaxPlayers
  BY <1>4, CvarAssumption DEF HumansFull
<1> QED
  BY <1>2, <1>3, <1>4, <1>5, SeatedCounted, CvarAssumption

LEMMA Joining ==
    ASSUME IInv, IInv', NEW c \in Conn, HandlePlayerInfo(c)
    PROVE  SessionStep
<1>1. MessageOf(c) /\ spritenum[c] = 0 /\ gamerequested[c]
  BY DEF HandlePlayerInfo, MayJoin
<1>2. CASE Unaccepted(c)
  <2>1. CloseConnection(c) /\ UNCHANGED <<mapvars, plvars>> /\ UNCHANGED sprvars
    BY <1>2 DEF Unaccepted
  <2> QED
    BY <1>1, <2>1, Dismissal
<1>3. CASE Crash("no_sprite")
  BY <1>3, CrashIdle
<1>4. ASSUME SeatLeft(c), NEW i \in FreeSlots, Join(c, i) PROVE SessionStep
  <2>1. PICK stays \in BOOLEAN : CreateSprite(i, c, stays)
    BY <1>4 DEF Join
  <2>2. /\ i \in Slots /\ ~active[i] /\ i # 0
        /\ \A j \in Slots \ {i} : active'[j] = active[j] /\ player'[j] = player[j]
        /\ active'[i] = stays /\ player'[i] = c
    BY <2>1, CreateSpriteKeeps DEF FreeSlots, IInv, Slots
  <2>3. /\ spritenum' = [spritenum EXCEPT ![c] = i]
        /\ gns' = gns /\ mConnectionMap' = mConnectionMap /\ gamerequested' = gamerequested
    BY <1>4 DEF Join, netvars, mapvars
  <2>4. spritenum'[c] = i /\ \A d \in Conn \ {c} : spritenum'[d] = spritenum[d]
    BY <2>3 DEF IInv, TypeOK
  <2>5. \A d \in Conn \ {c} : stages'[d] = stages[d] /\ seats'[d] = seats[d]
    <3> SUFFICES ASSUME NEW d \in Conn \ {c} PROVE stages'[d] = stages[d] /\ seats'[d] = seats[d]
      OBVIOUS
    <3>1. spritenum[d] \in {0} \cup Slots
      BY SlotsAssumption DEF IInv, TypeOK, Slots
    <3>2. InPlay(d)' <=> InPlay(d)
      BY <2>2, <2>4, <3>1 DEF InPlay
    <3>3. SameFor(d)
      BY <2>3, <2>4 DEF SameFor
    <3> QED
      BY <3>2, <3>3, SameStage
  <2>6. c \in mConnectionMap /\ gns[c] # "closed"
    BY <1>1 DEF MessageOf, Receive
  <2>7. stages[c] = "admitted"
    BY <1>1, <2>6 DEF stages, InPlay
  <2>8. stages'[c] \in {"player", "benched"} /\ seats'[c] = i
    BY <2>2, <2>3, <2>4, <2>6 DEF stages, seats
  <2>9. PICK s \in {"player", "benched"} : stages'[c] = s
    BY <2>8
  <2>10. \A d \in Conn : /\ stages'[d] = IF d = c THEN s ELSE stages[d]
                         /\ seats'[d] = IF d = c THEN i ELSE seats[d]
    BY <2>5, <2>8, <2>9
  <2>11. stages' = [stages EXCEPT ![c] = s] /\ seats' = [seats EXCEPT ![c] = i]
    BY <2>10 DEF stages, seats
  <2>12. \A d \in Conn : ~(stages[d] = "player" /\ seats[d] = i)
    <3> SUFFICES ASSUME NEW d \in Conn, stages[d] = "player", seats[d] = i PROVE FALSE
      OBVIOUS
    <3>1. InPlay(d)
      BY DEF stages
    <3>2. spritenum[d] = i
      BY <3>1, InPlayMeans
    <3> QED
      BY <2>2, <3>1, <3>2 DEF InPlay
  <2>13. i \in Promise!Seats
    BY <2>2 DEF Promise!Seats, Slots
  <2>14. Promise!Sit(c)
    <3>1. Promise!Moves(c, "admitted", "player") \/ Promise!Moves(c, "admitted", "benched")
      BY <2>7, <2>11 DEF Promise!Moves
    <3>2. c \in RemoteAdmins \/ Cardinality(Promise!PublicSeats) < SvMaxPlayers
      BY <1>4, PublicSeatsCounted
    <3>3. Promise!Cardinality(Promise!PublicSeats) = Cardinality(Promise!PublicSeats)
      BY DEF Promise!Cardinality, Cardinality
    <3> QED
      BY <2>11, <2>12, <2>13, <3>1, <3>2, <3>3 DEF Promise!Sit
  <2> QED
    BY <2>14 DEF SessionStep, Promise!Next
<1> QED
  BY <1>2, <1>3, <1>4 DEF HandlePlayerInfo

LEMMA Leaving ==
    ASSUME IInv, IInv', NEW c \in Conn,
           HandleLeaveVotedOut(c) \/ HandleLeave(c) \/ HandleOffence(c)
    PROVE  SessionStep
<1>1. Owner(c)
  BY DEF HandleLeaveVotedOut, HandleLeave, HandleOffence
<1>2. PICK i \in Slots : spritenum[c] = i
  BY <1>1, SlotsAssumption DEF Owner, IInv, TypeOK, Slots
<1>3. CASE HandleLeave(c)
  <2>1. CreateSprite(spritenum[c], Dummy, FALSE) /\ CloseConnection(c) /\ UNCHANGED <<mapvars, plvars>>
    BY <1>3 DEF HandleLeave
  <2>2. MessageOf(c) /\ spritenum[c] # 0
    BY <1>1 DEF Owner
  <2> QED
    BY <2>1, <2>2, Dismissal
<1>4. CASE HandleLeaveVotedOut(c) \/ HandleOffence(c)
  <2>1. UNCHANGED <<gns, mapvars, plvars>> /\ (Kill(i) \/ UNCHANGED sprvars)
    BY <1>2, <1>4 DEF HandleLeaveVotedOut, HandleOffence, netvars
  <2>2. CASE Kill(i)
    BY <2>1, <2>2, SlotOnly
  <2>3. CASE UNCHANGED sprvars
    BY <2>1, <2>3, Idle
  <2> QED
    BY <2>1, <2>2, <2>3
<1> QED
  BY <1>3, <1>4

LEMMA Closing == ASSUME IInv, ShutDown PROVE SessionStep
<1>1. /\ gns' = gns /\ UNCHANGED mapvars /\ UNCHANGED plvars /\ player' = player
      /\ active' = [i \in Slots |-> active[i] /\ player[i] = Bot]
  BY DEF ShutDown, netvars
<1>2. ASSUME NEW c \in Conn
      PROVE  /\ stages'[c] = IF stages[c] = "player" THEN "benched" ELSE stages[c]
             /\ seats'[c] = seats[c]
  <2>1. SameFor(c)
    BY <1>1 DEF SameFor, mapvars, plvars
  <2>2. stages[c] = "player" <=> InPlay(c)
    BY InPlayMeans DEF stages
  <2>3. ~InPlay(c)'
    <3>1. SUFFICES ASSUME InPlay(c)' PROVE FALSE
      OBVIOUS
    <3>2. spritenum[c] \in Slots
      BY <1>1, <3>1, SlotsAssumption DEF InPlay, plvars, IInv, TypeOK, Slots
    <3>3. player[spritenum[c]] = Bot
      BY <1>1, <3>1, <3>2 DEF InPlay, plvars
    <3> QED
      BY <1>1, <3>1, <3>3, PlayerAssumption DEF InPlay, plvars
  <2>4. CASE InPlay(c)
    <3>1. c \in mConnectionMap' /\ gns'[c] # "closed" /\ spritenum'[c] # 0
      BY <1>1, <2>4, InPlayMeans DEF mapvars, plvars, InPlay
    <3>2. stages'[c] = "benched"
      BY <2>3, <3>1 DEF stages
    <3> QED
      BY <2>1, <2>2, <2>4, <3>2, SameStage
  <2>5. CASE ~InPlay(c)
    BY <2>1, <2>2, <2>3, <2>5, SameStage
  <2> QED
    BY <2>4, <2>5
<1>3. stages' = [c \in Conn |-> IF stages[c] = "player" THEN "benched" ELSE stages[c]]
      /\ seats' = seats
  BY <1>2 DEF stages, seats
<1>4. Promise!Close
  BY <1>3 DEF Promise!Close
<1> QED
  BY <1>4 DEF SessionStep, Promise!Next

LEMMA EveryStep == IInv /\ IInv' /\ Strangers /\ [Next]_vars => [Promise!Next]_Promise!vars
<1> SUFFICES ASSUME IInv, IInv', Strangers, [Next]_vars PROVE SessionStep
  BY DEF SessionStep
<1>1. MaxPlayers \in Slots
  BY SlotsAssumption DEF Slots
<1>2. ASSUME NEW c \in Conn, ClientConnects(c) \/ ConnectionDies(c) \/ ProcessConnecting(c)
      PROVE  SessionStep
  BY <1>2, GnsSteps
<1>3. ASSUME NEW c \in Conn, ProcessConnected(c) \/ ProcessLost(c) PROVE SessionStep
  BY <1>3, Meeting, Losing
<1>4. ASSUME NEW c \in Conn, AssertMap(c) \/ HandleUnknownPeer(c) PROVE SessionStep
  BY <1>4, CrashIdle DEF AssertMap, HandleUnknownPeer
<1>5. ASSUME NEW c \in Conn, HandleRequestGame(c) \/ HandlePlayerInfo(c) PROVE SessionStep
  BY <1>5, Asking, Joining
<1>6. ASSUME NEW c \in Conn, HandleLeaveVotedOut(c) \/ HandleLeave(c) \/ HandleOffence(c)
      PROVE  SessionStep
  BY <1>6, Leaving
<1>7. ASSUME NEW i \in Slots, KickPlayer(i) \/ NoResponse(i) PROVE SessionStep
  <2>1. Kill(i) /\ UNCHANGED <<gns, mapvars, plvars>>
    BY <1>7 DEF KickPlayer, NoResponse, netvars
  <2> QED
    BY <2>1, SlotOnly
<1>8. CASE AddBotPlayer
  <2>1. \/ Crash("no_sprite")
        \/ /\ UNCHANGED <<gns, mapvars, plvars>>
           /\ \E i \in FreeSlots, found \in BOOLEAN : CreateSprite(i, Bot, found)
    BY <1>8 DEF AddBotPlayer, netvars
  <2>2. \A i \in FreeSlots : i \in Slots
    BY DEF FreeSlots
  <2> QED
    BY <2>1, <2>2, CrashIdle, SlotOnly
<1>9. CASE StartRecord \/ StopRecord
  <2>1. /\ Kill(MaxPlayers) \/ CreateSprite(MaxPlayers, DemoCam, TRUE)
        /\ UNCHANGED <<gns, mapvars, plvars>>
    BY <1>9 DEF StartRecord, StopRecord, netvars
  <2> QED
    BY <1>1, <2>1, SlotOnly
<1>10. CASE ShutDown
  BY <1>10, Closing
<1>11. CASE RunCallbacks \/ NothingToHandle \/ UNCHANGED vars
  <2>1. UNCHANGED <<gns, mapvars, plvars, sprvars>>
    BY <1>11 DEF RunCallbacks, NothingToHandle, vars, netvars
  <2> QED
    BY <2>1, Idle
<1> QED
  BY <1>2, <1>3, <1>4, <1>5, <1>6, <1>7, <1>8, <1>9, <1>10, <1>11
     DEF Next, ServerLoop, ProcessEvents, Poll, HandleMessage, Ended

\* What NetworkServer and its handlers do to the connections, the player objects and
\* the sprite slots is, for any number of them, what Sessions promises: the stages in
\* their order, a seat only for the admitted and only while it is empty, the seats of
\* the public counted.
THEOREM ServerImplementsSessions == Spec => Implements
<1>1. Init => Strangers
  BY DEF Init, Strangers
<1>2. Init => Promise!Init
  <2> SUFFICES ASSUME Init PROVE Promise!Init
    OBVIOUS
  <2>1. \A c \in Conn : stages[c] = "away" /\ seats[c] = 0
    BY DEF Init, stages, seats
  <2> QED
    BY <2>1 DEF stages, seats, Promise!Init
<1>3. Spec => []Strangers
  BY <1>1, StrangersStep, IInvHolds, PTL DEF Spec
<1> QED
  BY <1>2, <1>3, EveryStep, IInvHolds, PTL DEF Spec, Implements, Promise!Spec

-----------------------------------------------------------------------------
(* What follows from the promise *)

Facts == INSTANCE SessionsFacts WITH stage <- stages, seat <- seats

\* Sessions and SessionsFacts are about the same specification.
LEMMA SamePromise == [Promise!Next]_Promise!vars => [Facts!Next]_Facts!vars
<1>1. \A c \in Conn :
        /\ Promise!Meet(c) => Facts!Meet(c)
        /\ Promise!Admit(c) => Facts!Admit(c)
        /\ Promise!SendOff(c) => Facts!SendOff(c)
        /\ Promise!Part(c) => Facts!Part(c)
  BY DEF Promise!Meet, Facts!Meet, Promise!Admit, Facts!Admit, Promise!SendOff, Facts!SendOff,
     Promise!Part, Facts!Part, Promise!Moves, Facts!Moves
<1>2. \A c \in Conn : Promise!Sit(c) => Facts!Sit(c)
  BY DEF Promise!Sit, Facts!Sit, Promise!Moves, Facts!Moves, Promise!Seats, Facts!Seats,
     Promise!PublicSeats, Facts!PublicSeats, Promise!Cardinality, Facts!Cardinality
<1>3. Promise!Close => Facts!Close
  BY DEF Promise!Close, Facts!Close
<1> QED
  BY <1>1, <1>2, <1>3 DEF Promise!Next, Facts!Next, Promise!vars, Facts!vars

LEMMA SameOnward ==
    [\A c \in Conn : Facts!Onward(c)]_Facts!vars
        => [\A c \in Conn : Promise!Onward(c)]_Promise!vars
<1>1. \A c \in Conn : Facts!Onward(c) => Promise!Onward(c)
  BY DEF Facts!Onward, Promise!Onward
<1> QED
  BY <1>1 DEF Facts!vars, Promise!vars

\* A connection plays one game at most, in one slot, and only once it has been
\* admitted (Sessions!NoWayBack), for any number of connections and slots.
THEOREM NoConnectionComesBack == Spec => Promise!NoWayBack
<1>1. Facts!SeatsGiven
  BY SlotsAssumption, CvarAssumption DEF Facts!SeatsGiven
<1>2. Facts!Spec => Facts!NoWayBack
  BY <1>1, Facts!ThereIsNoWayBack
<1>3. Promise!Init => Facts!Init
  BY DEF Promise!Init, Facts!Init
<1>4. Spec => Facts!Spec
  BY <1>3, SamePromise, ServerImplementsSessions, PTL DEF Implements, Promise!Spec, Facts!Spec
<1> QED
  BY <1>2, <1>4, SameOnward, PTL DEF Facts!NoWayBack, Promise!NoWayBack

=============================================================================
