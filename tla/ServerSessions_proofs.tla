------------------------- MODULE ServerSessions_proofs -------------------------
(***************************************************************************)
(* What holds of ServerSessions for any number of connections and slots.   *)
(*                                                                         *)
(* NoOrphanSprite is inductive once it is known that mPlayers and          *)
(* mConnectionMap list the same connections: the two containers are filled *)
(* and emptied at the same places, and a player that joins is looked up in *)
(* one of them and expected in the other.                                  *)
(*                                                                         *)
(* What is said of slots and seats follows from SlotStep: who may be found *)
(* in a slot after a step.                                                 *)
(***************************************************************************)
EXTENDS ServerSessions, FiniteSetTheorems, TLAPS

\* The inductive invariant.
IInv == TypeOK /\ mPlayers = mConnectionMap /\ NoOrphanSprite

LEMMA InitIInv == Init => IInv
<1> SUFFICES ASSUME Init PROVE IInv
  OBVIOUS
<1> USE SlotsAssumption
<1>1. TypeOK
  <2>1. \A T : <<>> \in Seq(T)
    OBVIOUS
  <2>2. posted \in Seq(Event) /\ queued \in Seq(Event)
    BY <2>1 DEF Init
  <2>3. gns \in [Conn -> GnsStates] /\ spritenum \in [Conn -> 0 .. MaxPlayers]
    BY DEF Init, GnsStates
  <2>4. active \in [Slots -> BOOLEAN] /\ player \in [Slots -> Players]
    BY DEF Init, Players
  <2> QED
    BY <2>2, <2>3, <2>4 DEF Init, TypeOK, Phases
<1>2. NoOrphanSprite
  BY DEF Init, NoOrphanSprite, Slots
<1> QED
  BY <1>1, <1>2 DEF Init, IInv

\* The types, action by action.
LEMMA TypeStep == TypeOK /\ [Next]_vars => TypeOK'
<1> SUFFICES ASSUME TypeOK, [Next]_vars PROVE TypeOK'
  OBVIOUS
<1> USE SlotsAssumption, PlayerAssumption
<1> USE DEF TypeOK
<1>0. FreeSlots \subseteq Slots /\ Slots \subseteq 0 .. MaxPlayers /\ MaxPlayers \in Slots
      /\ 0 \in 0 .. MaxPlayers /\ Conn \subseteq Players /\ {Dummy, Bot, DemoCam} \subseteq Players
  BY DEF FreeSlots, Slots, Players
<1>k. \A i : Kill(i) => active' \in [Slots -> BOOLEAN] /\ player' \in [Slots -> Players]
  BY DEF Kill
<1>c. \A i, p, s : p \in Players /\ s \in BOOLEAN /\ CreateSprite(i, p, s)
        => active' \in [Slots -> BOOLEAN] /\ player' \in [Slots -> Players]
  BY DEF CreateSprite
<1>x. \A why \in Crashes : Crash(why) => TypeOK'
  BY DEF Crash, Phases, netvars, mapvars, plvars, sprvars
<1>cl. \A c : CloseConnection(c) => gns' \in [Conn -> GnsStates]
  BY DEF CloseConnection, GnsStates
<1>1. ASSUME NEW c \in Conn, ClientConnects(c) PROVE TypeOK'
  <2>1. [conn |-> c, state |-> "Connecting"] \in Event
    BY DEF Event
  <2>2. posted' \in Seq(Event)
    BY <1>1, <2>1 DEF ClientConnects
  <2>3. gns' \in [Conn -> GnsStates]
    BY <1>1 DEF ClientConnects, GnsStates
  <2> QED
    BY <1>1, <2>2, <2>3 DEF ClientConnects, mapvars, plvars, sprvars
<1>2. ASSUME NEW c \in Conn, ConnectionDies(c) PROVE TypeOK'
  <2>1. [conn |-> c, state |-> "Lost"] \in Event
    BY DEF Event
  <2>2. posted' \in Seq(Event)
    BY <1>2, <2>1 DEF ConnectionDies
  <2>3. gns' \in [Conn -> GnsStates]
    BY <1>2 DEF ConnectionDies, GnsStates
  <2> QED
    BY <1>2, <2>2, <2>3 DEF ConnectionDies, mapvars, plvars, sprvars
<1>3. CASE RunCallbacks
  <2>1. posted' \in Seq(Event) /\ queued' \in Seq(Event) /\ phase' \in Phases
    BY <1>3 DEF RunCallbacks, Phases
  <2> QED
    BY <1>3, <2>1 DEF RunCallbacks, mapvars, plvars, sprvars
<1>4. ASSUME NEW c \in Conn, ProcessConnecting(c) PROVE TypeOK'
  <2>1. [conn |-> c, state |-> "Connected"] \in Event
    BY DEF Event
  <2>2. queued' \in Seq(Event)
    BY <1>4 DEF ProcessConnecting, NextEvent
  <2>3. posted' \in Seq(Event)
    <3>1. CASE posted' = posted
      BY <3>1
    <3>2. CASE posted' = Append(posted, [conn |-> c, state |-> "Connected"])
      BY <3>2, <2>1
    <3> QED
      BY <1>4, <3>1, <3>2 DEF ProcessConnecting
  <2>4. gns' \in [Conn -> GnsStates]
    BY <1>4 DEF ProcessConnecting, GnsStates
  <2> QED
    BY <1>4, <2>2, <2>3, <2>4 DEF ProcessConnecting, mapvars, plvars, sprvars
<1>5. ASSUME NEW c \in Conn, ProcessConnected(c) PROVE TypeOK'
  <2>1. queued' \in Seq(Event)
    BY <1>5 DEF ProcessConnected, NextEvent
  <2> QED
    BY <1>5, <2>1 DEF ProcessConnected, plvars, sprvars
<1>6. ASSUME NEW c \in Conn, ProcessLost(c) PROVE TypeOK'
  <2>1. queued' \in Seq(Event)
    BY <1>6 DEF ProcessLost, NextEvent
  <2>2. active' \in [Slots -> BOOLEAN] /\ player' \in [Slots -> Players]
    BY <1>6, <1>0, <1>c DEF ProcessLost, DisconnectionCallback, sprvars
  <2>3. gns' \in [Conn -> GnsStates]
    BY <1>6, <1>cl DEF ProcessLost
  <2>4. gamerequested' \in [Conn -> BOOLEAN] /\ spritenum' \in [Conn -> 0 .. MaxPlayers]
    BY <1>6, <1>0 DEF ProcessLost
  <2> QED
    BY <1>6, <2>1, <2>2, <2>3, <2>4 DEF ProcessLost
<1>7. ASSUME NEW c \in Conn, AssertMap(c) PROVE TypeOK'
  BY <1>7, <1>x DEF AssertMap, Crashes
<1>8. CASE NothingToHandle
  BY <1>8 DEF NothingToHandle, Phases, netvars, mapvars, plvars, sprvars
<1>u. ASSUME NEW c \in Conn, Unaccepted(c) PROVE TypeOK'
  BY <1>u, <1>cl DEF Unaccepted, Phases, mapvars, plvars, sprvars
<1>9. ASSUME NEW c \in Conn, HandleUnknownPeer(c) PROVE TypeOK'
  BY <1>9, <1>x DEF HandleUnknownPeer, Crashes
<1>10. ASSUME NEW c \in Conn, HandleRequestGame(c) PROVE TypeOK'
  <2>1. CASE Unaccepted(c)
    BY <2>1, <1>u
  <2>2. CASE ~Unaccepted(c)
    BY <1>10, <2>2 DEF HandleRequestGame, Phases, netvars, mapvars, sprvars
  <2> QED
    BY <2>1, <2>2
<1>11. ASSUME NEW c \in Conn, HandlePlayerInfo(c) PROVE TypeOK'
  <2>1. CASE Unaccepted(c)
    BY <2>1, <1>u
  <2>2. CASE Crash("no_sprite")
    BY <2>2, <1>x DEF Crashes
  <2>3. ASSUME NEW i \in FreeSlots, Join(c, i) PROVE TypeOK'
    <3>1. active' \in [Slots -> BOOLEAN] /\ player' \in [Slots -> Players]
      BY <2>3, <1>0, <1>c DEF Join
    <3>2. spritenum' \in [Conn -> 0 .. MaxPlayers]
      BY <2>3, <1>0 DEF Join
    <3> QED
      BY <2>3, <3>1, <3>2 DEF Join, Phases, netvars, mapvars
  <2> QED
    BY <1>11, <2>1, <2>2, <2>3 DEF HandlePlayerInfo
<1>12. ASSUME NEW c \in Conn, HandleLeaveVotedOut(c) PROVE TypeOK'
  <2>1. active' \in [Slots -> BOOLEAN] /\ player' \in [Slots -> Players]
    BY <1>12, <1>k DEF HandleLeaveVotedOut, sprvars
  <2> QED
    BY <1>12, <2>1 DEF HandleLeaveVotedOut, Phases, netvars, mapvars, plvars
<1>13. ASSUME NEW c \in Conn, HandleLeave(c) PROVE TypeOK'
  <2>1. active' \in [Slots -> BOOLEAN] /\ player' \in [Slots -> Players]
    BY <1>13, <1>0, <1>c DEF HandleLeave
  <2> QED
    BY <1>13, <1>cl, <2>1 DEF HandleLeave, Phases, mapvars, plvars
<1>14. ASSUME NEW c \in Conn, HandleOffence(c) PROVE TypeOK'
  BY <1>14, <1>k DEF HandleOffence, Phases, netvars, mapvars, plvars
<1>15. ASSUME NEW i \in Slots, KickPlayer(i) \/ NoResponse(i) PROVE TypeOK'
  BY <1>15, <1>k DEF KickPlayer, NoResponse, netvars, mapvars, plvars
<1>16. CASE AddBotPlayer
  <2>1. CASE Crash("no_sprite")
    BY <2>1, <1>x DEF Crashes
  <2>2. ASSUME NEW i \in FreeSlots, NEW found \in BOOLEAN, CreateSprite(i, Bot, found),
               UNCHANGED <<netvars, phase, mapvars, plvars, recording>>
        PROVE TypeOK'
    <3>1. active' \in [Slots -> BOOLEAN] /\ player' \in [Slots -> Players]
      BY <2>2, <1>0, <1>c
    <3> QED
      BY <2>2, <3>1 DEF netvars, mapvars, plvars
  <2> QED
    BY <1>16, <2>1, <2>2 DEF AddBotPlayer
<1>17. CASE StopRecord
  BY <1>17, <1>k DEF StopRecord, netvars, mapvars, plvars
<1>18. CASE StartRecord
  <2>1. active' \in [Slots -> BOOLEAN] /\ player' \in [Slots -> Players]
    BY <1>18, <1>0, <1>k, <1>c DEF StartRecord
  <2> QED
    BY <1>18, <2>1 DEF StartRecord, netvars, mapvars, plvars
<1>19. CASE ShutDown
  BY <1>19 DEF ShutDown, Phases, netvars, mapvars, plvars
<1>20. CASE UNCHANGED vars
  BY <1>20 DEF vars, netvars, mapvars, plvars, sprvars
<1> QED
  BY <1>1, <1>2, <1>3, <1>4, <1>5, <1>6, <1>7, <1>8, <1>9, <1>10, <1>11, <1>12, <1>13,
     <1>14, <1>15, <1>16, <1>17, <1>18, <1>19, <1>20
     DEF Next, ServerLoop, ProcessEvents, Poll, HandleMessage, Ended

-----------------------------------------------------------------------------
(* Ownership *)

\* Facts about the two operators every change of the sprite table goes through.
LEMMA KillKeeps ==
    ASSUME TypeOK, NEW i \in Slots, Kill(i)
    PROVE  \A j \in Slots : active'[j] => active[j] /\ player'[j] = player[j]
  BY DEF Kill, TypeOK

LEMMA CreateSpriteKeeps ==
    ASSUME TypeOK, NEW i \in Slots, NEW p, NEW stays \in BOOLEAN, CreateSprite(i, p, stays)
    PROVE  /\ \A j \in Slots \ {i} : active'[j] = active[j] /\ player'[j] = player[j]
           /\ active'[i] = stays /\ player'[i] = p
  BY DEF CreateSprite, TypeOK

LEMMA OwnerStep == IInv /\ [Next]_vars => (mPlayers = mConnectionMap)' /\ NoOrphanSprite'
<1> SUFFICES ASSUME IInv, [Next]_vars
             PROVE  (mPlayers = mConnectionMap)' /\ NoOrphanSprite'
  OBVIOUS
<1> USE PlayerAssumption
<1> USE DEF IInv
<1>0. TypeOK'
  BY TypeStep
\* A step that leaves the connections and the players alone and puts nobody
\* into a slot.
<1>a. ASSUME UNCHANGED <<gns, mPlayers, mConnectionMap, spritenum>>,
             \A j \in Slots : active'[j] => player'[j] \notin Conn
                                            \/ (active[j] /\ player'[j] = player[j])
      PROVE  (mPlayers = mConnectionMap)' /\ NoOrphanSprite'
  BY <1>a DEF NoOrphanSprite
<1>x. \A why : Crash(why) => (mPlayers = mConnectionMap)' /\ NoOrphanSprite'
  BY DEF Crash, netvars, mapvars, plvars, sprvars, NoOrphanSprite
<1>1. ASSUME NEW c \in Conn, ClientConnects(c) \/ ConnectionDies(c) \/ ProcessConnecting(c)
      PROVE  (mPlayers = mConnectionMap)' /\ NoOrphanSprite'
  <2>1. \A d \in Conn : gns[d] \in {"connected", "lost"} => gns'[d] \in {"connected", "lost"}
    BY <1>1 DEF ClientConnects, ConnectionDies, ProcessConnecting, TypeOK
  <2>2. UNCHANGED <<mapvars, plvars, sprvars>>
    BY <1>1 DEF ClientConnects, ConnectionDies, ProcessConnecting
  <2> QED
    BY <2>1, <2>2 DEF mapvars, plvars, sprvars, NoOrphanSprite
<1>2. CASE RunCallbacks \/ NothingToHandle
  BY <1>2 DEF RunCallbacks, NothingToHandle, netvars, mapvars, plvars, sprvars, NoOrphanSprite
<1>3. ASSUME NEW c \in Conn, ProcessConnected(c)
      PROVE  (mPlayers = mConnectionMap)' /\ NoOrphanSprite'
  BY <1>3 DEF ProcessConnected, plvars, sprvars, NoOrphanSprite
<1>4. ASSUME NEW c \in Conn, ProcessLost(c)
      PROVE  (mPlayers = mConnectionMap)' /\ NoOrphanSprite'
  <2>1. \A j \in Slots : active'[j] =>
          player'[j] # c /\ (player'[j] \in Conn => active[j] /\ player'[j] = player[j])
    <3>1. CASE spritenum[c] = 0 /\ UNCHANGED sprvars
      BY <3>1 DEF sprvars, NoOrphanSprite, Slots
    <3>2. CASE spritenum[c] # 0 /\ CreateSprite(spritenum[c], Dummy, FALSE)
      <4>1. spritenum[c] \in Slots
        BY <3>2, SlotsAssumption DEF TypeOK, Slots
      <4>2. /\ \A j \in Slots \ {spritenum[c]} : active'[j] = active[j] /\ player'[j] = player[j]
            /\ active'[spritenum[c]] = FALSE
        BY <3>2, <4>1, CreateSpriteKeeps
      <4>3. \A j \in Slots \ {spritenum[c]} : active[j] => player[j] # c
        BY DEF NoOrphanSprite
      <4> QED
        BY <4>2, <4>3
    <3> QED
      BY <1>4, <3>1, <3>2 DEF ProcessLost, DisconnectionCallback
  <2>2. \A d \in Conn \ {c} : gns'[d] = gns[d] /\ spritenum'[d] = spritenum[d]
    BY <1>4 DEF ProcessLost, CloseConnection, TypeOK
  <2> QED
    BY <1>4, <2>1, <2>2 DEF ProcessLost, NoOrphanSprite
<1>5. ASSUME NEW c \in Conn, Unaccepted(c), spritenum[c] = 0
      PROVE  (mPlayers = mConnectionMap)' /\ NoOrphanSprite'
  <2>1. \A j \in Slots : active[j] => player[j] # c
    BY <1>5 DEF NoOrphanSprite, Slots
  <2>2. \A d \in Conn \ {c} : gns'[d] = gns[d]
    BY <1>5 DEF Unaccepted, CloseConnection, TypeOK
  <2> QED
    BY <1>5, <2>1, <2>2 DEF Unaccepted, mapvars, plvars, sprvars, NoOrphanSprite
<1>6. ASSUME NEW c \in Conn, HandleRequestGame(c)
      PROVE  (mPlayers = mConnectionMap)' /\ NoOrphanSprite'
  <2>1. CASE Unaccepted(c)
    BY <1>6, <2>1, <1>5 DEF HandleRequestGame
  <2>2. CASE ~Unaccepted(c)
    BY <1>6, <2>2 DEF HandleRequestGame, netvars, mapvars, sprvars, NoOrphanSprite
  <2> QED
    BY <2>1, <2>2
<1>7. ASSUME NEW c \in Conn, HandlePlayerInfo(c)
      PROVE  (mPlayers = mConnectionMap)' /\ NoOrphanSprite'
  <2>0. /\ spritenum[c] = 0
        /\ c \in mConnectionMap
        /\ gns[c] \in {"connected", "lost"}
    BY <1>7 DEF HandlePlayerInfo, MayJoin, MessageOf, Receive
  <2>1. CASE Unaccepted(c)
    BY <2>0, <2>1, <1>5
  <2>2. CASE Crash("no_sprite")
    BY <2>2, <1>x
  <2>3. ASSUME NEW i \in FreeSlots, Join(c, i)
        PROVE  (mPlayers = mConnectionMap)' /\ NoOrphanSprite'
    <3>1. PICK flooding \in BOOLEAN : CreateSprite(i, c, ~flooding)
      BY <2>3 DEF Join
    <3>2. i \in Slots
      BY DEF FreeSlots
    <3>3. \A j \in Slots \ {i} : active'[j] = active[j] /\ player'[j] = player[j]
      BY <3>1, <3>2, CreateSpriteKeeps
    <3>4. player'[i] = c
      BY <3>1, <3>2, CreateSpriteKeeps
    <3>5. \A j \in Slots : active[j] => player[j] # c
      BY <2>0 DEF NoOrphanSprite, Slots
    <3>6. spritenum'[c] = i /\ \A d \in Conn \ {c} : spritenum'[d] = spritenum[d]
      BY <2>3 DEF Join, TypeOK
    <3>7. UNCHANGED <<gns, mPlayers, mConnectionMap>>
      BY <2>3 DEF Join, netvars, mapvars
    <3> QED
      BY <2>0, <3>2, <3>3, <3>4, <3>5, <3>6, <3>7 DEF NoOrphanSprite
  <2> QED
    BY <1>7, <2>1, <2>2, <2>3 DEF HandlePlayerInfo
<1>8. ASSUME NEW c \in Conn, HandleLeaveVotedOut(c) \/ HandleOffence(c)
      PROVE  (mPlayers = mConnectionMap)' /\ NoOrphanSprite'
  <2>1. spritenum[c] \in Slots
    BY <1>8, SlotsAssumption DEF HandleLeaveVotedOut, HandleOffence, Owner, TypeOK, Slots
  <2>2. \A j \in Slots : active'[j] => active[j] /\ player'[j] = player[j]
    BY <1>8, <2>1, KillKeeps DEF HandleLeaveVotedOut, HandleOffence, sprvars
  <2> QED
    BY <1>8, <1>a, <2>2 DEF HandleLeaveVotedOut, HandleOffence, netvars, mapvars, plvars
<1>9. ASSUME NEW c \in Conn, HandleLeave(c)
      PROVE  (mPlayers = mConnectionMap)' /\ NoOrphanSprite'
  <2>1. spritenum[c] \in Slots
    BY <1>9, SlotsAssumption DEF HandleLeave, Owner, TypeOK, Slots
  <2>2. \A j \in Slots : active'[j] => j # spritenum[c] /\ active[j] /\ player'[j] = player[j]
    BY <1>9, <2>1, CreateSpriteKeeps DEF HandleLeave
  <2>3. \A d \in Conn \ {c} : gns'[d] = gns[d]
    BY <1>9 DEF HandleLeave, CloseConnection, TypeOK
  <2> QED
    BY <1>9, <2>2, <2>3 DEF HandleLeave, mapvars, plvars, NoOrphanSprite
<1>10. ASSUME NEW i \in Slots, KickPlayer(i) \/ NoResponse(i)
       PROVE  (mPlayers = mConnectionMap)' /\ NoOrphanSprite'
  BY <1>10, <1>a, KillKeeps DEF KickPlayer, NoResponse, netvars, mapvars, plvars
<1>11. CASE AddBotPlayer
  <2>1. CASE Crash("no_sprite")
    BY <2>1, <1>x
  <2>2. ASSUME NEW i \in FreeSlots, NEW found \in BOOLEAN, CreateSprite(i, Bot, found),
               UNCHANGED <<netvars, phase, mapvars, plvars, recording>>
        PROVE  (mPlayers = mConnectionMap)' /\ NoOrphanSprite'
    <3>1. i \in Slots
      BY DEF FreeSlots
    <3>2. \A j \in Slots : active'[j] => player'[j] \notin Conn
                                         \/ (active[j] /\ player'[j] = player[j])
      BY <2>2, <3>1, CreateSpriteKeeps
    <3> QED
      BY <1>a, <2>2, <3>2 DEF netvars, mapvars, plvars
  <2> QED
    BY <1>11, <2>1, <2>2 DEF AddBotPlayer
<1>12. CASE StopRecord \/ StartRecord
  <2>1. MaxPlayers \in Slots
    BY SlotsAssumption DEF Slots
  <2>2. \A j \in Slots : active'[j] => player'[j] \notin Conn
                                       \/ (active[j] /\ player'[j] = player[j])
    <3>1. CASE Kill(MaxPlayers)
      BY <2>1, <3>1, KillKeeps
    <3>2. CASE CreateSprite(MaxPlayers, DemoCam, TRUE)
      BY <2>1, <3>2, CreateSpriteKeeps
    <3> QED
      BY <1>12, <3>1, <3>2 DEF StopRecord, StartRecord
  <2> QED
    BY <1>12, <1>a, <2>2 DEF StopRecord, StartRecord, netvars, mapvars, plvars
<1>13. CASE ShutDown
  BY <1>13, <1>a DEF ShutDown, netvars, mapvars, plvars
<1>14. ASSUME NEW c \in Conn, AssertMap(c) \/ HandleUnknownPeer(c)
       PROVE  (mPlayers = mConnectionMap)' /\ NoOrphanSprite'
  BY <1>14, <1>x DEF AssertMap, HandleUnknownPeer
<1>15. CASE UNCHANGED vars
  BY <1>15 DEF vars, netvars, mapvars, plvars, sprvars, NoOrphanSprite
<1> QED
  BY <1>1, <1>2, <1>3, <1>4, <1>6, <1>7, <1>8, <1>9, <1>10, <1>11, <1>12, <1>13, <1>14, <1>15
     DEF Next, ServerLoop, ProcessEvents, Poll, HandleMessage, Ended

LEMMA IInvHolds == Spec => []IInv
<1>1. IInv /\ [Next]_vars => IInv'
  BY TypeStep, OwnerStep DEF IInv
<1> QED
  BY InitIInv, <1>1, PTL DEF Spec

-----------------------------------------------------------------------------
(* Theorems *)

\* Every variable of the server's sessions stays in its type.
THEOREM TypeCorrect == Spec => []TypeOK
<1>1. IInv => TypeOK
  BY DEF IInv
<1> QED
  BY IInvHolds, <1>1, PTL

\* Whatever the order of kicks, timeouts, farewells, losses, joins, bots and
\* recordings, a human sprite in play belongs to a connection the server serves
\* and whose player points back at it.
THEOREM NoOrphans == Spec => []NoOrphanSprite
<1>1. IInv => NoOrphanSprite
  BY DEF IInv
<1> QED
  BY IInvHolds, <1>1, PTL

\* A message takes from the game no sprite but its sender's.
THEOREM OnlyOwnSprite == Spec => MessageAuthority
<1> DEFINE Spared(c) == \A i \in Slots : active[i] /\ player[i] # c =>
                          active'[i] /\ player'[i] = player[i]
<1>1. ASSUME IInv, NEW c \in Conn, HandleMessage(c) PROVE Spared(c)
  <2> USE <1>1 DEF IInv
  <2>1. CASE UNCHANGED sprvars
    BY <2>1 DEF sprvars
  <2>2. CASE HandleUnknownPeer(c) \/ HandleRequestGame(c)
    BY <2>1, <2>2 DEF HandleUnknownPeer, HandleRequestGame, Crash, Unaccepted, sprvars
  <2>3. CASE HandlePlayerInfo(c)
    <3>1. CASE Unaccepted(c) \/ Crash("no_sprite")
      BY <2>1, <3>1 DEF Unaccepted, Crash, sprvars
    <3>2. ASSUME NEW i \in FreeSlots, Join(c, i) PROVE Spared(c)
      <4>1. PICK flooding \in BOOLEAN : CreateSprite(i, c, ~flooding)
        BY <3>2 DEF Join
      <4>2. i \in Slots /\ ~active[i]
        BY DEF FreeSlots
      <4> QED
        BY <4>1, <4>2, CreateSpriteKeeps
    <3> QED
      BY <2>3, <3>1, <3>2 DEF HandlePlayerInfo
  <2>4. CASE HandleLeaveVotedOut(c) \/ HandleLeave(c) \/ HandleOffence(c)
    <3>1. Owner(c)
      BY <2>4 DEF HandleLeaveVotedOut, HandleLeave, HandleOffence
    <3>2. spritenum[c] \in Slots /\ player[spritenum[c]] = c
      BY <3>1, SlotsAssumption DEF Owner, TypeOK, Slots
    <3>3. CASE Kill(spritenum[c])
      BY <3>2, <3>3 DEF Kill, TypeOK
    <3>4. CASE CreateSprite(spritenum[c], Dummy, FALSE)
      BY <3>2, <3>4, CreateSpriteKeeps
    <3> QED
      BY <2>1, <2>4, <3>3, <3>4 DEF HandleLeaveVotedOut, HandleLeave, HandleOffence
  <2> QED
    BY <1>1, <2>2, <2>3, <2>4 DEF HandleMessage
<1>2. IInv /\ [Next]_vars =>
        [\A c \in Conn : HandleMessage(c) =>
           \A i \in Slots : active[i] /\ player[i] # c =>
              active'[i] /\ player'[i] = player[i]]_vars
  BY <1>1
<1> QED
  BY IInvHolds, <1>2, PTL DEF Spec, MessageAuthority

\* PlayerInfo succeeds at most once per connection: the slot number never moves.
THEOREM JoinsOnce == Spec => JoinOnce
<1>1. ASSUME IInv, Next, NEW c \in Conn, spritenum[c] # 0
      PROVE  spritenum'[c] \in {spritenum[c], 0}
  <2> USE DEF IInv, TypeOK
  <2>1. CASE UNCHANGED spritenum
    BY <2>1
  <2>2. ASSUME NEW d \in Conn, ProcessLost(d) PROVE spritenum'[c] \in {spritenum[c], 0}
    BY <2>2 DEF ProcessLost
  <2>3. ASSUME NEW d \in Conn, HandlePlayerInfo(d) PROVE spritenum'[c] \in {spritenum[c], 0}
    <3>1. spritenum[d] = 0 /\ d # c
      BY <1>1, <2>3 DEF HandlePlayerInfo, MayJoin
    <3>2. CASE Unaccepted(d) \/ Crash("no_sprite")
      BY <2>1, <3>2 DEF Unaccepted, Crash, plvars
    <3>3. ASSUME NEW i \in FreeSlots, Join(d, i) PROVE spritenum'[c] = spritenum[c]
      BY <3>1, <3>3 DEF Join
    <3> QED
      BY <2>3, <3>2, <3>3 DEF HandlePlayerInfo
  <2>4. ASSUME NEW d \in Conn,
               \/ ClientConnects(d) \/ ConnectionDies(d) \/ ProcessConnecting(d)
               \/ ProcessConnected(d) \/ AssertMap(d) \/ HandleUnknownPeer(d)
               \/ HandleRequestGame(d) \/ HandleLeaveVotedOut(d) \/ HandleLeave(d)
               \/ HandleOffence(d)
        PROVE  UNCHANGED spritenum
    BY <2>4 DEF ClientConnects, ConnectionDies, ProcessConnecting, ProcessConnected,
       AssertMap, HandleUnknownPeer, HandleRequestGame, HandleLeaveVotedOut, HandleLeave,
       HandleOffence, Unaccepted, Crash, plvars
  <2>5. CASE \/ RunCallbacks \/ NothingToHandle \/ AddBotPlayer \/ StartRecord
             \/ StopRecord \/ ShutDown \/ Ended
             \/ \E i \in Slots : KickPlayer(i) \/ NoResponse(i)
    BY <2>1, <2>5 DEF RunCallbacks, NothingToHandle, AddBotPlayer, StartRecord, StopRecord,
       ShutDown, Ended, KickPlayer, NoResponse, Crash, plvars, vars
  <2> QED
    BY <1>1, <2>1, <2>2, <2>3, <2>4, <2>5
       DEF Next, ServerLoop, ProcessEvents, Poll, HandleMessage
<1>2. IInv /\ [Next]_vars =>
        [\A c \in Conn : spritenum[c] # 0 => spritenum'[c] \in {spritenum[c], 0}]_vars
  BY <1>1
<1> QED
  BY IInvHolds, <1>2, PTL DEF Spec, JoinOnce

-----------------------------------------------------------------------------
(* Slots and seats *)

\* All that may be found in a slot after a step in which nobody joins: whoever
\* was there, a bot in a free slot, the recorder in the last one.
NobodyJoins ==
    \A i \in Slots : active'[i] =>
        \/ active[i] /\ player'[i] = player[i]
        \/ ~active[i] /\ player'[i] = Bot
        \/ /\ DemoRecording /\ i = MaxPlayers /\ (recording \/ ~active[i])
           /\ player'[i] = DemoCam

LEMMA SlotStep ==
    TypeOK /\ [Next]_vars =>
        \/ NobodyJoins
        \/ \E c \in Conn, i \in FreeSlots : SeatLeft(c) /\ Join(c, i)
<1> SUFFICES ASSUME TypeOK, [Next]_vars,
                    ~(\E c \in Conn, i \in FreeSlots : SeatLeft(c) /\ Join(c, i))
             PROVE  NobodyJoins
  OBVIOUS
<1>1. UNCHANGED sprvars => NobodyJoins
  BY DEF sprvars, NobodyJoins
<1>2. \A why : Crash(why) => NobodyJoins
  BY <1>1 DEF Crash
<1>3. \A i \in Slots : Kill(i) => NobodyJoins
  BY KillKeeps DEF NobodyJoins
<1>4. \A i \in Slots : \A p : CreateSprite(i, p, FALSE) => NobodyJoins
  BY CreateSpriteKeeps DEF NobodyJoins
<1>5. \A c \in Conn : spritenum[c] # 0 => spritenum[c] \in Slots
  BY SlotsAssumption DEF TypeOK, Slots
<1>6. ASSUME NEW c \in Conn,
             \/ ClientConnects(c) \/ ConnectionDies(c) \/ ProcessConnecting(c)
             \/ ProcessConnected(c) \/ AssertMap(c) \/ HandleUnknownPeer(c)
             \/ HandleRequestGame(c)
      PROVE  NobodyJoins
  BY <1>6, <1>1, <1>2 DEF ClientConnects, ConnectionDies, ProcessConnecting, ProcessConnected,
     AssertMap, HandleUnknownPeer, HandleRequestGame, Unaccepted
<1>7. ASSUME NEW c \in Conn, ProcessLost(c) PROVE NobodyJoins
  BY <1>7, <1>1, <1>4, <1>5 DEF ProcessLost, DisconnectionCallback
<1>8. ASSUME NEW c \in Conn, HandlePlayerInfo(c) PROVE NobodyJoins
  BY <1>8, <1>1, <1>2 DEF HandlePlayerInfo, Unaccepted
<1>9. ASSUME NEW c \in Conn, HandleLeaveVotedOut(c) \/ HandleLeave(c) \/ HandleOffence(c)
      PROVE  NobodyJoins
  <2>1. spritenum[c] \in Slots
    BY <1>5, <1>9 DEF HandleLeaveVotedOut, HandleLeave, HandleOffence, Owner
  <2> QED
    BY <1>9, <1>1, <1>3, <1>4, <2>1 DEF HandleLeaveVotedOut, HandleLeave, HandleOffence
<1>10. ASSUME NEW i \in Slots, KickPlayer(i) \/ NoResponse(i) PROVE NobodyJoins
  BY <1>10, <1>3 DEF KickPlayer, NoResponse
<1>11. CASE AddBotPlayer
  <2>1. ASSUME NEW i \in FreeSlots, NEW found \in BOOLEAN, CreateSprite(i, Bot, found)
        PROVE  NobodyJoins
    <3>1. i \in Slots /\ ~active[i]
      BY DEF FreeSlots
    <3> QED
      BY <2>1, <3>1, CreateSpriteKeeps DEF NobodyJoins
  <2> QED
    BY <1>2, <1>11, <2>1 DEF AddBotPlayer
<1>12. CASE StopRecord \/ StartRecord
  <2>1. MaxPlayers \in Slots
    BY SlotsAssumption DEF Slots
  <2>2. CASE Kill(MaxPlayers)
    BY <1>3, <2>1, <2>2
  <2>3. CASE /\ DemoRecording /\ (recording \/ ~active[MaxPlayers])
             /\ CreateSprite(MaxPlayers, DemoCam, TRUE)
    BY <2>1, <2>3, CreateSpriteKeeps DEF NobodyJoins
  <2> QED
    BY <1>12, <2>2, <2>3 DEF StopRecord, StartRecord
<1>13. CASE ShutDown
  BY <1>13 DEF ShutDown, NobodyJoins
<1>14. CASE RunCallbacks \/ NothingToHandle \/ UNCHANGED vars
  BY <1>1, <1>14 DEF RunCallbacks, NothingToHandle, vars
<1> QED
  BY <1>6, <1>7, <1>8, <1>9, <1>10, <1>11, <1>12, <1>13, <1>14
     DEF Next, ServerLoop, ProcessEvents, Poll, HandleMessage, Ended

\* A join fills a free slot and touches no other.
LEMMA JoinFills ==
    ASSUME TypeOK, NEW c \in Conn, NEW i \in FreeSlots, Join(c, i)
    PROVE  /\ i \in Slots /\ ~active[i] /\ player'[i] = c
           /\ \A j \in Slots \ {i} : active'[j] = active[j] /\ player'[j] = player[j]
<1>1. PICK flooding \in BOOLEAN : CreateSprite(i, c, ~flooding)
  BY DEF Join
<1>2. i \in Slots /\ ~active[i]
  BY DEF FreeSlots
<1> QED
  BY <1>1, <1>2, CreateSpriteKeeps

\* CreateSprite never hands a slot in use to somebody else.
THEOREM SlotsKept == Spec => NoTakeover
<1>1. TypeOK /\ [Next]_vars =>
        [\A i \in Slots : active[i] /\ active'[i] /\ (i = MaxPlayers => ~recording) =>
           player'[i] = player[i]]_vars
  BY SlotStep, JoinFills DEF NobodyJoins
<1> QED
  BY TypeCorrect, <1>1, PTL DEF Spec, NoTakeover

\* The humans that need a seat of sv_maxplayers.
Seated == {i \in Slots : active[i] /\ player[i] \in Conn \ RemoteAdmins}

LEMMA SlotsFinite == \A S \in SUBSET Slots : IsFiniteSet(S) /\ Cardinality(S) \in Nat
<1>1. IsFiniteSet(Slots)
  BY SlotsAssumption, FS_Interval DEF Slots
<1> QED
  BY <1>1, FS_Subset, FS_CardinalityType

LEMMA SeatedCounted == Cardinality(Seated) <= PlayersNum - BotsNum
<1> DEFINE all == {i \in Slots : active[i] /\ player[i] # DemoCam}
<1> DEFINE bots == {i \in Slots : active[i] /\ player[i] = Bot}
<1>1. Seated \subseteq all \ bots /\ bots \subseteq all
  BY PlayerAssumption DEF Seated
<1>2. all \in SUBSET Slots
  OBVIOUS
<1>3. all \cap bots = bots
  BY <1>1
<1> HIDE DEF all, bots
<1>4. IsFiniteSet(all)
  BY <1>2, SlotsFinite
<1>5. IsFiniteSet(all \ bots) /\ Cardinality(all \ bots) = Cardinality(all) - Cardinality(bots)
  BY <1>3, <1>4, FS_Difference
<1>6. Cardinality(Seated) <= Cardinality(all \ bots)
  BY <1>1, <1>5, FS_Subset
<1> QED
  BY <1>5, <1>6 DEF PlayersNum, BotsNum, all, bots

\* serverhandleplayerinfo counts the seats again, so that connections let in
\* together at RequestGame cannot oversell them.
THEOREM SeatsNotOversold == Spec => []SeatsRespected
<1> USE CvarAssumption, PlayerAssumption
<1>1. Init => SeatsRespected
  <2> SUFFICES ASSUME Init PROVE SeatsRespected
    OBVIOUS
  <2>1. Seated = {}
    BY DEF Init, Seated
  <2>2. Cardinality(Seated) = 0
    BY <2>1, FS_EmptySet
  <2> QED
    BY <2>2 DEF SeatsRespected, Seated
<1>2. TypeOK /\ TypeOK' /\ SeatsRespected /\ [Next]_vars => SeatsRespected'
  <2> SUFFICES ASSUME TypeOK, TypeOK', SeatsRespected, [Next]_vars PROVE SeatsRespected'
    OBVIOUS
  <2>0. /\ Seated \in SUBSET Slots /\ Seated' \in SUBSET Slots
        /\ SeatsRespected <=> Cardinality(Seated) <= SvMaxPlayers
        /\ SeatsRespected' <=> Cardinality(Seated') <= SvMaxPlayers
    BY DEF SeatsRespected, Seated
  <2>1. IsFiniteSet(Seated) /\ Cardinality(Seated) \in Nat /\ Cardinality(Seated') \in Nat
    BY <2>0, SlotsFinite
  <2>2. ASSUME Seated' \subseteq Seated PROVE SeatsRespected'
    <3>1. Cardinality(Seated') <= Cardinality(Seated)
      BY <2>1, <2>2, FS_Subset
    <3>2. Cardinality(Seated) <= SvMaxPlayers
      BY <2>0
    <3>3. Cardinality(Seated') <= SvMaxPlayers
      BY <2>1, <3>1, <3>2
    <3> QED
      BY <2>0, <3>3
  <2>3. CASE NobodyJoins
    <3>1. Seated' \subseteq Seated
      BY <2>3 DEF NobodyJoins, Seated
    <3> QED
      BY <2>2, <3>1
  <2>4. ASSUME NEW c \in Conn, NEW i \in FreeSlots, SeatLeft(c), Join(c, i) PROVE SeatsRespected'
    <3>1. CASE c \in RemoteAdmins
      <4>1. Seated' \subseteq Seated
        BY <2>4, <3>1, JoinFills DEF Seated
      <4> QED
        BY <2>2, <4>1
    <3>2. CASE c \notin RemoteAdmins
      <4>1. PlayersNum - BotsNum < SvMaxPlayers
        <5>1. PlayersNum \in Nat /\ BotsNum \in Nat
          BY SlotsFinite DEF PlayersNum, BotsNum
        <5> QED
          BY <2>4, <3>2, <5>1 DEF SeatLeft, HumansFull
      <4>2. Seated' \subseteq Seated \cup {i}
        BY <2>4, JoinFills DEF Seated
      <4>3. IsFiniteSet(Seated \cup {i}) /\ Cardinality(Seated \cup {i}) <= Cardinality(Seated) + 1
        BY <2>1, FS_AddElement
      <4>4. Cardinality(Seated') <= Cardinality(Seated \cup {i})
        BY <4>2, <4>3, FS_Subset
      <4>5. Cardinality(Seated \cup {i}) \in Nat /\ PlayersNum \in Nat /\ BotsNum \in Nat
        BY <4>3, FS_CardinalityType, SlotsFinite DEF PlayersNum, BotsNum
      <4> QED
        BY <2>0, <2>1, <4>1, <4>3, <4>4, <4>5, SeatedCounted
    <3> QED
      BY <3>1, <3>2
  <2> QED
    BY <2>3, <2>4, SlotStep
<1> QED
  BY TypeCorrect, <1>1, <1>2, PTL DEF Spec

\* As long as no demo is recorded, whoever passes the checks for a free seat
\* finds a free sprite: CreateSprite does not reach std::abort.
THEOREM SpriteFound ==
    ASSUME ~DemoRecording PROVE Spec => []SpriteAlwaysFound
<1> DEFINE NoRecorder == \A i \in Slots : active[i] => player[i] # DemoCam
<1> USE PlayerAssumption
<1>1. Init => NoRecorder /\ SpriteAlwaysFound
  BY DEF Init, SpriteAlwaysFound
<1>2. TypeOK /\ NoRecorder /\ [Next]_vars => NoRecorder'
  <2> SUFFICES ASSUME TypeOK, NoRecorder, [Next]_vars PROVE NoRecorder'
    OBVIOUS
  <2>1. CASE NobodyJoins
    BY <2>1 DEF NobodyJoins
  <2>2. ASSUME NEW c \in Conn, NEW i \in FreeSlots, Join(c, i) PROVE NoRecorder'
    BY <2>2, JoinFills
  <2> QED
    BY <2>1, <2>2, SlotStep
<1>3. NoRecorder /\ FreeSlots = {} => PlayersNum = MaxPlayers
  <2> SUFFICES ASSUME NoRecorder, FreeSlots = {} PROVE PlayersNum = MaxPlayers
    OBVIOUS
  <2>1. {i \in Slots : active[i] /\ player[i] # DemoCam} = 1 .. MaxPlayers
    BY DEF FreeSlots, Slots
  <2>2. Cardinality(1 .. MaxPlayers) = MaxPlayers
    BY SlotsAssumption, FS_Interval
  <2> QED
    BY <2>1, <2>2 DEF PlayersNum
<1>4. NoRecorder /\ SpriteAlwaysFound /\ [Next]_vars => SpriteAlwaysFound'
  <2> SUFFICES ASSUME NoRecorder, SpriteAlwaysFound, [Next]_vars, phase' = "no_sprite" PROVE FALSE
    BY DEF SpriteAlwaysFound
  <2>1. phase # phase'
    BY DEF SpriteAlwaysFound
  <2>2. \A c \in Conn : ~HandlePlayerInfo(c)
    BY <1>3, SlotsAssumption DEF HandlePlayerInfo, SeatLeft, TotallyFull, Unaccepted, Join
  <2>3. ~AddBotPlayer
    BY <1>3, <2>1 DEF AddBotPlayer
  <2>4. \A c \in Conn :
          /\ ~ClientConnects(c) /\ ~ConnectionDies(c) /\ ~ProcessConnecting(c)
          /\ ~ProcessConnected(c) /\ ~ProcessLost(c) /\ ~AssertMap(c)
          /\ ~HandleUnknownPeer(c) /\ ~HandleRequestGame(c) /\ ~HandleLeaveVotedOut(c)
          /\ ~HandleLeave(c) /\ ~HandleOffence(c)
    BY <2>1 DEF ClientConnects, ConnectionDies, ProcessConnecting, ProcessConnected, ProcessLost,
       AssertMap, HandleUnknownPeer, HandleRequestGame, HandleLeaveVotedOut, HandleLeave,
       HandleOffence, Crash, Unaccepted
  <2>5. /\ ~RunCallbacks /\ ~NothingToHandle /\ ~StartRecord /\ ~StopRecord /\ ~ShutDown
        /\ \A i \in Slots : ~KickPlayer(i) /\ ~NoResponse(i)
    BY <2>1 DEF RunCallbacks, NothingToHandle, StartRecord, StopRecord, ShutDown, KickPlayer, NoResponse
  <2> QED
    BY <2>1, <2>2, <2>3, <2>4, <2>5
       DEF Next, ServerLoop, ProcessEvents, Poll, HandleMessage, Ended, vars
<1> QED
  BY TypeCorrect, <1>1, <1>2, <1>4, PTL DEF Spec

=============================================================================
