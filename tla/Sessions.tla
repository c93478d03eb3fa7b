------------------------------- MODULE Sessions -------------------------------
(***************************************************************************)
(* What the server promises those who connect to it, and nothing of how:   *)
(* everybody passes through the same stages, in their order and once; a    *)
(* seat is given to one who was admitted, while nobody sits in it; the     *)
(* seats of the public are counted; and who is sent off stays off.         *)
(*                                                                         *)
(* One promise is not kept, and this specification says so: the seat of    *)
(* one who parts is cleared (Part) whoever sits in it by then.             *)
(*                                                                         *)
(* ServerSessions and Roster both implement it (Implements).               *)
(***************************************************************************)
EXTENDS Naturals, FiniteSets

CONSTANTS
    Conn,           \* those who may connect
    MaxPlayers,     \* the seats there are
    SvMaxPlayers,   \* the seats there are for the public
    RemoteAdmins    \* those who need no public seat

VARIABLES
    stage,  \* how far everybody has come
    seat    \* the seat everybody was given, 0 before

vars == <<stage, seat>>

Seats == 1 .. MaxPlayers
Stages == {"away", "guest", "admitted", "player", "benched", "gone"}

PublicSeats ==
    {seat[c] : c \in {d \in Conn \ RemoteAdmins : stage[d] = "player"}}

Moves(c, from, to) == stage[c] = from /\ stage' = [stage EXCEPT ![c] = to]

\* The connection is accepted and has a player object.
Meet(c) == Moves(c, "away", "guest") /\ UNCHANGED seat

\* serverhandlerequestgame says yes.
Admit(c) == Moves(c, "guest", "admitted") /\ UNCHANGED seat

\* serverhandleplayerinfo; who joins too often is sent off at once.
Sit(c) ==
    /\ Moves(c, "admitted", "player") \/ Moves(c, "admitted", "benched")
    /\ c \in RemoteAdmins \/ Cardinality(PublicSeats) < SvMaxPlayers
    /\ \E i \in Seats :
        /\ \A d \in Conn : ~(stage[d] = "player" /\ seat[d] = i)
        /\ seat' = [seat EXCEPT ![c] = i]

\* A kick, a timeout, a vote, a demo recording that needs the slot
SendOff(c) == Moves(c, "player", "benched") /\ UNCHANGED seat

\* A refusal, a farewell, or the loss of the connection
Part(c) ==
    /\ stage[c] \notin {"away", "gone"}
    /\ stage' = [d \in Conn |->
            IF d = c THEN "gone"
            ELSE IF stage[d] = "player" /\ seat[d] = seat[c] THEN "benched"
            ELSE stage[d]]
    /\ seat' = [seat EXCEPT ![c] = 0]

\* The server shuts down.
Close ==
    /\ stage' = [c \in Conn |-> IF stage[c] = "player" THEN "benched" ELSE stage[c]]
    /\ UNCHANGED seat

Init ==
    /\ stage = [c \in Conn |-> "away"]
    /\ seat = [c \in Conn |-> 0]

Next ==
    \/ \E c \in Conn : Meet(c) \/ Admit(c) \/ Sit(c) \/ SendOff(c) \/ Part(c)
    \/ Close

Spec == Init /\ [][Next]_vars

-----------------------------------------------------------------------------
(* What the promise amounts to *)

\* Whoever plays has one of the seats to themselves, and the public no more of them
\* than there are for it.
SeatsSound ==
    /\ \A c \in Conn : stage[c] = "player" => seat[c] \in Seats
    /\ \A c, d \in Conn :
        stage[c] = "player" /\ stage[d] = "player" /\ seat[c] = seat[d] => c = d
    /\ Cardinality(PublicSeats) <= SvMaxPlayers

\* Nobody plays who was not admitted just before, nobody comes back from the bench
\* or from outside, and nobody changes seats: one connection, one game.
Onward(c) ==
    /\ stage'[c] = "player" => stage[c] \in {"admitted", "player"}
    /\ stage[c] = "benched" => stage'[c] \in {"benched", "gone"}
    /\ stage[c] = "gone" => stage'[c] = "gone"
    /\ seat[c] # 0 => seat'[c] \in {seat[c], 0}

NoWayBack == [][\A c \in Conn : Onward(c)]_vars

=============================================================================
