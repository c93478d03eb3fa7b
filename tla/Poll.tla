--------------------------------- MODULE Poll ---------------------------------
(***************************************************************************)
(* What a vote promises to those who take part in it, and nothing of the   *)
(* slots and counters it is kept in: one question at a time; a ballot for  *)
(* each person; it is decided by the ballot that makes the share asked for *)
(* of the electorate it was called with, and at once; only what was asked  *)
(* comes of it; and nobody but those it concerns ends it before its time.  *)
(*                                                                         *)
(* Two promises are not made, because the server does not keep them: that  *)
(* a running vote is left alone (the mass-flag detector calls its own over *)
(* it), and that the accused has no ballot.                                *)
(*                                                                         *)
(* Voting implements it (Implements).                                      *)
(***************************************************************************)
EXTENDS Integers, FiniteSets

CONSTANTS
    Person,         \* those who may vote
    Maps,           \* what may be asked for: a map ...
    Seats,          \* ... or that whoever sits here goes
    NoSubject,      \* no question is asked
    VotePercent,    \* the share it takes
    VotingTime      \* the ticks a vote is open

VARIABLES
    subject,    \* the question asked, if any
    electorate, \* how many people there were when it was asked
    ballots,    \* who has said yes, to this question or to the last one
    left,       \* the ticks it stays open
    announced   \* the map that has been decided on

vars == <<subject, electorate, ballots, left, announced>>

Open == subject # NoSubject

Enough(people) == Cardinality(people) * 100 >= VotePercent * electorate

Closed ==
    /\ subject' = NoSubject
    /\ electorate' = 0
    /\ left' = -1

\* Maps are asked for by people, who have to wait for the question before theirs; seats
\* by the detector, which does not wait, and whose vote is one tick old at once.
Call(s) ==
    /\ \/ s \in Maps /\ ~Open /\ left' = VotingTime
       \/ s \in Seats /\ left' = VotingTime - 1
    /\ subject' = s
    /\ electorate' \in Nat
    /\ ballots' = {}
    /\ UNCHANGED announced

Cast(p) ==
    /\ Open
    /\ p \notin ballots
    /\ ~Enough(ballots \cup {p})
    /\ ballots' = ballots \cup {p}
    /\ UNCHANGED <<subject, electorate, left, announced>>

\* The map may turn out not to be there.
Decide(p) ==
    /\ Open
    /\ p \notin ballots
    /\ Enough(ballots \cup {p})
    /\ ballots' = ballots \cup {p}
    /\ announced' \in {announced} \cup (Maps \cap {subject})
    /\ Closed

Tick ==
    /\ Open
    /\ left > 1
    /\ left' = left - 1
    /\ UNCHANGED <<subject, electorate, ballots, announced>>

Lapse == Open /\ left = 1 /\ Closed /\ UNCHANGED <<ballots, announced>>

\* The accused says goodbye.
Withdraw == subject \in Seats /\ Closed /\ UNCHANGED <<ballots, announced>>

Init ==
    /\ subject = NoSubject
    /\ electorate = 0
    /\ ballots = {}
    /\ left = -1
    /\ announced = NoSubject

Next ==
    \/ \E s \in Maps \cup Seats : Call(s)
    \/ \E p \in Person : Cast(p) \/ Decide(p)
    \/ Tick \/ Lapse \/ Withdraw

Spec == Init /\ [][Next]_vars

=============================================================================
