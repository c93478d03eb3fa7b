------------------------------ MODULE MCVoting ------------------------------
(* Small instances of Voting for TLC. *)
EXTENDS Voting, TLC

CONSTANTS p1, p2, p3, m1, m2

ThreePersons == {p1, p2, p3}
NoPersons == {}
LastPerson == {p3}
OneMap == {m1}
=============================================================================
