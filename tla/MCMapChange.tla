------------------------------ MODULE MCMapChange ------------------------------
(* Small instances of MapChange for TLC. *)
EXTENDS MapChange, TLC

CONSTANTS p1, p2, alpha, bravo, m1, m2, m3

OnePerson == {p1}
TwoPersons == {p1, p2}
TwoTeams == {alpha, bravo}
NoTeams == {}
NoMaps == {}
ThreeMaps == <<m1, m2, m3>>
EmptyList == <<>>
SecondMap == {m2}
ThirdMap == {m3}
=============================================================================
