--------------------------- MODULE MCServerSessions ---------------------------
(* Small instances of ServerSessions for TLC. *)
EXTENDS ServerSessions, TLC

CONSTANTS c1, c2, c3

TwoConns == {c1, c2}
ThreeConns == {c1, c2, c3}
NoConns == {}
ThirdConn == {c3}

\* Sound where c3 alone may be an admin and no liveness property is checked.
PlainSymmetry == Permutations({c1, c2})
=============================================================================
