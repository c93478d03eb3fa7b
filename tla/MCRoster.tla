------------------------------- MODULE MCRoster -------------------------------
(* An instance of Roster for TLC; the bounds are explained in README.md. *)
EXTENDS Roster

CONSTANTS Ann, Ben

TwoClients == {Ann, Ben}

=============================================================================
