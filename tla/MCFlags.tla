-------------------------------- MODULE MCFlags --------------------------------
(* Instances of Flags for TLC: who may be found in which slot. *)
EXTENDS Flags

FirstMovesSecondWatches == <<{Alpha, Bravo}, {Bravo, Spectator}>>

=============================================================================
