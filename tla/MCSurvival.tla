------------------------------- MODULE MCSurvival -------------------------------
(* Instances of Survival for TLC: who may be found in which slot. *)
EXTENDS Survival

TwoAndTwo == <<{Alpha}, {Bravo}, {Alpha, Bravo}, {Bravo, Spectator}>>

=============================================================================
