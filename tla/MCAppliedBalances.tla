------------------------- MODULE MCAppliedBalances -------------------------
(* Instances of AppliedBalances for TLC. *)
EXTENDS AppliedBalances

CONSTANTS gold, silver
=============================================================================
