---------------------------- MODULE MCRadioState ----------------------------
(* Instances of RadioState for TLC. *)
EXTENDS RadioState
=============================================================================
