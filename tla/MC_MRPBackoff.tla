---------------------------- MODULE MC_MRPBackoff ----------------------------
(* Model-checking instance of MRPBackoff: zero, small, around the default *)
(* and the largest interval TLC evaluates without overflow.             *)
EXTENDS MRPBackoff

MCIntervals == {0, 1, 9, 299, 301, 4095}
=============================================================================
