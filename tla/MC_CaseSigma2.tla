---------------------------- MODULE MC_CaseSigma2 ----------------------------
(* Model-checking instance of CaseSigma2: the constants come from the cfgs. *)
EXTENDS CaseSigma2
=============================================================================
