------------------------------- MODULE MC_Case -------------------------------
(* Model-checking instance of Case: two responders, two fabrics. *)
EXTENDS Case, TLC

CONSTANTS t1, t2

MCTasks == {t1, t2}
MCFabrics == {1, 2}
MCOneFabric == {1}

\* The responder tasks are interchangeable: no definition names one.
TaskSymmetry == Permutations(MCTasks)
=============================================================================
