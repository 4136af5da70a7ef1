--------------------------- MODULE MC_SessionMgr ---------------------------
(* Model-checking instance of SessionMgr: a small table and two fabrics. *)
EXTENDS SessionMgr

MCFabrics == {1, 2}
=============================================================================
