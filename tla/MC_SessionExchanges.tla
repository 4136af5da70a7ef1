------------------------- MODULE MC_SessionExchanges -------------------------
(* Model-checking instance of SessionExchanges: one session. *)
EXTENDS SessionExchanges

CONSTANTS s1

MCSessions == {s1}
=============================================================================
