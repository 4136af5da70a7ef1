------------------------- MODULE MC_ReliableMessage -------------------------
(* Model-checking instance of ReliableMessage: the two peers are model    *)
(* values, fixed in the .cfg files.                                       *)
EXTENDS ReliableMessage

CONSTANTS a, b

MCNode == {a, b}
=============================================================================
