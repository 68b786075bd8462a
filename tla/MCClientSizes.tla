--------------------------- MODULE MCClientSizes ---------------------------
(* One client whose layout switches between two rectangles.                *)
EXTENDS ClientSizes

MCKey == [s \in Surface |-> s]
=============================================================================
