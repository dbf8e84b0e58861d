--------------------------- MODULE MCTraceyAgents ---------------------------
(* A small instance of TraceyAgents for TLC.                               *)
EXTENDS TraceyAgents, TLC

CONSTANTS a1, a2, x, y

MCStart == a1 :> y @@ a2 :> Nowhere

=============================================================================
