------------------------ MODULE MCWebSocketEndpoint ------------------------
(***************************************************************************)
(* WebSocketEndpoint on small instances, and the properties the runs check.*)
(***************************************************************************)
EXTENDS WebSocketBroadcast, TLC

CONSTANTS c1, c2, u1, u2, m1, m2

Symmetry == Permutations(Users) \cup Permutations(Clients) \cup Permutations(Broadcasts)
=============================================================================
