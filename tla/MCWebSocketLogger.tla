------------------------- MODULE MCWebSocketLogger --------------------------
(***************************************************************************)
(* WebSocketLogger for TLC: two interchangeable clients, three messages.   *)
(***************************************************************************)
EXTENDS WebSocketLogger, TLC

Symmetry == Permutations(Clients)
=============================================================================
