--------------------------- MODULE MCWebSocketHub ---------------------------
(* Instances of WebSocketHub for TLC. *)
EXTENDS WebSocketHub

CONSTANTS c1, c2, ev1, ev2
=============================================================================
