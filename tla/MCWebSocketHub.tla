--------------------------- MODULE MCWebSocketHub ---------------------------
(* WebSocketHub on a small instance: two connections of one user.          *)
EXTENDS WebSocketHub, TLC

CONSTANTS c1, c2, u1

MCUserOf == [c \in Clients |-> u1]
=============================================================================
