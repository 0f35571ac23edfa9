----------------------- MODULE MCWebSocketConnection -----------------------
(* WebSocketConnection for TLC: the constants are given in the .cfg files. *)
EXTENDS WebSocketConnection
============================================================================
