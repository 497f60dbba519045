---------------------------- MODULE MCLobbyServer -----------------------------
(* Small lobbies for TLC.  Every time limit is one unit, so that a pass may   *)
(* be early, on time or late for each of them; two races can be open at once. *)
EXTENDS LobbyServer
=============================================================================
