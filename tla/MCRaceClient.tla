---------------------------- MODULE MCRaceClient ----------------------------
(* Small clients for TLC: a driver who loses the connection, and a spectator. *)
EXTENDS RaceClient
=============================================================================
