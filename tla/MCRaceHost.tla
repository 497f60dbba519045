----------------------------- MODULE MCRaceHost -----------------------------
(* Small hosts for TLC.  host_start has three seats and a race of one tick:   *)
(* every order of joining, leaving and starting.  host_race has one seat: a   *)
(* driver, its reconnections and a spectator through a whole race.  host_fair *)
(* adds the server's clock.                                                   *)
EXTENDS RaceHostRoom
=============================================================================
