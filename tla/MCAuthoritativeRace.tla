------------------------- MODULE MCAuthoritativeRace -------------------------
(* Small races for TLC: the runs differ in what they let vary.  race_inputs   *)
(* has two players, a window of one tick ahead and every order of submissions *)
(* and ticks; race_laps has three silent players, two laps and every order in *)
(* which they can be completed, with and without a limit or a finish line.    *)
EXTENDS AuthoritativeRace
=============================================================================
