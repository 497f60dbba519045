---------------------------- MODULE MCServerFiles ----------------------------
(* Small files for TLC. *)
EXTENDS ServerFiles
=============================================================================
