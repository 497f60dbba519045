---------------------------- MODULE MCSocketLoop ----------------------------
(* Few sockets for TLC. *)
EXTENDS SocketLoop
=============================================================================
