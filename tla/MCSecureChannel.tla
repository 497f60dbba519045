--------------------------- MODULE MCSecureChannel ---------------------------
(* A short stream for TLC. *)
EXTENDS SecureChannel
=============================================================================
