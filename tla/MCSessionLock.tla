---------------------------- MODULE MCSessionLock ----------------------------
(* A shell, its compositor, a few requests and a few deaths, for TLC.      *)
EXTENDS SessionLock

=============================================================================
