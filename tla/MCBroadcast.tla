----------------------------- MODULE MCBroadcast -----------------------------
(* Small sets of surfaces, callers and producer threads, for TLC.          *)
EXTENDS Broadcast

=============================================================================
