------------------------------- MODULE MCKeyed -------------------------------
(* One key, a few entries, surfaces and producer threads, for TLC.         *)
EXTENDS Keyed

=============================================================================
