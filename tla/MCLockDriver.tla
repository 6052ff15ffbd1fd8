----------------------------- MODULE MCLockDriver -----------------------------
(* A few locks in a row, asked for and given up at any time, for TLC.      *)
EXTENDS LockDriver

=============================================================================
