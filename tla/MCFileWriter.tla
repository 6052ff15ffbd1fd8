---------------------------- MODULE MCFileWriter ----------------------------
(* Two files and two threads that ask for writes, for TLC.                 *)
EXTENDS FileWriter, TLC

Symmetry == Permutations(Paths) \cup Permutations(Callers)

=============================================================================
