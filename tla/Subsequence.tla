----------------------------- MODULE Subsequence -----------------------------
(***************************************************************************)
(* What is left of a sequence when some of its places are dropped: what    *)
(* SelectSeq gives, by the places that stay and without recursion, so that *)
(* it can be reasoned about.                                               *)
(***************************************************************************)
EXTENDS Naturals, Sequences, FiniteSets

(* How many of the places a set has up to one of them.                     *)
Rank(at, i) == Cardinality({j \in at : j <= i})

(* The elements at those places, in the order they have: the sequence       *)
(* itself, if nothing is dropped.                                          *)
Picked(s, at) ==
  IF at = DOMAIN s THEN s
  ELSE [k \in 1 .. Cardinality(at) |-> s[CHOOSE i \in at : Rank(at, i) = k]]
=============================================================================
