---------------------------- MODULE Subsequences ----------------------------
(***************************************************************************)
(* What the program writes as a list comprehension with a condition.       *)
(***************************************************************************)
EXTENDS Naturals, Sequences, FiniteSets

(* The entries of s at the positions P, in their order. *)
Kept(s, P) ==
  [k \in 1 .. Cardinality(P) |-> s[CHOOSE i \in P : Cardinality({j \in P : j <= i}) = k]]
=============================================================================
