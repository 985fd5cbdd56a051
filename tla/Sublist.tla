------------------------------ MODULE Sublist ------------------------------
(***************************************************************************)
(* What Python's [x for x in s if ...] keeps of a list, as a function and  *)
(* not with the recursive SelectSeq, so that theorems can be proved of it. *)
(***************************************************************************)
EXTENDS Naturals, Sequences, FiniteSets

\* The members of a set of positions before position i, and its k-th member
Before(I, i) == {j \in I : j < i}
Nth(I, k) == CHOOSE i \in I : Cardinality(Before(I, i)) = k - 1

\* The elements of s at the positions I, in the order of s
Sublist(s, I) == [k \in 1 .. Cardinality(I) |-> s[Nth(I, k)]]
=============================================================================
