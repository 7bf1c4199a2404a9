---------------------------- MODULE Subsequences ----------------------------
(***************************************************************************)
(* What Array.filter, and the deletion of entries of a Map while it is     *)
(* walked through, leave of a sequence: its elements at some places, in    *)
(* their order. It is SelectSeq without the recursion, by the rank of a    *)
(* place among those that stay.                                            *)
(***************************************************************************)
EXTENDS Naturals, FiniteSets

\* How many of the places in I come no later than i, and the place that is k-th.
Rank(I, i) == Cardinality({j \in I : j <= i})
Nth(I, k) == CHOOSE i \in I : Rank(I, i) = k

\* s without its elements at places outside I.
Only(s, I) == [k \in 1..Cardinality(I) |-> s[Nth(I, k)]]
=============================================================================
