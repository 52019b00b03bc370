---------------------------- MODULE Subsequences ----------------------------
(***************************************************************************)
(* What a filter leaves of a sequence, given the places that it keeps.     *)
(***************************************************************************)
EXTENDS Naturals, FiniteSets, Sequences

\* Which of the places i is, counted from 1.
Rank(places, i) == Cardinality({j \in places : j <= i})

Place(places, k) == CHOOSE i \in places : Rank(places, i) = k

\* The elements at the places, in their order.
Subsequence(seq, places) == [k \in 1 .. Cardinality(places) |-> seq[Place(places, k)]]
=============================================================================
