-------------------------------- MODULE Lists --------------------------------
(***************************************************************************)
(* What splice() in a loop over an array leaves of it, for the lists of    *)
(* callbacks and of event handlers.                                        *)
(***************************************************************************)
EXTENDS Integers, Sequences, FiniteSets

\* The n-th of the indexes in K, from the lowest.
NthOf(K, n) == CHOOSE k \in K : Cardinality({j \in K : j <= k}) = n

\* The entries of s at the indexes in K, in their order.
Kept(s, K) == [n \in 1..Cardinality(K) |-> s[NthOf(K, n)]]
=============================================================================
