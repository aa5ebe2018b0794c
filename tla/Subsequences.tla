---------------------------- MODULE Subsequences ----------------------------
(***************************************************************************)
(* What is left of a sequence when a loop passes over some of its places.  *)
(***************************************************************************)
EXTENDS Integers, FiniteSets

\* The k-th number of a set.
Nth(S, k) == CHOOSE i \in S : Cardinality({j \in S : j <= i}) = k

\* The elements of s at the places of S, in their order.
Subsequence(s, S) == [k \in 1..Cardinality(S) |-> s[Nth(S, k)]]
=============================================================================
