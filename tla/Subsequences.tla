---------------------------- MODULE Subsequences ----------------------------
(***************************************************************************)
(* What is left of a list when some of its elements are removed, by their  *)
(* positions.  The filter of the standard modules would do the same; of    *)
(* these operators SubsequencesProofs can prove what they return.          *)
(***************************************************************************)
EXTENDS Integers, Sequences, FiniteSets

(* How many members of S come before i.                                    *)
Rank(S, i) == Cardinality({j \in S : j < i})

(* The m-th member of S.                                                   *)
Nth(S, m) == CHOOSE i \in S : Rank(S, i) = m - 1

(* The elements of list at the positions in S, in their order.             *)
Kept(list, S) == [m \in 1..Cardinality(S) |-> list[Nth(S, m)]]

=============================================================================
