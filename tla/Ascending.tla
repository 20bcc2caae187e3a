------------------------------ MODULE Ascending ------------------------------
(* What a filter leaves of a list, as the indices of the entries it keeps.  It *)
(* is SelectSeq over the indices, written without recursion.                   *)
EXTENDS Integers, FiniteSets

\* The numbers of a finite set, smallest first.
InOrder(S) ==
  [k \in 1..Cardinality(S) |-> CHOOSE i \in S : Cardinality({j \in S : j < i}) = k - 1]
=============================================================================
