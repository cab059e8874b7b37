------------------------------ MODULE SortedSeqs ------------------------------
(***************************************************************************)
(* The elements of a set as a sequence in an order, and the elements of a  *)
(* sequence that are in a set.  SortSeq and SelectSeq of the standard      *)
(* modules give the same; proofs can look into these.                      *)
(***************************************************************************)
EXTENDS Integers, FiniteSets

\* The elements that before is about: at k the one with k - 1 before it.
InOrder(before) ==
  [k \in 1..Cardinality(DOMAIN before) |->
     CHOOSE x \in DOMAIN before : Cardinality(before[x]) = k - 1]

Ascending(S) == InOrder([i \in S |-> {j \in S : j < i}])
Descending(S) == InOrder([i \in S |-> {j \in S : j > i}])

\* What list has of S, in the order of list.
Those(list, S) ==
  LET at == Ascending({i \in DOMAIN list : list[i] \in S})
  IN [k \in DOMAIN at |-> list[at[k]]]

\* list in the order of the ranks of its elements, as it is where they are equal.
SortedBy(list, rank) ==
  LET at == InOrder([i \in DOMAIN list |->
                       {j \in DOMAIN list : rank[j] < rank[i] \/ (rank[j] = rank[i] /\ j < i)}])
  IN [k \in DOMAIN at |-> list[at[k]]]
=============================================================================
