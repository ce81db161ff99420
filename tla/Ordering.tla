--------------------------------- MODULE Ordering ---------------------------------
(***************************************************************************)
(* Sets and sequences of integers in order, as sort(), sorted(), median()  *)
(* and ORDER BY give them.  A member is placed by how many are below it:   *)
(* so the provers can reason about an order, which they cannot about the   *)
(* permutation that SortSeq chooses.                                       *)
(***************************************************************************)
EXTENDS Integers, Sequences, FiniteSets

\* The members of a set, each once.
InOrder(set) ==
  [k \in 1..Cardinality(set) |->
     CHOOSE x \in set : Cardinality({y \in set : y <= x}) = k]

\* The values of a sequence, each as often as it occurs: at k stands the value that fewer
\* than k are below, and at least k are not above.
Sorted(s) ==
  [k \in 1..Len(s) |->
     CHOOSE v \in {s[i] : i \in DOMAIN s} :
       /\ Cardinality({i \in DOMAIN s : s[i] < v}) < k
       /\ Cardinality({i \in DOMAIN s : s[i] <= v}) >= k]
===============================================================================
