------------------------------ MODULE Sorting ------------------------------
(* What Array.prototype.sort makes of the members of a set, by a strict    *)
(* total order: the screens break the ties of what they sort by the order  *)
(* of the list, the sort being stable.                                     *)
EXTENDS Naturals, FiniteSets

Sorted(S, Op(_,_)) ==
  CHOOSE s \in [1..Cardinality(S) -> S] :
    \A p, q \in 1..Cardinality(S) : p < q => Op(s[p], s[q])

=============================================================================
