------------------------------- MODULE Sorting -------------------------------
(***************************************************************************)
(* Sorting a finite set whose elements are in a strict total order, a set  *)
(* of pairs: what ORDER BY and sort_by return, without the way they find   *)
(* it.                                                                     *)
(***************************************************************************)
EXTENDS Integers, FiniteSets

Sorted(S, before) ==
    CHOOSE list \in [1..Cardinality(S) -> S] :
        \A i, j \in 1..Cardinality(S) : i < j => <<list[i], list[j]>> \in before

=============================================================================
