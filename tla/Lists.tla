------------------------------- MODULE Lists ---------------------------------
(***************************************************************************)
(* The entries of a list a filter keeps, in their order: by the set of     *)
(* their places.                                                           *)
(***************************************************************************)
EXTENDS Naturals, FiniteSets

\* The k-th place of a set of places.
Nth(places, k) == CHOOSE i \in places : Cardinality({j \in places : j <= i}) = k

Kept(list, places) == [k \in 1 .. Cardinality(places) |-> list[Nth(places, k)]]
=============================================================================
