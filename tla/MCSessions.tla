----------------------------- MODULE MCSessions -----------------------------
(***************************************************************************)
(* Instances of Sessions for TLC.                                          *)
(***************************************************************************)
EXTENDS Sessions

CONSTANTS A, B, a1, a2, b1

\* Tab A has two requests under way at once, tab B has one.
MCTabOf == [r \in Requests |-> IF r = b1 THEN B ELSE A]
=============================================================================
