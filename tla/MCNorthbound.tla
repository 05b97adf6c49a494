---------------------------- MODULE MCNorthbound ----------------------------
(***************************************************************************)
(* Instances of Northbound for TLC.                                        *)
(***************************************************************************)
EXTENDS Northbound, TLC

CONSTANTS c1, c2, n1, n2, u1, u2

OneConn == c1 :> n1
Reconnected == (c1 :> n1) @@ (c2 :> n1)   \* one node that was announced twice

OneNgap == u1 :> 1
SameNgap == (u1 :> 1) @@ (u2 :> 1)        \* two UEs of different AMFs

Symmetry == Permutations(Calls) \cup Permutations(Cells)
=============================================================================
