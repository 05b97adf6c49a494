------------------------------- MODULE MCMHO -------------------------------
(***************************************************************************)
(* Instances of MHO and its contract for TLC.                              *)
(***************************************************************************)
EXTENDS Contract, TLC

CONSTANTS c1, c2, n1, n2

OneConn == c1 :> n1
TwoNodes == (c1 :> n1) @@ (c2 :> n2)      \* two nodes, one connection each
=============================================================================
