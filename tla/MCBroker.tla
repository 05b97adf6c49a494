------------------------------ MODULE MCBroker ------------------------------
(***************************************************************************)
(* Instances of Broker for TLC.                                            *)
(***************************************************************************)
EXTENDS Broker

CONSTANTS c1, c2, c3, c4, h1, h2

\* two nodes, two connections each
Shared == (c1 :> h1) @@ (c2 :> h1) @@ (c3 :> h2) @@ (c4 :> h2)
=============================================================================
