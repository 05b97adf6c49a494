----------------------------- MODULE MCLifecycle -----------------------------
(***************************************************************************)
(* Instances of Lifecycle for TLC.                                         *)
(***************************************************************************)
EXTENDS Lifecycle

CONSTANTS c1, c2, n1, n2, h1, h2

\* two nodes that connect once each
TwoEnds == (c1 :> n1) @@ (c2 :> n2)
TwoChannels == (c1 :> h1) @@ (c2 :> h2)

Rc(name) == [oid |-> TRUE, name |-> name, function |-> "ok"]
Cell == [e2cell |-> TRUE, aspect |-> TRUE]

\* a node as it should be, one without cells, one whose model has another name
Whole == [aspect |-> TRUE, serviceModels |-> {Rc(TRUE)}, contains |-> {Cell}]
Cellless == [Whole EXCEPT !.contains = {}]
Misnamed == [Whole EXCEPT !.serviceModels = {Rc(FALSE)}]

Removable == {Whole, Cellless}
Various == {Whole, Cellless, Misnamed}
=============================================================================
