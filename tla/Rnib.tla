-------------------------------- MODULE Rnib --------------------------------
(***************************************************************************)
(* The R-NIB client (pkg/rnib): reads of the topology service.  topo is    *)
(* what the service knows of the E2 nodes; a read sees it as it is at that *)
(* moment, or fails (up is FALSE).                                         *)
(***************************************************************************)
EXTENDS Integers

CONSTANTS
  Nodes,      \* IDs of E2 nodes
  NodeInfos,  \* what the topology may hold of a node, see NodeInfo
  Reads       \* how reads may end: TRUE succeed, FALSE fail

(***************************************************************************)
(* A service model of a node: whether its OID is the one of E2SM-RC,       *)
(* whether its name in lower case is the configured one, and what decoding *)
(* its first RAN function gives.                                           *)
(***************************************************************************)
ServiceModelInfo == [oid : BOOLEAN, name : BOOLEAN, function : {"none", "ok", "bad"}]

\* An object a node CONTAINS: is it an E2 cell, can its aspect be decoded
ContainedObject == [e2cell : BOOLEAN, aspect : BOOLEAN]

NodeInfo == [aspect : BOOLEAN, serviceModels : SUBSET ServiceModelInfo,
             contains : SUBSET ContainedObject]

ASSUME RnibAssumption == NodeInfos \subseteq NodeInfo /\ Reads \subseteq BOOLEAN

VARIABLE topo

RnibTypeOK == topo \in [Nodes -> NodeInfos]
RnibInit == topo \in [Nodes -> NodeInfos]

\* GetE2NodeAspects returns the aspect and not an error
GetE2NodeAspects(n, up) == up /\ topo[n].aspect

\* a failed read counts as a missing function
HasRcRANFunction(n, up) ==
  GetE2NodeAspects(n, up) /\ \E sm \in topo[n].serviceModels : sm.oid

\* the cells of a node; GetCells returns an error when this is empty
GetCells(n, up) == {o \in topo[n].contains : up /\ o.e2cell /\ o.aspect}

(***************************************************************************)
(* getRanFunction of the E2 manager ranges over the map of service models  *)
(* in any order: TRUE if it may find the function, FALSE if it may fail.   *)
(***************************************************************************)
GetRanFunction(n) ==
  LET found == {sm.function : sm \in {x \in topo[n].serviceModels : x.name /\ x.oid}} IN
  {ok \in BOOLEAN : IF ok THEN "ok" \in found ELSE "bad" \in found \/ "ok" \notin found}
=============================================================================
