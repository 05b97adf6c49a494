------------------------------ MODULE MCPayload ------------------------------
(***************************************************************************)
(* An instance of RanParam and UeKey for TLC: the two things the monitor   *)
(* reads from the payload of an indication.  The code treats them apart,   *)
(* so UE IDs are varied for one request only.  Octets have one bit and a   *)
(* word has eight.                                                         *)
(***************************************************************************)
EXTENDS RanParam, UeKey, TLC

GuamiWidths ==
  [f \in Fields |-> CASE f = "plmnID" -> 3 [] f = "amfSetID" -> 2 [] OTHER -> 1]

PowersOfTwo == [k \in 0 .. WordOctets |-> 2 ^ k]

At(p, id, v) == p :> [id |-> id, value |-> v]

\* IDs on the way to the target: of an NR cell, of an E-UTRA cell, of something else,
\* and of a structure that has the ID of the cell itself
WayToNR == <<TargetPrimaryCellID, TargetCell, NRCell, NRCGI>>
WayToEUTRA == <<TargetPrimaryCellID, TargetCell, EUTRACell, EUTRACGI>>
Ways == {WayToNR, WayToEUTRA, <<7, 8, 7, 8>>, <<TargetPrimaryCellID, NRCGI, NRCell, NRCGI>>}

\* a request with nothing but the way to its target cell
PlainRequest(way, c) ==
  At(<<1>>, way[1], Empty) @@ At(<<1, 1>>, way[2], Empty)
    @@ At(<<1, 1, 1>>, way[3], Empty) @@ At(TargetPath, way[4], c)

\* requests that end too early
CutOff ==
  {[p \in {q \in TargetPaths : Len(q) <= n} |-> PlainRequest(way, Empty)[p]] :
     n \in 0 .. 3, way \in Ways}

\* what may follow it: nothing, an element, or a structure with a cell of its own
Following(p) ==
  {<<>>} \cup {At(p, id, c) : id \in OtherIDs, c \in Cells}
    \cup {At(p, id, Empty) @@ At(Append(p, 1), NRCGI, c) : id \in OtherIDs, c \in Cells}

PayloadRequests ==
  CutOff \cup
  {PlainRequest(way, c) @@ x @@ y @@ z :
     way \in Ways, c \in Cells \cup {Empty},
     x \in Following(<<2>>), y \in Following(<<1, 2>>), z \in Following(<<1, 1, 2>>)}

\* handovers to NR and to E-UTRA cells, as the service model has them
PlainRequests == {PlainRequest(way, c) : way \in {WayToNR, WayToEUTRA}, c \in Cells}

PayloadInit == RanParamInit /\ UeKeyInit

PayloadNext ==
  \/ RanParamNext /\ UNCHANGED ueKeyVars
  \/ /\ request = <<>> /\ pc = "received"
     /\ Report /\ UNCHANGED ranParamVars

PayloadSpec == PayloadInit /\ [][PayloadNext]_<<ranParamVars, ueKeyVars>>
=============================================================================
