------------------------------ MODULE RanParam ------------------------------
(***************************************************************************)
(* The RAN parameters of E2SM-RC that carry the target cell: how the       *)
(* monitor reads it from an indication (pkg/monitoring), how the control   *)
(* message that answers it is built (pkg/utils/control), and the search    *)
(* that the code offers for reading them (pkg/utils/ranparam).             *)
(*                                                                         *)
(* Parameters are nested: the value of one is an element or a structure of *)
(* further ones.  A list of parameters is a function from paths, of        *)
(* positions in the list and in the structures below it, to the parameter  *)
(* that is there.                                                          *)
(***************************************************************************)
EXTENDS Integers, Sequences

CONSTANTS
  Cells,      \* NR cell global IDs
  OtherIDs,   \* RAN parameter IDs that the code does not name
  MaxItems,   \* bound on the parameters of one structure
  MaxDepth,   \* bound on the nesting
  Requests    \* the lists of parameters that indications carry

TargetPrimaryCellID == 1
TargetCell == 2
NRCell == 3
NRCGI == 4
EUTRACell == 5
EUTRACGI == 6

IDs == {TargetPrimaryCellID, TargetCell, NRCell, NRCGI, EUTRACell, EUTRACGI} \cup OtherIDs

\* The getters of the generated code return zero values for what is not set.
Empty == "empty"
NotFound == "NotFound"

\* A parameter with the value of its element; that of a structure is Empty.
Item == [id : IDs, value : Cells \cup {Empty}]

IsParamList(m) ==
  /\ m = [p \in DOMAIN m |-> m[p]]
  /\ \A p \in DOMAIN m : /\ p \in Seq(1 .. MaxItems) /\ Len(p) \in 1 .. MaxDepth
                         /\ m[p] \in Item
                         /\ \A k \in 1 .. Len(p) : SubSeq(p, 1, k) \in DOMAIN m

\* The way to the target cell is the first parameter of each of four levels.
TargetPath == <<1, 1, 1, 1>>
TargetPaths == {<<1>>, <<1, 1>>, <<1, 1, 1>>, TargetPath}

(***************************************************************************)
(* Nothing is assumed of what the nodes send but that it is a list: the    *)
(* code checks neither the IDs nor the levels.                             *)
(***************************************************************************)
ASSUME RanParamAssumption ==
  /\ MaxItems \in Nat \ {0} /\ MaxDepth \in Nat /\ MaxDepth >= 4
  /\ Cells \cap {Empty, NotFound} = {}
  /\ \A m \in Requests : IsParamList(m)

-----------------------------------------------------------------------------
\* Mutant: the IDs of the two inner levels are swapped.
CreateRcControlMessageSwapped(cell) ==
  [p \in TargetPaths |->
     [id |-> <<TargetPrimaryCellID, TargetCell, NRCGI, NRCell>>[Len(p)],
      value |-> IF Len(p) = 4 THEN cell ELSE Empty]]

\* The list of RAN parameters of the control message
CreateRcControlMessage(cell) ==
  [p \in TargetPaths |->
     [id |-> <<TargetPrimaryCellID, TargetCell, NRCell, NRCGI>>[Len(p)],
      value |-> IF Len(p) = 4 THEN cell ELSE Empty]]

\* The monitor takes the first item at each of four levels, whatever their IDs are.
TgtCellID(m) == m[TargetPath].value

\* The positions of the parameters in the structure at path p
Items(m, p) == {i \in 1 .. MaxItems : Append(p, i) \in DOMAIN m}

\* Mutant: the error of the first item that is not it is returned.
GetRanParameterValueFirst(m, id) ==
  LET search[p \in DOMAIN m \cup {<<>>}] ==
        IF Items(m, p) = {} THEN NotFound
        ELSE IF m[Append(p, 1)].id = id THEN m[Append(p, 1)].value
        ELSE search[Append(p, 1)]
  IN  search[<<>>]

(***************************************************************************)
(* The item itself or, depth first, one below it; an error below an item   *)
(* is dropped and the next item is tried.                                  *)
(***************************************************************************)
GetRanParameterValue(m, id) ==
  LET search[p \in DOMAIN m \cup {<<>>}] ==
        LET At(i) == IF m[Append(p, i)].id = id THEN m[Append(p, i)].value
                     ELSE search[Append(p, i)]
            found == {i \in Items(m, p) : At(i) # NotFound}
        IN  IF found = {} THEN NotFound
            ELSE At(CHOOSE i \in found : \A j \in found : i <= j)
  IN  search[<<>>]

-----------------------------------------------------------------------------
VARIABLES
  request,   \* the RAN parameters of the indication
  pc,        \* what has become of it
  tgt,       \* TgtCellID of the MetricValue
  answer     \* the RAN parameters of the control message

ranParamVars == <<request, pc, tgt, answer>>

RanParamInit == request \in Requests /\ pc = "received" /\ tgt = Empty /\ answer = <<>>

\* processInsertIndicationHeader2Message5 reads the target cell
ReadTarget ==
  /\ pc = "received" /\ TargetPath \in DOMAIN request
  /\ tgt' = TgtCellID(request)
  /\ pc' = "read"
  /\ UNCHANGED <<request, answer>>

\* ... or indexes an empty list, which stops the process
ReadPanics ==
  /\ pc = "received" /\ TargetPath \notin DOMAIN request
  /\ pc' = "stopped"
  /\ UNCHANGED <<request, tgt, answer>>

\* watchMHOChanges builds the control message from the stored value
BuildControl ==
  /\ pc = "read"
  /\ answer' = CreateRcControlMessage(tgt)
  /\ pc' = "sent"
  /\ UNCHANGED <<request, tgt>>

\* a builder or Validate refuses the cell: the error is logged, an empty payload is sent
BuildFails ==
  /\ pc = "read"
  /\ pc' = "sent"
  /\ UNCHANGED <<request, tgt, answer>>

RanParamNext == ReadTarget \/ ReadPanics \/ BuildControl \/ BuildFails

RanParamSpec == RanParamInit /\ [][RanParamNext]_ranParamVars

-----------------------------------------------------------------------------
\* The parameter at the place of the target is not the first NR CGI of the list.
Misplaced(m) ==
  m[TargetPath].id # NRCGI \/ \E p \in TargetPaths \ {TargetPath} : m[p].id = NRCGI

(***************************************************************************)
(* The monitor reads by position and the control message is built by ID.   *)
(* Whatever the IDs in the request are, whoever looks the NR CGI of the    *)
(* answer up gets the value at the position read, and so does the monitor  *)
(* itself.  That is the cell which the request names as its NR CGI, except *)
(* where the position holds something else or an outer parameter has that  *)
(* ID; what follows the target, at any level, makes no difference.         *)
(***************************************************************************)
AnswerNamesRequestedCell ==
  answer # <<>> =>
    LET cell == GetRanParameterValue(answer, NRCGI) IN
    /\ cell = TgtCellID(request) /\ cell = TgtCellID(answer)
    /\ cell = GetRanParameterValue(request, NRCGI) \/ Misplaced(request)

\* Path q leads to something below path p.
Below(p, q) == Len(p) < Len(q) /\ \A k \in 1 .. Len(p) : q[k] = p[k]

\* Which of two parameters is written first: an outer one, or one further to the front.
WrittenBefore(p, q) ==
  \/ Below(p, q)
  \/ \E k \in 1 .. Len(p) : /\ k <= Len(q) /\ p[k] < q[k]
                            /\ \A j \in 1 .. k - 1 : p[j] = q[j]

(***************************************************************************)
(* GetRanParameterValue returns the value of the first parameter with the  *)
(* ID that it is asked for, at any depth, and NotFound only if there is    *)
(* none.                                                                   *)
(***************************************************************************)
SearchFindsFirst ==
  \A id \in IDs :
    LET hits == {p \in DOMAIN request : request[p].id = id}
        value == GetRanParameterValue(request, id)
    IN  \/ hits = {} /\ value = NotFound
        \/ \E p \in hits : /\ \A q \in hits \ {p} : WrittenBefore(p, q)
                           /\ value = request[p].value

-----------------------------------------------------------------------------
(***************************************************************************)
(* def.go: parameter 4 is the "NR CGI RAN parameter ID", and an E-UTRA CGI *)
(* has an ID of its own.  What an answer calls an NR CGI is one that the   *)
(* request called an NR CGI.                                               *)
(***************************************************************************)
AnswerIsNRCell ==
  answer # <<>> =>
    \E p \in DOMAIN request : /\ request[p].id = NRCGI
                              /\ request[p].value = GetRanParameterValue(answer, NRCGI)
=============================================================================
