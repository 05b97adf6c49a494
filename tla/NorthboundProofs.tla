-------------------------- MODULE NorthboundProofs --------------------------
(***************************************************************************)
(* Proofs that the northbound service leaves the handover loop as it is,   *)
(* and that what it reports can be relied on, for any number of clients.   *)
(***************************************************************************)
EXTENDS Northbound, ContractProofs

-----------------------------------------------------------------------------
(***************************************************************************)
(* A step of the loop under the store's mutex is a step of the loop.       *)
(***************************************************************************)
LEMMA NorthStep == [NorthNext]_northVars => [Next]_vars
<1> SUFFICES ASSUME [NorthNext]_northVars PROVE [Next]_vars
  OBVIOUS
<1>1. ASSUME NEW r \in Reqs, UNCHANGED vars PROVE [Next]_vars
  BY <1>1
<1>2. ASSUME NEW c \in Conns, MonitorStoreNext(c) \/ MonitorFreeNext(c) PROVE Next
  BY <1>2 DEF MonitorStoreNext, MonitorFreeNext, Next, MonitorNext
<1>3. ASSUME NEW c \in Conns,
             WatcherStoreNext(c) \/ WatcherFreeNext(c) \/ ConnectionNext(c)
      PROVE  Next
  BY <1>3 DEF WatcherStoreNext, WatcherFreeNext, ConnectionNext, Next, SouthboundNext
<1>4. ASSUME ControllerStoreNext \/ ControllerFreeNext PROVE Next
  BY <1>4 DEF ControllerStoreNext, ControllerFreeNext, Next, ControllerNext
<1>5. ASSUME NorthCrash \/ Idle PROVE Next
  BY <1>5 DEF NorthCrash, Next
<1>6. CASE UNCHANGED northVars
  BY <1>6 DEF northVars
<1> QED
  BY <1>1, <1>2, <1>3, <1>4, <1>5, <1>6 DEF NorthNext, Locked, Unlocked

(***************************************************************************)
(* The loop beside GetUes and GetCells behaves as the loop without them:   *)
(* Entries only delays it, and every safety property of MHO carries over.  *)
(***************************************************************************)
THEOREM LoopUndisturbed == NorthSpec => Spec
  BY NorthStep, PTL DEF NorthSpec, Spec

\* The invariant of the loop holds beside the northbound service.
LEMMA NorthLoopInv == NorthSpec => []IInv
<1>1. IInv /\ [Next]_vars => IInv'
  BY NextInv
<1> QED
  BY <1>1, InitInv, LoopUndisturbed, PTL DEF Spec

-----------------------------------------------------------------------------
(***************************************************************************)
(* The loop keeps what a request holds: the value it has received stays,   *)
(* and a control message that was attempted stays attempted.               *)
(***************************************************************************)
LoopStep ==
  \/ \E c \in Conns :
       \/ MonitorStoreNext(c) \/ WatcherStoreNext(c)
       \/ MonitorFreeNext(c) \/ WatcherFreeNext(c) \/ ConnectionNext(c)
  \/ ControllerStoreNext \/ ControllerFreeNext \/ Idle

\* No step of the loop but a crash removes a value or a control message.
LEMMA LoopKeeps ==
  ASSUME IInv, LoopStep
  PROVE  /\ \A i \in Calls : heap[i] # None => heap'[i] # None
         /\ BagToSet(controls) \subseteq BagToSet(controls')
<1>1. heap \in [Calls -> MetricValue \cup {None}] /\ IsABag(controls)
  BY DEF IInv, TypeOK, StoreTypeOK, SouthboundTypeOK
<1>2. \A i \in Calls, st \in MHOState : heap[i] # None =>
        [heap[i] EXCEPT !.state = st] # None
  <2> SUFFICES ASSUME NEW i \in Calls, NEW st \in MHOState, heap[i] # None
               PROVE  [heap[i] EXCEPT !.state = st] # None
    OBVIOUS
  <2>1. [heap[i] EXCEPT !.state = st] \in MetricValue
    BY <1>1 DEF MetricValue
  <2> QED
    BY <2>1, StoreAssumption
<1>3. ASSUME NEW c \in Conns, MonitorStoreNext(c)
      PROVE  /\ \A i \in Calls : heap[i] # None => heap'[i] # None
             /\ controls' = controls
  <2>1. CASE RecvIndication(c)
    BY <1>3, <2>1 DEF MonitorStoreNext, RecvIndication, storeVars, southboundVars
  <2>2. CASE ApplyIndication(c)
    <3>1. heap' = heap \/ heap[mon[c].call] = None
      BY <2>2 DEF ApplyIndication, IInv, MonInv
    <3>2. \/ heap' = heap
          \/ \E v : heap' = [heap EXCEPT ![mon[c].call] = v]
      BY <2>2 DEF ApplyIndication, storeVars
    <3> QED
      BY <1>1, <1>3, <3>1, <3>2 DEF MonitorStoreNext, southboundVars
  <2> QED
    BY <1>3, <2>1, <2>2 DEF MonitorStoreNext
<1>4. ASSUME NEW c \in Conns, WatcherStoreNext(c) \/ ConnectionNext(c)
      PROVE  UNCHANGED <<heap, controls>>
  BY <1>4 DEF WatcherStoreNext, ConnectionNext, PutDone, ReceiveChange, Connect,
     CreateSubscription, FailSubscription, StartMonitor, storeVars, southboundVars
<1>5. ASSUME NEW c \in Conns, MonitorFreeNext(c) PROVE UNCHANGED <<heap, controls>>
  BY <1>5 DEF MonitorFreeNext, RejectIndication, storeVars, southboundVars
<1>6. ASSUME NEW c \in Conns, WatcherFreeNext(c)
      PROVE  /\ \A i \in Calls : heap[i] # None => heap'[i] # None
             /\ BagToSet(controls) \subseteq BagToSet(controls')
  <2>1. CASE WatchMHOChanges(c)
    BY <2>1 DEF WatchMHOChanges, Watch, AddWatcher
  <2>2. CASE SendControl(c)
    <3>1. PICK m : controls' = BX!BagAdd(controls, m)
      BY <2>2 DEF SendControl
    <3>2. BagToSet(controls') = BagToSet(controls) \cup {m}
      BY <1>1, <3>1, BagAddFacts
    <3> QED
      BY <2>2, <3>2 DEF SendControl, storeVars
  <2>3. CASE MarkDone(c)
    <3>1. wat[c].val \in Calls /\ heap[wat[c].val] # None
      BY <2>3 DEF MarkDone, IInv, WatInv
    <3>2. controls' = controls
          /\ heap' = [heap EXCEPT ![wat[c].val] = [@ EXCEPT !.state = "Done"]]
      BY <2>3 DEF MarkDone
    <3>3. "Done" \in MHOState
      BY DEF MHOState
    <3> QED
      BY <1>1, <1>2, <3>1, <3>2, <3>3
  <2> QED
    BY <1>6, <2>1, <2>2, <2>3 DEF WatcherFreeNext
<1>7. ASSUME ControllerStoreNext PROVE UNCHANGED <<heap, controls>>
  BY <1>7 DEF ControllerStoreNext, PutApproved, ReceiveEvent, southboundVars
<1>8. ASSUME ControllerFreeNext
      PROVE  /\ \A i \in Calls : heap[i] # None => heap'[i] # None
             /\ controls' = controls
  <2>1. CASE WatchStore
    BY <1>8, <2>1 DEF ControllerFreeNext, WatchStore, Watch, AddWatcher, southboundVars
  <2>2. CASE Approve
    <3>1. ctl.val \in Calls /\ heap[ctl.val] # None
      BY <2>2 DEF Approve, IInv, CtlInv
    <3>2. heap' = [heap EXCEPT ![ctl.val] = [@ EXCEPT !.state = "Approved"]]
      BY <2>2 DEF Approve
    <3>3. "Approved" \in MHOState
      BY DEF MHOState
    <3> QED
      BY <1>1, <1>2, <1>8, <3>1, <3>2, <3>3 DEF ControllerFreeNext, southboundVars
  <2> QED
    BY <1>8, <2>1, <2>2 DEF ControllerFreeNext
<1>9. ASSUME Idle PROVE UNCHANGED <<heap, controls>>
  BY <1>9 DEF Idle, vars, storeVars, southboundVars
<1> QED
  BY <1>3, <1>4, <1>5, <1>6, <1>7, <1>8, <1>9 DEF LoopStep

(***************************************************************************)
(* The steps that replace an entry need the mutex.                         *)
(***************************************************************************)
LEMMA LoopLocked ==
  ASSUME NorthNext, ~ NorthCrash, UNCHANGED nb, mu # None
  PROVE  records' = records
<1>1. ASSUME NEW c \in Conns,
             MonitorFreeNext(c) \/ WatcherFreeNext(c) \/ ConnectionNext(c)
      PROVE  records' = records
  BY <1>1 DEF MonitorFreeNext, WatcherFreeNext, ConnectionNext, RejectIndication,
     WatchMHOChanges, Watch, AddWatcher, SendControl, MarkDone, Connect,
     CreateSubscription, FailSubscription, StartMonitor, storeVars
<1>2. ASSUME ControllerFreeNext \/ Idle \/ UNCHANGED vars PROVE records' = records
  BY <1>2 DEF ControllerFreeNext, WatchStore, Watch, AddWatcher, Approve, Idle, vars,
     storeVars
<1> QED
  BY <1>1, <1>2 DEF NorthNext, Locked, Unlocked

-----------------------------------------------------------------------------
\* The value that a request has received is there to be read.
CurInv == \A r \in Reqs : nb[r].cur # None => heap[nb[r].cur] # None

(***************************************************************************)
(* Whoever ranges over the records holds the mutex, and the store is still *)
(* what it was when the mutex was taken.                                   *)
(***************************************************************************)
RangeSeesSnapshot ==
  \A r \in Reqs : nb[r].pc = "range" => mu = r /\ nb[r].snap = records

NorthInv ==
  NorthboundTypeOK /\ CurInv /\ RangeSeesSnapshot /\ ReportedDoneAttempted

\* A request that has not begun satisfies the invariant.
LEMMA NbAtFacts ==
  ASSUME NEW pc \in NbPC
  PROVE  /\ NbAt(pc) \in [pc : NbPC, left : SUBSET UEs, cur : Calls \cup {None},
                          out : {NbAt(pc).out}, snap : [UEs -> Calls \cup {None}]]
         /\ IsABag(NbAt(pc).out) /\ BagToSet(NbAt(pc).out) = {}
         /\ NbAt(pc).pc = pc /\ NbAt(pc).cur = None
  BY EmptyBagFacts DEF NbAt

\* Without requests the invariant holds.
LEMMA NorthInitInv == NorthboundInit => NorthInv
<1> SUFFICES ASSUME NorthboundInit PROVE NorthInv
  OBVIOUS
<1>1. mu = None /\ nb = [r \in Reqs |-> NbAt("off")] /\ "off" \in NbPC
  BY DEF NorthboundInit, NbPC
<1>2. \A r \in Reqs : nb[r] = NbAt("off")
  BY <1>1
<1>3. NorthboundTypeOK
  BY <1>1, <1>2, NbAtFacts DEF NorthboundTypeOK
<1>4. CurInv /\ RangeSeesSnapshot /\ ReportedDoneAttempted
  BY <1>1, <1>2, NbAtFacts DEF CurInv, RangeSeesSnapshot, ReportedDoneAttempted, Reqs
<1> QED
  BY <1>3, <1>4 DEF NorthInv

(***************************************************************************)
(* Only the row of a value that was marked Done is Done, and the control   *)
(* message of such a value was attempted.                                  *)
(***************************************************************************)
LEMMA RowFacts ==
  ASSUME IInv, NEW r \in Reqs, NEW i \in Calls, heap[i] # None
  PROVE  /\ RowOf(r, heap[i]) \in IF r \in UeReqs THEN Row ELSE Cells
         /\ r \in UeReqs /\ RowOf(r, heap[i]).state = "Done" =>
              \E m \in BagToSet(controls) :
                NgapOf[m.ue] = RowOf(r, heap[i]).ue /\ m.tgt = RowOf(r, heap[i]).cgi
<1>1. heap[i] \in MetricValue
  BY DEF IInv, TypeOK, StoreTypeOK
<1>2. RowOf(r, heap[i]) \in IF r \in UeReqs THEN Row ELSE Cells
  BY <1>1, NorthboundAssumption DEF RowOf, Row, MetricValue
<1>3. ASSUME r \in UeReqs, RowOf(r, heap[i]).state = "Done"
      PROVE  \E m \in BagToSet(controls) :
               NgapOf[m.ue] = RowOf(r, heap[i]).ue /\ m.tgt = RowOf(r, heap[i]).cgi
  <2>1. heap[i].state = "Done"
    BY <1>3 DEF RowOf
  <2>2. PICK m \in BagToSet(controls) : m.call = i
    BY <2>1 DEF IInv, DoneMeansAttempted
  <2>3. inds[i] = [ue |-> m.ue, tgt |-> m.tgt, node |-> m.to]
    BY <2>2 DEF IInv, ControlAnswersIndication
  <2>4. inds[i] = [ue |-> heap[i].ue, tgt |-> heap[i].tgt, node |-> heap[i].node]
    BY DEF IInv, HeapInv
  <2>5. m.ue = heap[i].ue /\ m.tgt = heap[i].tgt
    BY <2>3, <2>4
  <2> QED
    BY <1>3, <2>5 DEF RowOf
<1> QED
  BY <1>2, <1>3

-----------------------------------------------------------------------------
(***************************************************************************)
(* A step of request r changes its own record: the invariant follows from  *)
(* what the new record and the mutex are.                                  *)
(***************************************************************************)
LEMMA RequestStep ==
  ASSUME NorthInv, UNCHANGED vars, NEW r \in Reqs, NEW q,
         nb' = [nb EXCEPT ![r] = q],
         q \in [pc : NbPC, left : SUBSET UEs, cur : Calls \cup {None}, out : {q.out},
                snap : [UEs -> Calls \cup {None}]],
         IsABag(q.out), BagToSet(q.out) \subseteq IF r \in UeReqs THEN Row ELSE Cells,
         q.cur # None => heap[q.cur] # None,
         q.pc = "range" => mu' = r /\ q.snap = records,
         mu' = mu \/ (mu = None /\ mu' = r) \/ (mu = r /\ mu' = None),
         r \in UeReqs => \A row \in BagToSet(q.out) : row.state = "Done" =>
           \E m \in BagToSet(controls) : NgapOf[m.ue] = row.ue /\ m.tgt = row.cgi
  PROVE  NorthInv'
<1>1. UNCHANGED <<records, heap, controls>>
  BY DEF vars, storeVars, southboundVars
<1>2. nb'[r] = q /\ \A o \in Reqs \ {r} : nb'[o] = nb[o]
  BY DEF NorthInv, NorthboundTypeOK
<1>3. NorthboundTypeOK'
  <2>1. mu' \in Reqs \cup {None}
    BY DEF NorthInv, NorthboundTypeOK
  <2>2. nb' = [o \in Reqs |-> nb'[o]]
    BY DEF NorthInv, NorthboundTypeOK
  <2> QED
    BY <1>2, <2>1, <2>2 DEF NorthInv, NorthboundTypeOK
<1>4. CurInv'
  BY <1>1, <1>2 DEF NorthInv, CurInv
<1>5. RangeSeesSnapshot'
  BY <1>1, <1>2, NorthboundAssumption DEF NorthInv, RangeSeesSnapshot
<1>6. ReportedDoneAttempted'
  BY <1>1, <1>2 DEF NorthInv, ReportedDoneAttempted, Reqs
<1> QED
  BY <1>3, <1>4, <1>5, <1>6 DEF NorthInv

\* Every step of GetUes and GetCells keeps the invariant.
LEMMA RequestInv ==
  ASSUME IInv, NorthInv, UNCHANGED vars, NEW r \in Reqs, CallEntries(r) \/ Serve(r)
  PROVE  NorthInv'
<1> USE DEF NbPC
<1>1. /\ nb = [o \in Reqs |-> nb[o]]
      /\ nb[r] \in [pc : NbPC, left : SUBSET UEs, cur : Calls \cup {None},
                    out : {nb[r].out}, snap : [UEs -> Calls \cup {None}]]
      /\ IsABag(nb[r].out)
      /\ BagToSet(nb[r].out) \subseteq IF r \in UeReqs THEN Row ELSE Cells
      /\ nb[r].cur # None => heap[nb[r].cur] # None
      /\ nb[r].pc = "range" => mu = r /\ nb[r].snap = records
      /\ r \in UeReqs => \A row \in BagToSet(nb[r].out) : row.state = "Done" =>
           \E m \in BagToSet(controls) : NgapOf[m.ue] = row.ue /\ m.tgt = row.cgi
  BY DEF NorthInv, NorthboundTypeOK, CurInv, RangeSeesSnapshot, ReportedDoneAttempted
<1>2. records \in [UEs -> Calls \cup {None}]
  BY DEF IInv, TypeOK, StoreTypeOK
<1>3. CASE CallEntries(r)
  <2>1. nb' = [nb EXCEPT ![r] = NbAt("called")] /\ mu' = mu
    BY <1>3 DEF CallEntries
  <2> QED
    BY <2>1, NbAtFacts, RequestStep
<1>4. CASE LockEntries(r)
  <2> DEFINE q == [NbAt("range") EXCEPT !.left = {u \in UEs : HasEntry(u)}, !.snap = records]
  <2>1. nb' = [nb EXCEPT ![r] = q] /\ mu = None /\ mu' = r
    BY <1>4 DEF LockEntries
  <2>2. /\ q \in [pc : NbPC, left : SUBSET UEs, cur : Calls \cup {None}, out : {q.out},
                  snap : [UEs -> Calls \cup {None}]]
        /\ q.out = EmptyBag /\ q.cur = None /\ q.snap = records
    BY <1>2 DEF NbAt
  <2> HIDE DEF q
  <2> QED
    BY <2>1, <2>2, EmptyBagFacts, RequestStep
<1>5. CASE SendEntry(r)
  <2>1. PICK u \in nb[r].left :
          nb' = [nb EXCEPT ![r].left = @ \ {u}, ![r].cur = Get(u)] /\ mu' = mu
    BY <1>5 DEF SendEntry
  <2> DEFINE q == [nb[r] EXCEPT !.left = @ \ {u}, !.cur = Get(u)]
  <2>2. u \in UEs /\ Get(u) \in Calls \cup {None}
    BY <1>1, <1>2 DEF Get
  <2>3. nb' = [nb EXCEPT ![r] = q]
    BY <1>1, <2>1
  <2>4. /\ q \in [pc : NbPC, left : SUBSET UEs, cur : Calls \cup {None}, out : {q.out},
                  snap : [UEs -> Calls \cup {None}]]
        /\ q.out = nb[r].out /\ q.cur = Get(u) /\ q.pc = nb[r].pc /\ q.snap = nb[r].snap
    BY <1>1, <2>2
  <2>5. q.cur # None => heap[q.cur] # None
    BY <2>2, <2>4 DEF IInv, RecordsInv, HasEntry, Get
  <2>6. mu' = mu
    BY <2>1
  <2>7. /\ IsABag(q.out) /\ BagToSet(q.out) \subseteq IF r \in UeReqs THEN Row ELSE Cells
        /\ q.pc = "range" => mu' = r /\ q.snap = records
        /\ r \in UeReqs => \A row \in BagToSet(q.out) : row.state = "Done" =>
             \E m \in BagToSet(controls) : NgapOf[m.ue] = row.ue /\ m.tgt = row.cgi
    <3> HIDE DEF q
    <3> QED BY <1>1, <2>4, <2>6
  <2> HIDE DEF q
  <2> QED
    BY <2>3, <2>4, <2>5, <2>6, <2>7, RequestStep
<1>6. CASE ReadRow(r)
  <2> DEFINE row == RowOf(r, heap[nb[r].cur])
             q == [nb[r] EXCEPT !.out = BX!BagAdd(@, row), !.cur = None]
  <2>1. nb[r].cur \in Calls /\ heap[nb[r].cur] # None
    BY <1>1, <1>6 DEF ReadRow
  <2>2. nb' = [nb EXCEPT ![r] = q] /\ mu' = mu
    BY <1>1, <1>6 DEF ReadRow
  <2>3. /\ q \in [pc : NbPC, left : SUBSET UEs, cur : Calls \cup {None}, out : {q.out},
                  snap : [UEs -> Calls \cup {None}]]
        /\ q.out = BX!BagAdd(nb[r].out, row) /\ q.cur = None /\ q.pc = nb[r].pc
        /\ q.snap = nb[r].snap
    BY <1>1
  <2>4. /\ row \in IF r \in UeReqs THEN Row ELSE Cells
        /\ r \in UeReqs /\ row.state = "Done" =>
             \E m \in BagToSet(controls) : NgapOf[m.ue] = row.ue /\ m.tgt = row.cgi
    BY <2>1, RowFacts
  <2> HIDE DEF q, row
  <2>5. IsABag(q.out) /\ BagToSet(q.out) = BagToSet(nb[r].out) \cup {row}
    BY <1>1, <2>3, BagAddFacts
  <2> QED
    BY <1>1, <2>2, <2>3, <2>4, <2>5, RequestStep
<1>7. CASE UnlockEntries(r) \/ Answer(r)
  <2> DEFINE q == [nb[r] EXCEPT !.pc = IF UnlockEntries(r) THEN "wait" ELSE "answered"]
  <2>1. nb' = [nb EXCEPT ![r] = q]
    BY <1>1, <1>7 DEF UnlockEntries, Answer
  <2>2. mu' = mu \/ (mu = r /\ mu' = None)
    BY <1>1, <1>7 DEF UnlockEntries, Answer
  <2>3. /\ q \in [pc : NbPC, left : SUBSET UEs, cur : Calls \cup {None}, out : {q.out},
                  snap : [UEs -> Calls \cup {None}]]
        /\ q.out = nb[r].out /\ q.cur = nb[r].cur /\ q.pc # "range"
    BY <1>1
  <2> HIDE DEF q
  <2> QED
    BY <1>1, <2>1, <2>2, <2>3, RequestStep
<1> QED
  BY <1>3, <1>4, <1>5, <1>6, <1>7 DEF Serve

\* Every step of the loop beside the service keeps the invariant.
LEMMA NorthNextInv == IInv /\ NorthInv /\ [NorthNext]_northVars => NorthInv'
<1> SUFFICES ASSUME IInv, NorthInv, [NorthNext]_northVars PROVE NorthInv'
  OBVIOUS
<1>1. CASE \E r \in Reqs : (CallEntries(r) \/ Serve(r)) /\ UNCHANGED vars
  BY <1>1, RequestInv
<1>2. CASE NorthCrash
  <2>1. NorthboundInit'
    BY <1>2 DEF NorthCrash, NorthboundInit
  <2> QED
    BY <2>1, NorthInitInv, PTL
<1>3. CASE /\ NorthNext /\ ~ NorthCrash
           /\ ~ \E r \in Reqs : (CallEntries(r) \/ Serve(r)) /\ UNCHANGED vars
  <2>1. LoopStep /\ UNCHANGED <<mu, nb>>
    BY <1>3 DEF NorthNext, Locked, Unlocked, LoopStep
  <2>2. /\ \A i \in Calls : heap[i] # None => heap'[i] # None
        /\ BagToSet(controls) \subseteq BagToSet(controls')
    BY <2>1, LoopKeeps
  <2>3. mu # None => records' = records
    BY <1>3, <2>1, LoopLocked
  <2>4. NorthboundTypeOK' /\ CurInv'
    BY <2>1, <2>2 DEF NorthInv, NorthboundTypeOK, CurInv
  <2>5. RangeSeesSnapshot'
    BY <2>1, <2>3, NorthboundAssumption DEF NorthInv, RangeSeesSnapshot
  <2>6. ReportedDoneAttempted'
    BY <2>1, <2>2 DEF NorthInv, ReportedDoneAttempted
  <2> QED
    BY <2>4, <2>5, <2>6 DEF NorthInv
<1>4. CASE UNCHANGED northVars
  <2>1. UNCHANGED <<mu, nb, heap, records, controls>>
    BY <1>4 DEF northVars, vars, storeVars, southboundVars
  <2> QED
    BY <2>1 DEF NorthInv, NorthboundTypeOK, CurInv, RangeSeesSnapshot, ReportedDoneAttempted
<1> QED
  BY <1>1, <1>2, <1>3, <1>4

\* The invariant of the loop and of the requests together.
LEMMA NorthAlways == NorthSpec => []NorthInv
  BY NorthLoopInv, NorthInitInv, NorthNextInv, PTL DEF NorthSpec

(***************************************************************************)
(* The requests keep their types: GetUes answers with rows of UEs, GetCells*)
(* with cells.                                                             *)
(***************************************************************************)
THEOREM NorthTypeCorrect == NorthSpec => []NorthboundTypeOK
<1>1. NorthInv => NorthboundTypeOK
  BY DEF NorthInv
<1> QED
  BY <1>1, NorthAlways, PTL

(***************************************************************************)
(* A UE that GetUes reports as Done was asked to move to the cell that is  *)
(* reported with it, although State is read without a lock.                *)
(***************************************************************************)
THEOREM ReportedDone == NorthSpec => []ReportedDoneAttempted
<1>1. NorthInv => ReportedDoneAttempted
  BY DEF NorthInv
<1> QED
  BY <1>1, NorthAlways, PTL

(***************************************************************************)
(* Entries ranges over one and the same store, whatever the loop does.     *)
(***************************************************************************)
THEOREM OneStorePerRange == NorthSpec => []RangeSeesSnapshot
<1>1. NorthInv => RangeSeesSnapshot
  BY DEF NorthInv
<1> QED
  BY <1>1, NorthAlways, PTL

-----------------------------------------------------------------------------
\* The UEs that a request has counted: in its picture, visited, and read.
Counted(q) == {u \in UEs : q.snap[u] \notin {None, q.cur}} \ q.left

(***************************************************************************)
(* What a request r in state q has of its answer: there is exactly one row *)
(* for each UE counted, with the target cell of the UE's value.  That value*)
(* still has the UE and the cell it had, for only its State is written.    *)
(***************************************************************************)
Picture(r, q) ==
  /\ \A u \in UEs : q.snap[u] # None => heap[q.snap[u]] # None /\ heap[q.snap[u]].ue = u
  /\ q.left \subseteq {u \in UEs : q.snap[u] # None}
  /\ q.cur # None => \E u \in UEs \ q.left : q.snap[u] = q.cur
  /\ q.pc \in {"wait", "answered"} => q.left = {}
  /\ q.pc = "answered" => q.cur = None
  /\ \E f \in Bijection(Counted(q), Copies(q.out)) :
       \A u \in Counted(q) : CellIn(r, f[u][1]) = heap[q.snap[u]].tgt

PictureInv == \A r \in Reqs : Picture(r, nb[r])

\* What a bijection between rows and UEs is.
LEMMA BijectionFacts ==
  ASSUME NEW S, NEW T, NEW f
  PROVE  f \in Bijection(S, T) <=>
           /\ f \in [S -> T]
           /\ \A a, b \in S : f[a] = f[b] => a = b
           /\ \A t \in T : \E a \in S : f[a] = t
  BY DEF Bijection, Injection, Surjection, IsInjective

\* A request that has not begun shows nothing.
LEMMA BlankPicture ==
  ASSUME NEW r \in Reqs, NEW q, q.snap = [u \in UEs |-> None], q.left = {}, q.cur = None,
         q.out = EmptyBag
  PROVE  Picture(r, q)
<1>1. Counted(q) = {} /\ Copies(q.out) = {}
  BY EmptyBagFacts DEF Counted, Copies
<1>2. PICK f : f = [u \in {} |-> u]
  OBVIOUS
<1>3. f \in Bijection({}, {})
  BY <1>2, BijectionFacts
<1> QED
  BY <1>1, <1>3 DEF Picture

(***************************************************************************)
(* Only the State of a value is ever written: indications and the UEs and  *)
(* cells of values stay as they are.                                       *)
(***************************************************************************)
LEMMA IndsStay ==
  ASSUME LoopStep, IInv
  PROVE  IndsKept
<1>1. ASSUME NEW c \in Conns, MonitorStoreNext(c) PROVE IndsKept
  BY <1>1 DEF MonitorStoreNext, RecvIndication, ApplyIndication, IndsKept,
     IInv, TypeOK, MonitorTypeOK
<1>2. ASSUME NEW c \in Conns,
             \/ WatcherStoreNext(c) \/ MonitorFreeNext(c) \/ WatcherFreeNext(c)
             \/ ConnectionNext(c)
      PROVE  inds' = inds
  BY <1>2 DEF WatcherStoreNext, PutDone, ReceiveChange, MonitorFreeNext, RejectIndication,
     WatcherFreeNext, WatchMHOChanges, SendControl, MarkDone, ConnectionNext, Connect,
     CreateSubscription, FailSubscription, StartMonitor, monitorVars
<1>3. ASSUME ControllerStoreNext \/ ControllerFreeNext \/ Idle PROVE inds' = inds
  BY <1>3 DEF ControllerStoreNext, ControllerFreeNext, Idle, vars, monitorVars
<1> QED
  BY <1>1, <1>2, <1>3 DEF LoopStep, IndsKept

\* A stored value keeps its UE and its target cell.
LEMMA ValuesStay ==
  ASSUME LoopStep, IInv, IInv', NEW i \in Calls, heap[i] # None
  PROVE  heap'[i] # None /\ heap'[i].ue = heap[i].ue /\ heap'[i].tgt = heap[i].tgt
<1>1. heap'[i] # None
  BY LoopKeeps
<1>2. inds[i] = [ue |-> heap[i].ue, tgt |-> heap[i].tgt, node |-> heap[i].node]
  BY DEF IInv, HeapInv
<1>3. inds'[i] = [ue |-> heap'[i].ue, tgt |-> heap'[i].tgt, node |-> heap'[i].node]
  BY <1>1 DEF IInv, HeapInv
<1>4. inds[i] # None
  <2>1. heap[i].ue \in UEs /\ heap[i].tgt \in Cells /\ heap[i].node \in Nodes
    BY DEF IInv, TypeOK, StoreTypeOK, MetricValue
  <2> QED
    BY <1>2, <2>1, IndicationNotNone
<1>5. inds'[i] = inds[i]
  BY <1>4, IndsStay DEF IndsKept
<1> QED
  BY <1>1, <1>2, <1>3, <1>5

\* So a step of the loop leaves the picture as it is.
LEMMA LoopPicture ==
  ASSUME NEW r \in Reqs, NEW q, q.snap \in [UEs -> Calls \cup {None}], Picture(r, q),
         \A i \in Calls : heap[i] # None =>
           heap'[i] # None /\ heap'[i].ue = heap[i].ue /\ heap'[i].tgt = heap[i].tgt
  PROVE  Picture(r, q)'
<1>1. PICK f \in Bijection(Counted(q), Copies(q.out)) :
        \A u \in Counted(q) : CellIn(r, f[u][1]) = heap[q.snap[u]].tgt
  BY DEF Picture
<1>2. \A u \in UEs : q.snap[u] # None =>
        /\ q.snap[u] \in Calls /\ heap[q.snap[u]] # None /\ heap[q.snap[u]].ue = u
  BY DEF Picture
<1>3. \A u \in UEs : q.snap[u] # None =>
        /\ heap'[q.snap[u]] # None /\ heap'[q.snap[u]].ue = u
        /\ heap'[q.snap[u]].tgt = heap[q.snap[u]].tgt
  BY <1>2
<1>4. \A u \in Counted(q) : u \in UEs /\ q.snap[u] # None
  BY DEF Counted
<1>5. \A u \in Counted(q) : CellIn(r, f[u][1]) = heap'[q.snap[u]].tgt
  BY <1>1, <1>3, <1>4
<1> QED
  BY <1>1, <1>3, <1>5 DEF Picture, Counted, Copies, CellIn

-----------------------------------------------------------------------------
\* A row is read: one UE and one row more.
LEMMA ReadPicture ==
  ASSUME IInv, NEW r \in Reqs, NEW q, NEW q2, Picture(r, q),
         q.snap \in [UEs -> Calls \cup {None}], q.left \in SUBSET UEs, IsABag(q.out),
         q.cur # None, q2.cur = None, q2.snap = q.snap, q2.left = q.left, q2.pc = q.pc,
         q2.out = BX!BagAdd(q.out, RowOf(r, heap[q.cur]))
  PROVE  Picture(r, q2)
<1>1. PICK f \in Bijection(Counted(q), Copies(q.out)) :
        \A u \in Counted(q) : CellIn(r, f[u][1]) = heap[q.snap[u]].tgt
  BY DEF Picture
<1>2. PICK u0 \in UEs \ q.left : q.snap[u0] = q.cur
  BY DEF Picture
<1>3. Counted(q2) = Counted(q) \cup {u0} /\ u0 \notin Counted(q)
  <2>1. \A u \in UEs : q.snap[u] = q.cur => u = u0
    BY <1>2 DEF Picture
  <2> QED
    BY <1>2, <2>1 DEF Counted
<1>4. PICK x : x = RowOf(r, heap[q.cur])
  OBVIOUS
<1>5. CellIn(r, x) = heap[q.cur].tgt
  BY <1>4 DEF CellIn, RowOf
<1>6. PICK n : Copies(q2.out) = Copies(q.out) \cup {<<x, n>>} /\ <<x, n>> \notin Copies(q.out)
  <2>1. PICK B : B = q.out /\ IsABag(B)
    OBVIOUS
  <2>2. PICK n \in Nat :
           /\ n > 0
           /\ ~(x \in BagToSet(B) /\ n \in 1 .. B[x])
           /\ x \in BagToSet(BX!BagAdd(B, x)) /\ n \in 1 .. BX!BagAdd(B, x)[x]
           /\ \A y \in BagToSet(BX!BagAdd(B, x)) : \A k \in 1 .. BX!BagAdd(B, x)[y] :
                (y = x /\ k = n) \/ (y \in BagToSet(B) /\ k \in 1 .. B[y])
           /\ \A y \in BagToSet(B) : \A k \in 1 .. B[y] :
                y \in BagToSet(BX!BagAdd(B, x)) /\ k \in 1 .. BX!BagAdd(B, x)[y]
    BY <2>1, CopyAdded
  <2>3. PICK B2 : B2 = BX!BagAdd(B, x)
    OBVIOUS
  <2>4. \A y, k : <<y, k>> \in Copies(B) <=> y \in BagToSet(B) /\ k \in 1 .. B[y]
    BY DEF Copies
  <2>5. \A y, k : <<y, k>> \in Copies(B2) <=> y \in BagToSet(B2) /\ k \in 1 .. B2[y]
    BY DEF Copies
  <2>6. /\ \A p \in Copies(B) : p = <<p[1], p[2]>>
        /\ \A p \in Copies(B2) : p = <<p[1], p[2]>>
    BY CopiesFacts
  <2>7. <<x, n>> \notin Copies(B) /\ <<x, n>> \in Copies(B2)
    BY <2>2, <2>3, <2>4, <2>5
  <2>8. \A y, k : <<y, k>> \in Copies(B2) <=> <<y, k>> \in Copies(B) \/ (y = x /\ k = n)
    BY <2>2, <2>3, <2>4, <2>5
  <2>9. Copies(B2) \subseteq Copies(B) \cup {<<x, n>>}
    BY <2>6, <2>8
  <2>10. Copies(B) \subseteq Copies(B2)
    BY <2>6, <2>8
  <2> QED
    BY <1>4, <2>1, <2>3, <2>7, <2>9, <2>10
<1>7. PICK g : g = [u \in Counted(q) \cup {u0} |-> IF u = u0 THEN <<x, n>> ELSE f[u]]
  OBVIOUS
<1>8. g \in Bijection(Counted(q2), Copies(q2.out))
  <2>1. /\ f \in [Counted(q) -> Copies(q.out)]
        /\ \A a, b \in Counted(q) : f[a] = f[b] => a = b
        /\ \A t \in Copies(q.out) : \E a \in Counted(q) : f[a] = t
    BY <1>1, BijectionFacts
  <2>2. g[u0] = <<x, n>> /\ \A u \in Counted(q) : g[u] = f[u]
    BY <1>3, <1>7
  <2>3. g \in [Counted(q2) -> Copies(q2.out)]
    BY <1>3, <1>6, <1>7, <2>1
  <2>4. \A a, b \in Counted(q2) : g[a] = g[b] => a = b
    BY <1>3, <1>6, <2>1, <2>2
  <2>5. \A t \in Copies(q2.out) : \E a \in Counted(q2) : g[a] = t
    BY <1>3, <1>6, <2>1, <2>2
  <2> QED
    BY <2>3, <2>4, <2>5, BijectionFacts
<1>9. \A u \in Counted(q2) : CellIn(r, g[u][1]) = heap[q2.snap[u]].tgt
  <2>1. CellIn(r, g[u0][1]) = heap[q2.snap[u0]].tgt
    BY <1>2, <1>3, <1>5, <1>7
  <2>2. \A u \in Counted(q) : g[u] = f[u]
    BY <1>3, <1>7
  <2> QED
    BY <1>1, <1>3, <2>1, <2>2
<1> QED
  BY <1>8, <1>9 DEF Picture

\* Every step of GetUes and GetCells keeps the picture.
LEMMA RequestPicture ==
  ASSUME IInv, NorthInv, PictureInv, UNCHANGED vars, NEW r \in Reqs,
         CallEntries(r) \/ Serve(r)
  PROVE  PictureInv'
<1>1. /\ nb = [o \in Reqs |-> nb[o]]
      /\ nb[r] \in [pc : NbPC, left : SUBSET UEs, cur : Calls \cup {None},
                    out : {nb[r].out}, snap : [UEs -> Calls \cup {None}]]
      /\ IsABag(nb[r].out)
      /\ nb[r].pc = "range" => nb[r].snap = records
  BY DEF NorthInv, NorthboundTypeOK, RangeSeesSnapshot
<1>2. PICK p : p = nb[r]
  OBVIOUS
<1>3. Picture(r, p)
  BY <1>2 DEF PictureInv
<1>4. UNCHANGED heap
  BY DEF vars, storeVars
<1>5. SUFFICES ASSUME TRUE PROVE \E q : nb' = [nb EXCEPT ![r] = q] /\ Picture(r, q)
  <2>1. ASSUME NEW q, nb' = [nb EXCEPT ![r] = q], Picture(r, q) PROVE PictureInv'
    <3>1. nb'[r] = q /\ \A o \in Reqs \ {r} : nb'[o] = nb[o]
      BY <1>1, <2>1
    <3>2. \A o \in Reqs : Picture(o, nb'[o])
      BY <2>1, <3>1 DEF PictureInv
    <3> QED
      BY <1>4, <3>2 DEF PictureInv, Picture
  <2> QED
    BY <2>1
<1>6. CASE CallEntries(r)
  <2>1. PICK q : q = NbAt("called")
    OBVIOUS
  <2>2. nb' = [nb EXCEPT ![r] = q]
    BY <1>6, <2>1 DEF CallEntries
  <2>3. /\ q.snap = [u \in UEs |-> None] /\ q.left = {} /\ q.cur = None
        /\ q.out = EmptyBag
    BY <2>1 DEF NbAt
  <2>4. Picture(r, q)
    BY <2>3, BlankPicture
  <2> QED
    BY <2>2, <2>4
<1>7. CASE LockEntries(r)
  <2>1. PICK q : q = [NbAt("range") EXCEPT !.left = {u \in UEs : HasEntry(u)}, !.snap = records]
    OBVIOUS
  <2>2. nb' = [nb EXCEPT ![r] = q]
    BY <1>7, <2>1 DEF LockEntries
  <2>3. /\ q.pc = "range" /\ q.left = {u \in UEs : HasEntry(u)} /\ q.snap = records
        /\ q.cur = None /\ q.out = EmptyBag
    BY <2>1 DEF NbAt
  <2>4. Counted(q) = {} /\ Copies(q.out) = {}
    BY <2>3, EmptyBagFacts DEF Counted, Copies, HasEntry
  <2>5. PICK f : f = [u \in {} |-> u]
    OBVIOUS
  <2>6. f \in Bijection(Counted(q), Copies(q.out))
    BY <2>4, <2>5, BijectionFacts
  <2>7. \A u \in UEs : q.snap[u] # None => heap[q.snap[u]] # None /\ heap[q.snap[u]].ue = u
    BY <2>3 DEF IInv, RecordsInv, HasEntry, Get
  <2>8. q.left \subseteq {u \in UEs : q.snap[u] # None}
    BY <2>3 DEF HasEntry
  <2>9. Picture(r, q)
    BY <2>3, <2>4, <2>6, <2>7, <2>8 DEF Picture
  <2> QED
    BY <2>2, <2>9
<1>8. CASE SendEntry(r)
  <2>1. PICK u0 \in nb[r].left :
          nb' = [nb EXCEPT ![r].left = @ \ {u0}, ![r].cur = Get(u0)]
    BY <1>8 DEF SendEntry
  <2>2. PICK q : q = [nb[r] EXCEPT !.left = @ \ {u0}, !.cur = Get(u0)]
    OBVIOUS
  <2>3. nb' = [nb EXCEPT ![r] = q]
    BY <1>1, <2>1, <2>2
  <2>4. /\ q.pc = p.pc /\ q.left = p.left \ {u0} /\ q.cur = p.snap[u0]
        /\ q.snap = p.snap /\ q.out = p.out
        /\ p.pc = "range" /\ p.cur = None /\ u0 \in p.left /\ p.left \in SUBSET UEs
    BY <1>1, <1>2, <1>8, <2>2 DEF SendEntry, Get
  <2>5. \A u \in UEs : p.snap[u] = p.snap[u0] => p.snap[u] = None \/ u = u0
    BY <1>3, <2>4 DEF Picture
  <2>6. p.snap[u0] # None
    BY <1>3, <2>4 DEF Picture
  <2>7. Counted(q) = Counted(p)
    BY <2>4, <2>5, <2>6 DEF Counted
  <2>8. Picture(r, q)
    <3>1. \E f \in Bijection(Counted(q), Copies(q.out)) :
            \A u \in Counted(q) : CellIn(r, f[u][1]) = heap[q.snap[u]].tgt
      BY <1>3, <2>4, <2>7 DEF Picture
    <3>2. q.cur # None => \E u \in UEs \ q.left : q.snap[u] = q.cur
      BY <2>4
    <3>3. /\ \A u \in UEs : q.snap[u] # None => heap[q.snap[u]] # None /\ heap[q.snap[u]].ue = u
          /\ q.left \subseteq {u \in UEs : q.snap[u] # None}
      BY <1>3, <2>4 DEF Picture
    <3> QED
      BY <2>4, <3>1, <3>2, <3>3 DEF Picture
  <2> QED
    BY <2>3, <2>8
<1>9. CASE ReadRow(r)
  <2>1. PICK q : q = [nb[r] EXCEPT !.out = BX!BagAdd(@, RowOf(r, heap[nb[r].cur])), !.cur = None]
    OBVIOUS
  <2>2. nb' = [nb EXCEPT ![r] = q] /\ p.cur # None
    BY <1>1, <1>2, <1>9, <2>1 DEF ReadRow
  <2>3. /\ q.cur = None /\ q.snap = p.snap /\ q.left = p.left /\ q.pc = p.pc
        /\ q.out = BX!BagAdd(p.out, RowOf(r, heap[p.cur]))
        /\ p.snap \in [UEs -> Calls \cup {None}] /\ p.left \in SUBSET UEs /\ IsABag(p.out)
    BY <1>1, <1>2, <2>1
  <2>4. Picture(r, q)
    BY <1>3, <2>2, <2>3, ReadPicture
  <2> QED
    BY <2>2, <2>4
<1>10. CASE UnlockEntries(r) \/ Answer(r)
  <2>1. PICK pc \in {"wait", "answered"} :
          /\ nb' = [nb EXCEPT ![r].pc = pc]
          /\ p.left = {} /\ (pc = "answered" => p.cur = None)
    BY <1>2, <1>3, <1>10 DEF UnlockEntries, Answer, Picture
  <2>2. PICK q : q = [nb[r] EXCEPT !.pc = pc]
    OBVIOUS
  <2>3. nb' = [nb EXCEPT ![r] = q]
    BY <1>1, <2>1, <2>2
  <2>4. q.pc = pc /\ q.snap = p.snap /\ q.left = p.left /\ q.cur = p.cur /\ q.out = p.out
    BY <1>1, <1>2, <2>2
  <2>5. Counted(q) = Counted(p)
    BY <2>4 DEF Counted
  <2>6. Picture(r, q)
    BY <1>3, <2>1, <2>4, <2>5 DEF Picture
  <2> QED
    BY <2>3, <2>6
<1> QED
  BY <1>6, <1>7, <1>8, <1>9, <1>10 DEF Serve

\* No request has begun when the app starts.
LEMMA PictureInit == NorthboundInit => PictureInv
<1> SUFFICES ASSUME NorthboundInit, NEW r \in Reqs PROVE Picture(r, nb[r])
  BY DEF PictureInv
<1>1. nb[r] = NbAt("off")
  BY DEF NorthboundInit
<1>2. PICK q : q = nb[r]
  OBVIOUS
<1>3. /\ q.snap = [u \in UEs |-> None] /\ q.left = {} /\ q.cur = None
      /\ q.out = EmptyBag
  BY <1>1, <1>2 DEF NbAt
<1> QED
  BY <1>2, <1>3, BlankPicture

\* Every step, of a request or of the loop beside it, keeps every picture.
LEMMA NextPicture ==
  IInv /\ IInv' /\ NorthInv /\ PictureInv /\ [NorthNext]_northVars => PictureInv'
<1> SUFFICES ASSUME IInv, IInv', NorthInv, PictureInv, [NorthNext]_northVars
             PROVE  PictureInv'
  OBVIOUS
<1>1. CASE \E r \in Reqs : (CallEntries(r) \/ Serve(r)) /\ UNCHANGED vars
  BY <1>1, RequestPicture
<1>2. CASE NorthCrash
  <2>1. NorthboundInit'
    BY <1>2 DEF NorthCrash, NorthboundInit
  <2> QED
    BY <2>1, PictureInit, PTL
<1>3. CASE /\ NorthNext /\ ~ NorthCrash
           /\ ~ \E r \in Reqs : (CallEntries(r) \/ Serve(r)) /\ UNCHANGED vars
  <2>1. LoopStep /\ UNCHANGED <<mu, nb>>
    BY <1>3 DEF NorthNext, Locked, Unlocked, LoopStep
  <2>2. \A i \in Calls : heap[i] # None =>
          heap'[i] # None /\ heap'[i].ue = heap[i].ue /\ heap'[i].tgt = heap[i].tgt
    BY <2>1, ValuesStay
  <2> SUFFICES ASSUME NEW r \in Reqs PROVE Picture(r, nb[r])'
    BY DEF PictureInv
  <2>3. PICK q : q = nb[r]
    OBVIOUS
  <2>4. q.snap \in [UEs -> Calls \cup {None}] /\ Picture(r, q)
    BY <2>3 DEF NorthInv, NorthboundTypeOK, PictureInv
  <2>5. Picture(r, q)'
    BY <2>2, <2>4, LoopPicture
  <2>6. q = nb'[r]
    BY <2>1, <2>3
  <2> QED
    BY <2>5, <2>6 DEF Picture
<1>4. CASE UNCHANGED northVars
  <2>1. UNCHANGED <<nb, heap>>
    BY <1>4 DEF northVars, vars, storeVars
  <2> QED
    BY <2>1 DEF PictureInv, Picture
<1> QED
  BY <1>1, <1>2, <1>3, <1>4

(***************************************************************************)
(* When the answer is complete every UE of the picture has been counted.   *)
(***************************************************************************)
LEMMA PictureComplete == IInv /\ StormInv /\ NorthInv /\ PictureInv => AnswersAreSnapshots
<1> SUFFICES ASSUME IInv, StormInv, NorthInv, PictureInv,
                    NEW r \in Reqs, NEW t \in Cells, nb[r].pc = "answered"
             PROVE  LET rows == {x \in Copies(nb[r].out) : CellIn(r, x[1]) = t}
                        inCell == {u \in UEs : /\ nb[r].snap[u] # None
                                               /\ heap[nb[r].snap[u]].tgt = t}
                    IN  Cardinality(rows) = Cardinality(inCell)
  BY DEF AnswersAreSnapshots
<1>1. PICK q : q = nb[r]
  OBVIOUS
<1>2. q.left = {} /\ q.cur = None /\ q.snap \in [UEs -> Calls \cup {None}]
  BY <1>1 DEF PictureInv, Picture, NorthInv, NorthboundTypeOK
<1>3. PICK f \in Bijection(Counted(q), Copies(q.out)) :
        \A u \in Counted(q) : CellIn(r, f[u][1]) = heap[q.snap[u]].tgt
  BY <1>1 DEF PictureInv, Picture
<1>4. Counted(q) = {u \in UEs : q.snap[u] # None}
  BY <1>2 DEF Counted
<1>5. PICK rows : rows = {x \in Copies(q.out) : CellIn(r, x[1]) = t}
  OBVIOUS
<1>6. PICK inCell : inCell = {u \in UEs : q.snap[u] # None /\ heap[q.snap[u]].tgt = t}
  OBVIOUS
<1>7. PICK g : g = [u \in inCell |-> f[u]]
  OBVIOUS
<1>8. g \in Bijection(inCell, rows)
  <2>1. /\ f \in [Counted(q) -> Copies(q.out)]
        /\ \A a, b \in Counted(q) : f[a] = f[b] => a = b
        /\ \A x \in Copies(q.out) : \E a \in Counted(q) : f[a] = x
    BY <1>3, BijectionFacts
  <2>2. \A u \in Counted(q) : u \in inCell <=> f[u] \in rows
    BY <1>3, <1>4, <1>5, <1>6, <2>1
  <2>3. inCell \subseteq Counted(q)
    BY <1>4, <1>6
  <2>4. g \in [inCell -> rows]
    BY <1>7, <2>2, <2>3
  <2>5. \A a, b \in inCell : g[a] = g[b] => a = b
    BY <1>7, <2>1, <2>3
  <2>6. \A x \in rows : \E a \in inCell : g[a] = x
    BY <1>5, <1>7, <2>1, <2>2
  <2> QED
    BY <2>4, <2>5, <2>6, BijectionFacts
<1>9. IsFiniteSet(inCell)
  <2>1. PICK R : R = Received /\ IsFiniteSet(R)
    BY DEF StormInv
  <2>2. PICK h : h = [u \in inCell |-> q.snap[u]]
    OBVIOUS
  <2>3. \A u \in inCell : /\ u \in UEs /\ q.snap[u] \in Calls /\ heap[q.snap[u]] # None
                          /\ heap[q.snap[u]].ue = u
    BY <1>1, <1>2, <1>6 DEF PictureInv, Picture
  <2>4. \A i \in Calls : heap[i] # None => i \in R
    BY <2>1, UnaskedHasNone DEF Received
  <2>5. h \in [inCell -> R]
    BY <2>2, <2>3, <2>4
  <2>6. \A a, b \in inCell : h[a] = h[b] => a = b
    BY <2>2, <2>3
  <2>7. h \in Injection(inCell, R)
    BY <2>5, <2>6 DEF Injection, IsInjective
  <2> QED
    BY <2>1, <2>7, FS_Injection
<1>10. Cardinality(rows) = Cardinality(inCell)
  BY <1>8, <1>9, FS_Bijection DEF ExistsBijection
<1> QED
  BY <1>1, <1>5, <1>6, <1>10

(***************************************************************************)
(* GetUes and GetCells count every UE of the store once, under the cell it *)
(* had when Entries took the mutex, whatever the loop does meanwhile.      *)
(***************************************************************************)
THEOREM Snapshots == NorthSpec => []AnswersAreSnapshots
<1>1. NorthSpec => []StormInv
  BY LoopUndisturbed, InitInv, NextInv, InitStorm, NextStorm, PTL DEF Spec
<1> QED
  BY <1>1, NorthLoopInv, NorthAlways, PictureInit, NextPicture, PictureComplete, PTL
  DEF NorthSpec

(***************************************************************************)
(* Beside clients, too, nothing is forgotten and there is no storm.        *)
(***************************************************************************)
THEOREM LoopSafeUnderLoad == NorthStartedSpec => [](NoForgottenRequest /\ NoControlStorm)
<1>1. IInv => NoForgottenRequest
  BY DEF IInv
<1> QED
  BY <1>1, NorthStep, StartedInv, NextInv, InitStorm, NextStorm, RightsBound, PTL
  DEF NorthStartedSpec, NorthStarted
=============================================================================
