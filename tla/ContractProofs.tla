--------------------------- MODULE ContractProofs ---------------------------
(***************************************************************************)
(* Proofs that the handover loop implements the contract Handover, and     *)
(* that it does not send more messages than it was asked for, for any      *)
(* number of UEs, cells, nodes, connections and indications.               *)
(***************************************************************************)
EXTENDS Contract, MHOProofs, FiniteSetTheorems

Working(i) == \E c \in Conns : mon[c].pc = "apply" /\ mon[c].call = i

\* The phase of a request, case by case.
LEMMA PhaseCases ==
  ASSUME NEW i \in Calls
  PROVE  /\ heap[i] # None /\ heap[i].state = "Done" => PhaseOf(i) = "done"
         /\ heap[i] # None /\ heap[i].state # "Done" => PhaseOf(i) = "open"
         /\ heap[i] = None /\ inds[i] = None => PhaseOf(i) = "unasked"
         /\ heap[i] = None /\ inds[i] # None /\ Working(i) => PhaseOf(i) = "asked"
         /\ heap[i] = None /\ inds[i] # None /\ ~Working(i) => PhaseOf(i) = "dropped"
  BY DEF PhaseOf, Working

\* The phase is a function of what is known of the request.
LEMMA PhaseKept ==
  ASSUME NEW i \in Calls, heap'[i] = heap[i], inds'[i] = inds[i], Working(i)' = Working(i)
  PROVE  PhaseOf(i)' = PhaseOf(i)
<1>1. /\ (\E c \in Conns : mon'[c].pc = "apply" /\ mon'[c].call = i)
         <=> (\E c \in Conns : mon[c].pc = "apply" /\ mon[c].call = i)
  BY DEF Working
<1> QED
  BY <1>1 DEF PhaseOf

(***************************************************************************)
(* A step that leaves the objects, the indications and the monitors at     *)
(* work as they are is a stutter of the contract.                          *)
(***************************************************************************)
LEMMA QuietStep ==
  ASSUME UNCHANGED <<heap, inds, controls>>,
         \A c \in Conns : mon'[c] = mon[c] \/ (mon[c].pc # "apply" /\ mon'[c].pc # "apply")
  PROVE  UNCHANGED H!handoverVars
<1>1. \A i \in Calls : Working(i)' = Working(i)
  BY DEF Working
<1>2. \A i \in Calls : PhaseOf(i)' = PhaseOf(i)
  BY <1>1, PhaseKept
<1> QED
  BY <1>2 DEF H!handoverVars

\* Nobody has a value before they have asked.
LEMMA UnaskedHasNone ==
  ASSUME IInv, NEW i \in Calls, inds[i] = None
  PROVE  heap[i] = None
<1> SUFFICES ASSUME heap[i] # None PROVE FALSE
  OBVIOUS
<1>1. heap[i] \in MetricValue
  BY DEF IInv, TypeOK, StoreTypeOK
<1>2. inds[i] = [ue |-> heap[i].ue, tgt |-> heap[i].tgt, node |-> heap[i].node]
  BY DEF IInv, HeapInv
<1>3. heap[i].ue \in UEs /\ heap[i].tgt \in Cells /\ heap[i].node \in Nodes
  BY <1>1 DEF MetricValue
<1> QED
  BY <1>2, <1>3, IndicationNotNone

\* The beginning: nobody has asked.
LEMMA ContractInit == Init => H!HandoverInit
<1> SUFFICES ASSUME Init PROVE H!HandoverInit
  OBVIOUS
<1>1. inds = [i \in Calls |-> None] /\ heap = [i \in Calls |-> None]
  BY DEF Init, StoreInit
<1>2. \A i \in Calls : PhaseOf(i) = "unasked"
  BY <1>1, PhaseCases
<1>3. BagToSet(controls) = {}
  BY EmptyBagFacts DEF Init
<1> QED
  BY <1>1, <1>2, <1>3 DEF H!HandoverInit

\* RecvIndication is a new request.
LEMMA RecvAsks ==
  ASSUME IInv, NEW c \in Conns, RecvIndication(c), UNCHANGED southboundVars
  PROVE  H!HandoverNext
<1>1. PICK i \in Calls, u \in UEs, t \in Cells :
        /\ inds[i] = None
        /\ inds' = [inds EXCEPT ![i] = [ue |-> u, tgt |-> t, node |-> NodeOf[c]]]
        /\ mon' = [mon EXCEPT ![c] = [pc |-> "apply", call |-> i, val |-> Get(u)]]
  BY DEF RecvIndication
<1>2. /\ mon[c].pc = "recv" /\ heap' = heap /\ controls' = controls
      /\ NodeOf[c] \in Nodes /\ heap[i] = None
  BY <1>1, ConnsAssumption, UnaskedHasNone DEF RecvIndication, storeVars, southboundVars
<1>3. /\ mon'[c].pc = "apply" /\ mon'[c].call = i
      /\ \A d \in Conns \ {c} : mon'[d] = mon[d]
      /\ inds'[i] # None /\ \A j \in Calls \ {i} : inds'[j] = inds[j]
  BY <1>1, <1>2, IndicationNotNone DEF IInv, TypeOK, MonitorTypeOK
<1>4. PhaseOf(i) = "unasked"
  BY <1>1, <1>2, PhaseCases
<1>5. PhaseOf(i)' = "asked"
  BY <1>2, <1>3 DEF PhaseOf
<1>6. \A j \in Calls \ {i} : PhaseOf(j)' = PhaseOf(j)
  <2>1. \A j \in Calls \ {i} : Working(j)' = Working(j)
    BY <1>2, <1>3 DEF Working
  <2> QED
    BY <1>2, <1>3, <2>1, PhaseKept
<1>7. H!Ask(i)
  BY <1>1, <1>2, <1>4, <1>5, <1>6 DEF H!Ask
<1> QED
  BY <1>7 DEF H!HandoverNext

\* ApplyIndication adopts the request or drops it.
LEMMA ApplyDecides ==
  ASSUME IInv, NEW c \in Conns, ApplyIndication(c), UNCHANGED southboundVars
  PROVE  H!HandoverNext
<1>1. PICK i \in Calls :
        /\ mon[c].pc = "apply" /\ mon[c].call = i /\ inds[i] # None /\ heap[i] = None
        /\ \A d \in Conns \ {c} : mon[d].pc = "apply" => mon[d].call # i
  BY DEF ApplyIndication, IInv, MonInv
<1>2. /\ mon' = [mon EXCEPT ![c] = MonAt("recv")]
      /\ UNCHANGED <<inds, controls>>
      /\ \/ heap' = heap
         \/ heap' = [heap EXCEPT ![i] = [ue |-> inds[i].ue, tgt |-> inds[i].tgt,
                                         state |-> "StateCreated", node |-> inds[i].node]]
  BY <1>1 DEF ApplyIndication, storeVars, southboundVars
<1>3. mon'[c].pc = "recv" /\ \A d \in Conns \ {c} : mon'[d] = mon[d]
  BY <1>2 DEF IInv, TypeOK, MonitorTypeOK, MonAt
<1>4. ~Working(i)' /\ \A j \in Calls \ {i} : Working(j)' = Working(j)
  BY <1>1, <1>3 DEF Working
<1>5. \A j \in Calls \ {i} : heap'[j] = heap[j]
  BY <1>1, <1>2 DEF IInv, TypeOK, StoreTypeOK
<1>6. PhaseOf(i) = "asked"
  BY <1>1, PhaseCases DEF Working
<1>7. \A j \in Calls \ {i} : PhaseOf(j)' = PhaseOf(j)
  BY <1>2, <1>4, <1>5, PhaseKept
<1>8. PhaseOf(i)' \in {"open", "dropped"}
  <2>1. CASE heap' = heap
    BY <1>1, <1>2, <1>4, <2>1 DEF PhaseOf, Working
  <2>2. CASE heap' = [heap EXCEPT ![i] = [ue |-> inds[i].ue, tgt |-> inds[i].tgt,
                                          state |-> "StateCreated", node |-> inds[i].node]]
    <3>1. inds[i] \in Indication
      BY <1>1 DEF IInv, TypeOK, MonitorTypeOK
    <3>2. heap'[i] \in MetricValue /\ heap'[i].state = "StateCreated"
      BY <1>1, <2>2, <3>1
      DEF IInv, TypeOK, StoreTypeOK, MetricValue, Indication, MHOState
    <3>3. heap'[i] # None
      BY <3>2, StoreAssumption
    <3> QED
      BY <3>2, <3>3 DEF PhaseOf
  <2> QED
    BY <1>2, <2>1, <2>2
<1>9. H!Decide(i)
  BY <1>1, <1>2, <1>6, <1>7, <1>8 DEF H!Decide
<1> QED
  BY <1>1, <1>9 DEF H!HandoverNext

\* What an in-place write of State does to the phases.
LEMMA WriteState ==
  ASSUME IInv, NEW i \in Calls, heap[i] # None, NEW st \in MHOState,
         heap' = [heap EXCEPT ![i].state = st], UNCHANGED <<inds, mon>>
  PROVE  /\ PhaseOf(i)' = IF st = "Done" THEN "done" ELSE "open"
         /\ \A j \in Calls \ {i} : PhaseOf(j)' = PhaseOf(j)
<1>1. heap'[i] \in MetricValue /\ heap'[i].state = st
  BY DEF IInv, TypeOK, StoreTypeOK, MetricValue
<1>2. heap'[i] # None
  BY <1>1, StoreAssumption
<1>3. \A j \in Calls \ {i} : heap'[j] = heap[j] /\ Working(j)' = Working(j)
  BY DEF IInv, TypeOK, StoreTypeOK, Working
<1>4. \A j \in Calls \ {i} : PhaseOf(j)' = PhaseOf(j)
  BY <1>3, PhaseKept
<1> QED
  BY <1>1, <1>2, <1>4 DEF PhaseOf

\* Approve reopens a request that is done, and leaves any other open.
LEMMA ApproveReopens ==
  ASSUME IInv, Approve, UNCHANGED <<monitorVars, southboundVars>>
  PROVE  [H!HandoverNext]_H!handoverVars
<1>1. PICK i \in Calls : ctl.val = i /\ heap[i] # None
  BY DEF Approve, IInv, CtlInv
<1>2. heap' = [heap EXCEPT ![i].state = "Approved"] /\ UNCHANGED <<inds, mon, controls>>
  BY <1>1 DEF Approve, monitorVars, southboundVars
<1>3. "Approved" \in MHOState
  BY DEF MHOState
<1>4. PhaseOf(i)' = "open" /\ \A j \in Calls \ {i} : PhaseOf(j)' = PhaseOf(j)
  BY <1>1, <1>2, <1>3, WriteState
<1>5. CASE heap[i].state = "Done"
  <2>1. PhaseOf(i) = "done"
    BY <1>1, <1>5, PhaseCases
  <2>2. H!Reopen(i)
    BY <1>1, <1>2, <1>4, <2>1 DEF H!Reopen
  <2> QED
    BY <1>1, <2>2 DEF H!HandoverNext
<1>6. CASE heap[i].state # "Done"
  <2>1. PhaseOf(i) = "open"
    BY <1>1, <1>6, PhaseCases
  <2> QED
    BY <1>1, <1>2, <1>4, <2>1 DEF H!handoverVars
<1> QED
  BY <1>5, <1>6

\* MarkDone settles a request whose message was attempted.
LEMMA MarkDoneSettles ==
  ASSUME IInv, NEW c \in Conns, MarkDone(c)
  PROVE  H!HandoverNext
<1>1. PICK i \in Calls :
        wat[c].val = i /\ heap[i] # None /\ \E m \in BagToSet(controls) : m.call = i
  BY DEF MarkDone, IInv, WatInv, Attempted
<1>2. heap' = [heap EXCEPT ![i].state = "Done"] /\ UNCHANGED <<inds, mon, controls>>
  BY <1>1 DEF MarkDone, monitorVars
<1>3. "Done" \in MHOState
  BY DEF MHOState
<1>4. PhaseOf(i)' = "done" /\ \A j \in Calls \ {i} : PhaseOf(j)' = PhaseOf(j)
  BY <1>1, <1>2, <1>3, WriteState
<1>5. PhaseOf(i) \in {"open", "done"}
  BY <1>1, PhaseCases
<1>6. H!Settle(i)
  BY <1>1, <1>2, <1>4, <1>5 DEF H!Settle
<1> QED
  BY <1>1, <1>6 DEF H!HandoverNext

\* SendControl sends what was asked for to the node that asked.
LEMMA SendControls ==
  ASSUME IInv, NEW c \in Conns, SendControl(c)
  PROVE  H!HandoverNext
<1>1. PICK i \in Calls : wat[c].val = i /\ heap[i] # None /\ heap[i].node = NodeOf[c]
  BY DEF SendControl, IInv, WatInv
<1>2. PICK o \in ControlOutcomes :
        controls' = BX!BagAdd(controls, [to |-> NodeOf[c], ue |-> heap[i].ue,
                                         tgt |-> heap[i].tgt, call |-> i, outcome |-> o])
  BY <1>1 DEF SendControl
<1>3. UNCHANGED <<heap, inds, mon>>
  BY DEF SendControl, storeVars, monitorVars
<1>4. inds[i] = [ue |-> heap[i].ue, tgt |-> heap[i].tgt, node |-> heap[i].node]
  BY <1>1 DEF IInv, HeapInv
<1>5. BagToSet(controls') = BagToSet(controls)
        \cup {[to |-> inds[i].node, ue |-> inds[i].ue, tgt |-> inds[i].tgt,
               call |-> i, outcome |-> o]}
  BY <1>1, <1>2, <1>4, BagAddFacts DEF IInv, TypeOK, SouthboundTypeOK
<1>6. \A j \in Calls : PhaseOf(j)' = PhaseOf(j)
  BY <1>3 DEF PhaseOf
<1>7. PhaseOf(i) \in {"open", "done"}
  BY <1>1, PhaseCases
<1>8. H!Control(i)
  BY <1>1, <1>3, <1>5, <1>6, <1>7, OutcomeAssumption DEF H!Control
<1> QED
  BY <1>1, <1>8 DEF H!HandoverNext

\* A crash drops what was asked.
LEMMA CrashRestarts ==
  ASSUME IInv, Crash
  PROVE  H!HandoverNext
<1>1. /\ heap' = [i \in Calls |-> None] /\ mon' = [c \in Conns |-> MonAt("off")]
      /\ UNCHANGED <<inds, controls>>
  BY DEF Crash
<1>2. \A i \in Calls : ~Working(i)'
  BY <1>1 DEF Working, MonAt
<1>3. \A i \in Calls : PhaseOf(i)' = IF inds[i] = None THEN "unasked" ELSE "dropped"
  BY <1>1, <1>2 DEF PhaseOf, Working
<1>4. \A i \in Calls : PhaseOf(i) = "unasked" <=> inds[i] = None
  <2> SUFFICES ASSUME NEW i \in Calls PROVE PhaseOf(i) = "unasked" <=> inds[i] = None
    OBVIOUS
  <2>1. inds[i] = None => heap[i] = None
    BY UnaskedHasNone
  <2> QED
    BY <2>1, PhaseCases
<1>5. H!Restart
  BY <1>1, <1>3, <1>4 DEF H!Restart
<1> QED
  BY <1>5 DEF H!HandoverNext

-----------------------------------------------------------------------------
\* A connection gets its monitor and its watcher together.
OffInv == \A c \in Conns : wat[c].pc = "off" => mon[c].pc = "off"

\* No step takes the one without the other.
LEMMA OffNext == IInv /\ OffInv /\ [Next]_vars => OffInv'
<1> SUFFICES ASSUME IInv, OffInv, [Next]_vars PROVE OffInv'
  OBVIOUS
<1> USE DEF storeVars, monitorVars, southboundVars
<1>1. /\ mon \in [Conns -> [pc : MonPC, call : Calls \cup {None}, val : Calls \cup {None}]]
      /\ wat \in [Conns -> [pc : WatPC, key : UEs \cup {None}, val : Calls \cup {None}]]
  BY DEF IInv, TypeOK, MonitorTypeOK, SouthboundTypeOK
<1>2. ASSUME NEW c \in Conns, MonitorNext(c) PROVE OffInv'
  <2>1. wat' = wat /\ mon[c].pc # "off" /\ \A d \in Conns \ {c} : mon'[d] = mon[d]
    BY <1>1, <1>2 DEF MonitorNext, RecvIndication, ApplyIndication, RejectIndication
  <2> QED
    BY <2>1 DEF OffInv
<1>3. ASSUME NEW c \in Conns, SouthboundNext(c) PROVE OffInv'
  <2>1. CASE Connect(c)
    BY <1>1, <2>1 DEF Connect, WatAt, OffInv
  <2>2. CASE CreateSubscription(c) \/ FailSubscription(c)
    BY <1>1, <2>2 DEF CreateSubscription, FailSubscription, StartMonitor, OffInv
  <2>3. CASE WatchMHOChanges(c) \/ PutDone(c)
    <3>1. mon' = mon /\ wat' = [wat EXCEPT ![c] = WatAt("idle")]
      BY <2>3 DEF WatchMHOChanges, PutDone
    <3> QED
      BY <1>1, <3>1 DEF WatAt, OffInv
  <2>4. CASE SendControl(c) \/ MarkDone(c)
    BY <1>1, <2>4 DEF SendControl, MarkDone, OffInv
  <2>5. CASE \E s \in BagToSet(sends) : ReceiveChange(c, s)
    BY <1>1, <2>5 DEF ReceiveChange, OffInv
  <2> QED
    BY <1>3, <2>1, <2>2, <2>3, <2>4, <2>5 DEF SouthboundNext
<1>4. CASE ControllerNext
  BY <1>4 DEF ControllerNext, OffInv
<1>5. CASE Crash
  BY <1>5 DEF Crash, MonAt, OffInv
<1>6. CASE UNCHANGED vars
  BY <1>6 DEF vars, OffInv
<1> QED
  BY <1>2, <1>3, <1>4, <1>5, <1>6 DEF Next, Idle

\* Every step of the loop is a step of the contract or changes nothing in it.
LEMMA ContractStep == IInv /\ OffInv /\ [Next]_vars => [H!HandoverNext]_H!handoverVars
<1> SUFFICES ASSUME IInv, OffInv, [Next]_vars PROVE [H!HandoverNext]_H!handoverVars
  OBVIOUS
<1> USE DEF storeVars, monitorVars, southboundVars
<1>1. ASSUME NEW c \in Conns, MonitorNext(c) PROVE [H!HandoverNext]_H!handoverVars
  <2>1. CASE RecvIndication(c)
    BY <1>1, <2>1, RecvAsks DEF MonitorNext
  <2>2. CASE ApplyIndication(c)
    BY <1>1, <2>2, ApplyDecides DEF MonitorNext
  <2>3. CASE RejectIndication(c)
    <3>1. UNCHANGED <<heap, inds, controls>>
      BY <1>1, <2>3 DEF MonitorNext, RejectIndication
    <3>2. \A d \in Conns : mon'[d] = mon[d] \/ (mon[d].pc # "apply" /\ mon'[d].pc # "apply")
      BY <2>3 DEF RejectIndication, MonAt, IInv, TypeOK, MonitorTypeOK
    <3> QED
      BY <3>1, <3>2, QuietStep
  <2> QED
    BY <1>1, <2>1, <2>2, <2>3 DEF MonitorNext
<1>2. ASSUME ControllerNext PROVE [H!HandoverNext]_H!handoverVars
  <2>1. CASE Approve
    BY <1>2, <2>1, ApproveReopens DEF ControllerNext
  <2>2. CASE ~Approve
    <3>1. UNCHANGED <<heap, inds, controls, mon>>
      BY <1>2, <2>2 DEF ControllerNext, WatchStore, Watch, AddWatcher, PutApproved, ReceiveEvent
    <3> QED
      BY <3>1, QuietStep
  <2> QED
    BY <2>1, <2>2
<1>3. ASSUME NEW c \in Conns, SouthboundNext(c) PROVE [H!HandoverNext]_H!handoverVars
  <2>1. CASE Connect(c) \/ CreateSubscription(c) \/ FailSubscription(c)
    <3>1. UNCHANGED <<heap, inds, controls>>
      BY <2>1 DEF Connect, CreateSubscription, FailSubscription, StartMonitor
    <3>2. \A d \in Conns \ {c} : mon'[d] = mon[d]
      BY <2>1 DEF Connect, CreateSubscription, FailSubscription, StartMonitor,
         IInv, TypeOK, MonitorTypeOK
    <3>3. mon'[c].pc # "apply"
      BY <2>1 DEF Connect, CreateSubscription, FailSubscription, StartMonitor, MonAt,
         IInv, TypeOK, MonitorTypeOK
    <3>4. mon[c].pc # "apply"
      BY <2>1 DEF OffInv, Connect, CreateSubscription, FailSubscription
    <3> QED
      BY <3>1, <3>2, <3>3, <3>4, QuietStep
  <2>2. CASE SendControl(c)
    BY <2>2, SendControls
  <2>3. CASE MarkDone(c)
    BY <2>3, MarkDoneSettles
  <2>4. CASE WatchMHOChanges(c) \/ PutDone(c) \/ \E s \in BagToSet(sends) : ReceiveChange(c, s)
    <3>1. UNCHANGED <<heap, inds, controls, mon>>
      BY <2>4 DEF WatchMHOChanges, Watch, AddWatcher, PutDone, ReceiveChange
    <3> QED
      BY <3>1, QuietStep
  <2> QED
    BY <1>3, <2>1, <2>2, <2>3, <2>4 DEF SouthboundNext
<1>4. CASE Crash
  BY <1>4, CrashRestarts
<1>5. CASE UNCHANGED vars
  BY <1>5, QuietStep DEF vars
<1> QED
  BY <1>1, <1>2, <1>3, <1>4, <1>5 DEF Next, Idle

(***************************************************************************)
(* The handover loop implements the contract: each handover request of an  *)
(* E2 node goes through the phases the contract allows, across restarts    *)
(* and stale write-backs of the store's values.                            *)
(***************************************************************************)
THEOREM ContractKept == Spec => KeepsContract
<1>1. Init => OffInv
  BY DEF Init, MonitorInit, SouthboundInit, MonAt, OffInv
<1> QED
  BY <1>1, InitInv, NextInv, OffNext, ContractInit, ContractStep, PTL
  DEF Spec, KeepsContract, H!HandoverSpec

-----------------------------------------------------------------------------
(***************************************************************************)
(* Why there is no control storm: an indication comes with one right to    *)
(* send a control message for every connection.  The rights pass from the  *)
(* monitor to the event that announces the request, to the controller, to  *)
(* the event that announces the approval, and from there one by one to the *)
(* watchers and to the messages.  own says who holds each right; no right  *)
(* is ever held twice.                                                     *)
(***************************************************************************)
Asks(i, u) == inds[i] # None /\ inds[i].ue = u

\* The holders of rights.
TheMonitor(c) == <<"monitor", c, 0>>
TheEvent(s, k) == <<"event", s, k>>
TheController == <<"controller", Ctl, 0>>
TheWatcher(c) == <<"watcher", c, 0>>
TheMessage(m, k) == <<"message", m, k>>
Nobody == <<"nobody", Ctl, 0>>

\* Until the controller has heard of it, an event carries all rights.
Carries(s) == IF Ctl \in s.todo THEN Conns ELSE s.todo

MonitorHas(own, c) == \A d \in Conns : own[<<mon[c].call, d>>] = TheMonitor(c)
EventHas(own, s, k) ==
  \E i \in Calls : Asks(i, s.ev.key) /\ \A d \in Carries(s) : own[<<i, d>>] = TheEvent(s, k)
ControllerHas(own) ==
  \E i \in Calls : Asks(i, ctl.key) /\ \A d \in Conns : own[<<i, d>>] = TheController
WatcherHas(own, c) ==
  \E i \in Calls : Asks(i, wat[c].key) /\ own[<<i, c>>] = TheWatcher(c)
MessageHas(own, m, k) ==
  \E i \in Calls, c \in Conns :
    Asks(i, m.ue) /\ NodeOf[c] = m.to /\ own[<<i, c>>] = TheMessage(m, k)

RightsInv(own) ==
  /\ \A c \in Conns : mon[c].pc = "apply" => MonitorHas(own, c)
  /\ \A s \in BagToSet(sends) : \A k \in 1 .. sends[s] : EventHas(own, s, k)
  /\ ctl.pc \in {"write", "put"} => ControllerHas(own)
  /\ \A c \in Conns : wat[c].pc = "control" => WatcherHas(own, c)
  /\ \A m \in BagToSet(controls) : \A k \in 1 .. controls[m] : MessageHas(own, m, k)

\* An event for the controller is for nobody else.
TodoInv == \A s \in BagToSet(sends) : Ctl \in s.todo => s.todo = {Ctl}

Received == {i \in Calls : inds[i] # None}

StormInv == TodoInv /\ IsFiniteSet(Received) /\ \E own : RightsInv(own)

-----------------------------------------------------------------------------
(***************************************************************************)
(* own2 is own but for rights of g, and of indications not yet received.   *)
(***************************************************************************)
Moved(own, own2, g) ==
  \A i \in Calls, d \in Conns :
    inds[i] # None => own2[<<i, d>>] = own[<<i, d>>] \/ own[<<i, d>>] = g

IndsKept == \A i \in Calls : inds[i] # None => inds'[i] = inds[i]

\* Everyone but g keeps what they have.
LEMMA OthersKeep ==
  ASSUME NEW own, NEW own2, NEW g, Moved(own, own2, g), IndsKept
  PROVE  /\ \A c \in Conns : /\ MonitorHas(own, c) /\ g # TheMonitor(c)
                             /\ mon'[c] = mon[c] /\ mon[c].call \in Calls
                             /\ inds[mon[c].call] # None
                             => MonitorHas(own2, c)'
         /\ \A s \in SendRoutine, k \in Nat :
              EventHas(own, s, k) /\ g # TheEvent(s, k) => EventHas(own2, s, k)'
         /\ ControllerHas(own) /\ g # TheController /\ ctl'.key = ctl.key
              => ControllerHas(own2)'
         /\ \A c \in Conns : /\ WatcherHas(own, c) /\ g # TheWatcher(c)
                             /\ wat'[c] = wat[c]
                             => WatcherHas(own2, c)'
         /\ \A m, k : MessageHas(own, m, k) /\ g # TheMessage(m, k) => MessageHas(own2, m, k)'
<1>1. \A u : \A i \in Calls : Asks(i, u) => Asks(i, u)'
  BY DEF Asks, IndsKept
<1>2. \A u : \A i \in Calls : Asks(i, u) => inds[i] # None
  BY DEF Asks
<1>3. \A s \in SendRoutine : Carries(s) \subseteq Conns
  BY DEF Carries, SendRoutine, WatcherIDs
<1>4. \A c \in Conns : /\ MonitorHas(own, c) /\ g # TheMonitor(c)
                       /\ mon'[c] = mon[c] /\ mon[c].call \in Calls
                       /\ inds[mon[c].call] # None
                       => MonitorHas(own2, c)'
  BY DEF MonitorHas, Moved, TheMonitor
<1>5. ASSUME NEW s \in SendRoutine, NEW k \in Nat, EventHas(own, s, k), g # TheEvent(s, k)
      PROVE  EventHas(own2, s, k)'
  <2>1. PICK i \in Calls :
          Asks(i, s.ev.key) /\ \A d \in Carries(s) : own[<<i, d>>] = TheEvent(s, k)
    BY <1>5 DEF EventHas
  <2>2. \A d \in Carries(s) : own2[<<i, d>>] = TheEvent(s, k)
    BY <2>1, <1>2, <1>3, <1>5 DEF Moved
  <2> QED
    BY <2>1, <2>2, <1>1 DEF EventHas, Carries, TheEvent
<1>6. ControllerHas(own) /\ g # TheController /\ ctl'.key = ctl.key => ControllerHas(own2)'
  BY <1>1, <1>2 DEF ControllerHas, Moved, TheController
<1>7. \A c \in Conns : /\ WatcherHas(own, c) /\ g # TheWatcher(c)
                       /\ wat'[c] = wat[c]
                       => WatcherHas(own2, c)'
  BY <1>1, <1>2 DEF WatcherHas, Moved, TheWatcher
<1>8. ASSUME NEW m, NEW k, MessageHas(own, m, k), g # TheMessage(m, k)
      PROVE  MessageHas(own2, m, k)'
  BY <1>1, <1>2, <1>8 DEF MessageHas, Moved, TheMessage
<1> QED
  BY <1>4, <1>5, <1>6, <1>7, <1>8

\* The rights of indication j for the connections in D go to h.
Give(own, j, D, h) == [r \in Calls \X Conns |-> IF r[1] = j /\ r[2] \in D THEN h ELSE own[r]]

\* What the invariant of the loop says of those who hold rights.
LEMMA HolderFacts ==
  ASSUME IInv
  PROVE  /\ \A c \in Conns : mon[c].pc = "apply" =>
              mon[c].call \in Calls /\ inds[mon[c].call] # None
         /\ IsABag(sends) /\ IsABag(controls)
         /\ \A s \in BagToSet(sends) : s \in SendRoutine /\ sends[s] \in Nat
<1>1. \A c \in Conns : mon[c].pc = "apply" =>
        mon[c].call \in Calls /\ inds[mon[c].call] # None
  BY DEF IInv, MonInv
<1>2. /\ IsABag(sends) /\ IsABag(controls)
      /\ \A s \in BagToSet(sends) : s \in SendRoutine
  BY DEF IInv, TypeOK, StoreTypeOK, SouthboundTypeOK
<1> QED
  BY <1>1, <1>2 DEF IsABag, BagToSet

(***************************************************************************)
(* The goroutines that go on holding rights in a step.                     *)
(***************************************************************************)
Stay(g) ==
  /\ \A c \in Conns : mon'[c].pc = "apply" => mon'[c] = mon[c] /\ g # TheMonitor(c)
  /\ ctl'.pc \in {"write", "put"} =>
       ctl.pc \in {"write", "put"} /\ ctl'.key = ctl.key /\ g # TheController
  /\ \A c \in Conns : wat'[c].pc = "control" => wat'[c] = wat[c] /\ g # TheWatcher(c)

\* They keep their rights.
LEMMA StayKeep ==
  ASSUME IInv, NEW own, NEW own2, NEW g, RightsInv(own), Moved(own, own2, g), IndsKept, Stay(g)
  PROVE  /\ \A c \in Conns : mon'[c].pc = "apply" => MonitorHas(own2, c)'
         /\ ctl'.pc \in {"write", "put"} => ControllerHas(own2)'
         /\ \A c \in Conns : wat'[c].pc = "control" => WatcherHas(own2, c)'
<1>1. \A c \in Conns : mon'[c].pc = "apply" => MonitorHas(own2, c)'
  BY HolderFacts, OthersKeep DEF RightsInv, Stay
<1>2. ctl'.pc \in {"write", "put"} => ControllerHas(own2)'
  BY OthersKeep DEF RightsInv, Stay
<1>3. \A c \in Conns : wat'[c].pc = "control" => WatcherHas(own2, c)'
  BY OthersKeep DEF RightsInv, Stay
<1> QED
  BY <1>1, <1>2, <1>3

\* The events on their way keep theirs, and so do the messages.
LEMMA EventsKeep ==
  ASSUME IInv, NEW own, NEW own2, NEW g, RightsInv(own), Moved(own, own2, g), IndsKept,
         \A s, k : g # TheEvent(s, k)
  PROVE  \A s \in BagToSet(sends) : \A k \in 1 .. sends[s] : EventHas(own2, s, k)'
<1> SUFFICES ASSUME NEW s \in BagToSet(sends), NEW k \in 1 .. sends[s]
             PROVE  EventHas(own2, s, k)'
  OBVIOUS
<1>1. EventHas(own, s, k) /\ s \in SendRoutine /\ k \in Nat
  BY HolderFacts DEF RightsInv
<1> QED
  BY <1>1, OthersKeep

\* So it is with a control request that has been sent.
LEMMA MessagesKeep ==
  ASSUME NEW own, NEW own2, NEW g, RightsInv(own), Moved(own, own2, g), IndsKept,
         \A m, k : g # TheMessage(m, k)
  PROVE  \A m \in BagToSet(controls) : \A k \in 1 .. controls[m] : MessageHas(own2, m, k)'
  BY OthersKeep DEF RightsInv

\* A step in which nothing is sent and nobody new holds a right.
LEMMA QuietStorm ==
  ASSUME IInv, StormInv, UNCHANGED <<inds, sends, controls>>, Stay(Nobody)
  PROVE  StormInv'
<1>1. PICK own : RightsInv(own)
  BY DEF StormInv
<1>2. Moved(own, own, Nobody) /\ IndsKept
  BY DEF Moved, IndsKept
<1>3. (\A s, k : Nobody # TheEvent(s, k)) /\ (\A m, k : Nobody # TheMessage(m, k))
  BY DEF Nobody, TheEvent, TheMessage
<1>4. /\ \A s \in BagToSet(sends) : \A k \in 1 .. sends[s] : EventHas(own, s, k)'
      /\ \A m \in BagToSet(controls) : \A k \in 1 .. controls[m] : MessageHas(own, m, k)'
  BY <1>1, <1>2, <1>3, EventsKeep, MessagesKeep
<1>5. RightsInv(own)'
  BY <1>1, <1>2, <1>4, StayKeep DEF RightsInv
<1> QED
  BY <1>5 DEF StormInv, TodoInv, Received

\* Send starts one goroutine, for watchers that handle the event, or none.
LEMMA SendStarts ==
  ASSUME watchers \in SUBSET WatcherIDs, NEW e \in Event, Send(e)
  PROVE  \/ sends' = sends
         \/ \E s \in SendRoutine : /\ s.ev = e /\ s.todo # {}
                                   /\ \A id \in s.todo : Handles(id, e)
                                   /\ sends' = BX!BagAdd(sends, s)
<1>1. PICK late \in SUBSET (WatcherIDs \ watchers) :
        LET todo == {id \in watchers \cup late : Handles(id, e)} IN
        sends' = IF todo = {} THEN sends
                 ELSE BX!BagAdd(sends, [ev |-> e, todo |-> todo])
  BY DEF Send
<1> DEFINE todo == {id \in watchers \cup late : Handles(id, e)}
           s0 == [ev |-> e, todo |-> todo]
<1>2. s0 \in SendRoutine /\ s0.ev = e /\ s0.todo = todo
  BY DEF SendRoutine
<1>3. CASE todo # {}
  <2>1. sends' = BX!BagAdd(sends, s0)
    BY <1>1, <1>3
  <2>2. \A id \in todo : Handles(id, e)
    OBVIOUS
  <2> HIDE DEF todo, s0
  <2> QED
    BY <1>2, <1>3, <2>1, <2>2
<1> QED
  BY <1>1, <1>3

\* Nobody handles the event of a Put of Done.
LEMMA DoneUnheard ==
  ASSUME watchers \in SUBSET WatcherIDs, NEW e \in Event, e.state = "Done", Send(e)
  PROVE  sends' = sends
<1>1. \A id : ~Handles(id, e)
  BY DEF Handles, CtlHandles, ConnHandles
<1> QED
  BY <1>1, SendStarts

(***************************************************************************)
(* g puts a value of the UE of indication i, which all rights of i go with.*)
(***************************************************************************)
LEMMA AnnounceStorm ==
  ASSUME IInv, StormInv, NEW own, RightsInv(own), NEW g, NEW e \in Event, Send(e),
         e.state \in {"StateCreated", "Approved"},
         NEW i \in Calls, Asks(i, e.key), \A d \in Conns : own[<<i, d>>] = g,
         \A s, k : g # TheEvent(s, k), \A m, k : g # TheMessage(m, k),
         UNCHANGED <<inds, controls>>, Stay(g)
  PROVE  StormInv'
<1>1. watchers \in SUBSET WatcherIDs /\ IsABag(sends) /\ Ctl \notin Conns
  BY StoreAssumption DEF IInv, TypeOK, StoreTypeOK
<1>2. PICK s0 \in SendRoutine, n \in Nat :
        /\ s0.ev = e /\ (Ctl \in s0.todo => s0.todo = {Ctl})
        /\ \A s \in BagToSet(sends') : s = s0 \/ s \in BagToSet(sends)
        /\ \A s \in BagToSet(sends') : \A k \in 1 .. sends'[s] :
             (s = s0 /\ k = n) \/ (s \in BagToSet(sends) /\ k \in 1 .. sends[s])
  <2>1. CASE sends' = sends
    <3>1. [ev |-> e, todo |-> {}] \in SendRoutine /\ 0 \in Nat
      BY DEF SendRoutine
    <3> QED
      BY <3>1, <2>1
  <2>2. CASE sends' # sends
    <3>1. PICK s0 \in SendRoutine : /\ s0.ev = e /\ \A id \in s0.todo : Handles(id, e)
                                    /\ sends' = BX!BagAdd(sends, s0)
      BY <1>1, <2>2, SendStarts
    <3>2. Ctl \in s0.todo => s0.todo = {Ctl}
      <4>1. ASSUME Ctl \in s0.todo, NEW id \in s0.todo PROVE id = Ctl
        BY <4>1, <3>1 DEF Handles, CtlHandles, ConnHandles
      <4> QED
        BY <4>1
    <3>3. BagToSet(sends') = BagToSet(sends) \cup {s0}
      BY <3>1, <1>1, BagAddFacts
    <3>4. PICK n \in Nat :
            \A s \in BagToSet(BX!BagAdd(sends, s0)) : \A k \in 1 .. BX!BagAdd(sends, s0)[s] :
              (s = s0 /\ k = n) \/ (s \in BagToSet(sends) /\ k \in 1 .. sends[s])
      <4>1. IsABag(sends)
        BY <1>1
      <4> QED
        BY <4>1, NewCopy
    <3> QED
      BY <3>1, <3>2, <3>3, <3>4
  <2> QED
    BY <2>1, <2>2
<1>3. PICK own2 : \A j \in Calls, d \in Conns :
        own2[<<j, d>>] = IF j = i /\ d \in Conns THEN TheEvent(s0, n) ELSE own[<<j, d>>]
  <2>1. PICK own2 : own2 = Give(own, i, Conns, TheEvent(s0, n))
    OBVIOUS
  <2> QED
    BY <2>1 DEF Give
<1>4. Moved(own, own2, g) /\ IndsKept
  BY <1>3 DEF Moved, IndsKept
<1>5. EventHas(own2, s0, n)'
  <2>1. Carries(s0) \subseteq Conns
    BY DEF Carries, SendRoutine, WatcherIDs
  <2>2. \A d \in Carries(s0) : own2[<<i, d>>] = TheEvent(s0, n)
    BY <1>3, <2>1
  <2>3. Asks(i, s0.ev.key)'
    BY <1>2 DEF Asks
  <2> QED
    BY <2>2, <2>3 DEF EventHas, Carries, TheEvent
<1>6. \A s \in BagToSet(sends') : \A k \in 1 .. sends'[s] : EventHas(own2, s, k)'
  BY <1>2, <1>4, <1>5, EventsKeep
<1>7. \A m \in BagToSet(controls) : \A k \in 1 .. controls[m] : MessageHas(own2, m, k)'
  BY <1>4, MessagesKeep
<1>8. RightsInv(own2)'
  BY <1>4, <1>6, <1>7, StayKeep DEF RightsInv
<1>9. TodoInv'
  BY <1>2 DEF StormInv, TodoInv
<1> QED
  BY <1>8, <1>9 DEF StormInv, Received

-----------------------------------------------------------------------------
\* An indication brings new rights, which its monitor holds.
LEMMA RecvIndicationStorm ==
  ASSUME IInv, StormInv, NEW c \in Conns, RecvIndication(c), UNCHANGED <<ctl, southboundVars>>
  PROVE  StormInv'
<1>1. PICK i \in Calls, u \in UEs, t \in Cells :
        /\ inds[i] = None
        /\ inds' = [inds EXCEPT ![i] = [ue |-> u, tgt |-> t, node |-> NodeOf[c]]]
        /\ mon' = [mon EXCEPT ![c] = [pc |-> "apply", call |-> i, val |-> Get(u)]]
  BY DEF RecvIndication
<1>2. PICK own : RightsInv(own)
  BY DEF StormInv
<1>3. PICK own2 : \A j \in Calls, d \in Conns :
        own2[<<j, d>>] = IF j = i /\ d \in Conns THEN TheMonitor(c) ELSE own[<<j, d>>]
  <2>1. PICK own2 : own2 = Give(own, i, Conns, TheMonitor(c))
    OBVIOUS
  <2> QED
    BY <2>1 DEF Give
<1>4. Moved(own, own2, Nobody) /\ IndsKept
  BY <1>1, <1>3 DEF Moved, IndsKept, IInv, TypeOK, MonitorTypeOK
<1>5. UNCHANGED <<sends, ctl, wat, controls>>
  BY DEF RecvIndication, storeVars, southboundVars
<1>6. /\ mon'[c].call = i /\ \A d \in Conns \ {c} : mon'[d] = mon[d]
  BY <1>1 DEF IInv, TypeOK, MonitorTypeOK
<1>7. /\ \A s, k : Nobody # TheEvent(s, k)
      /\ \A m, k : Nobody # TheMessage(m, k)
      /\ \A d : Nobody # TheMonitor(d) /\ Nobody # TheWatcher(d)
      /\ Nobody # TheController
  BY DEF Nobody, TheEvent, TheMessage, TheMonitor, TheWatcher, TheController
<1>8. /\ \A s \in BagToSet(sends) : \A k \in 1 .. sends[s] : EventHas(own2, s, k)'
      /\ \A m \in BagToSet(controls) : \A k \in 1 .. controls[m] : MessageHas(own2, m, k)'
  BY <1>2, <1>4, <1>7, EventsKeep, MessagesKeep
<1>9. ctl.pc \in {"write", "put"} => ControllerHas(own2)'
  BY <1>2, <1>4, <1>5, <1>7, OthersKeep DEF RightsInv
<1>10. \A d \in Conns : wat[d].pc = "control" => WatcherHas(own2, d)'
  BY <1>2, <1>4, <1>5, <1>7, OthersKeep DEF RightsInv
<1>11. \A d \in Conns \ {c} : mon[d].pc = "apply" => MonitorHas(own2, d)'
  BY <1>2, <1>4, <1>6, <1>7, OthersKeep, HolderFacts DEF RightsInv
<1>12. MonitorHas(own2, c)'
  BY <1>3, <1>6 DEF MonitorHas, TheMonitor
<1>13. RightsInv(own2)'
  BY <1>5, <1>6, <1>8, <1>9, <1>10, <1>11, <1>12 DEF RightsInv
<1>14. IsFiniteSet(Received')
  <2>1. PICK R : R = Received /\ IsFiniteSet(R)
    BY DEF StormInv
  <2>2. IsFiniteSet(R \cup {i})
    BY <2>1, FS_AddElement, Zenon
  <2>3. PICK T : T = Received'
    OBVIOUS
  <2>4. T \in SUBSET (R \cup {i})
    BY <1>1, <2>1, <2>3 DEF Received, IInv, TypeOK, MonitorTypeOK
  <2>5. IsFiniteSet(T)
    BY <2>2, <2>4, FS_Subset, Zenon
  <2> QED
    BY <2>3, <2>5
<1> QED
  BY <1>5, <1>13, <1>14 DEF StormInv, TodoInv

\* The monitor puts the request and hands its rights to the event, or drops them.
LEMMA ApplyIndicationStorm ==
  ASSUME IInv, StormInv, NEW c \in Conns, ApplyIndication(c), UNCHANGED <<ctl, southboundVars>>
  PROVE  StormInv'
<1>1. UNCHANGED <<inds, ctl, wat, controls>>
  BY DEF ApplyIndication, southboundVars
<1>2. mon[c].pc = "apply" /\ mon'[c].pc = "recv" /\ \A d \in Conns \ {c} : mon'[d] = mon[d]
  BY DEF ApplyIndication, MonAt, IInv, TypeOK, MonitorTypeOK
<1>3. PICK i \in Calls : mon[c].call = i /\ inds[i] # None
  BY <1>2, HolderFacts
<1>4. Stay(Nobody) /\ Stay(TheMonitor(c))
  BY <1>1, <1>2 DEF Stay, Nobody, TheMonitor, TheController, TheWatcher
<1>5. CASE sends' = sends
  BY <1>1, <1>4, <1>5, QuietStorm
<1>6. CASE sends' # sends
  <2>1. PICK own : RightsInv(own)
    BY DEF StormInv
  <2>2. \A d \in Conns : own[<<i, d>>] = TheMonitor(c)
    BY <2>1, <1>2, <1>3 DEF RightsInv, MonitorHas
  <2>3. mon[c].val # None => mon[c].val \in Calls /\ heap[mon[c].val] # None
    BY <1>2 DEF IInv, MonInv, TypeOK, MonitorTypeOK
  <2>4. mon[c].val # None => heap[mon[c].val].state # "Denied"
    BY <2>3 DEF IInv, HeapInv
  <2>5. Put(inds[i].ue, i, "StateCreated")
    BY <1>3, <1>6, <2>4 DEF ApplyIndication, storeVars
  <2>6. inds[i].ue \in UEs
    BY <1>3 DEF IInv, TypeOK, MonitorTypeOK, Indication
  <2>7. PICK e \in Event : Send(e) /\ e.key = inds[i].ue /\ e.state = "StateCreated"
    BY <2>5, <2>6 DEF Put, Event, EventType, MHOState
  <2>8. Asks(i, e.key)
    BY <1>3, <2>7 DEF Asks
  <2>9. (\A s, k : TheMonitor(c) # TheEvent(s, k)) /\ (\A m, k : TheMonitor(c) # TheMessage(m, k))
    BY DEF TheMonitor, TheEvent, TheMessage
  <2> QED
    BY <1>1, <1>4, <2>1, <2>2, <2>7, <2>8, <2>9, AnnounceStorm
<1> QED
  BY <1>5, <1>6

\* The event hands its rights to the controller.
LEMMA ReceiveEventStorm ==
  ASSUME IInv, StormInv, NEW s \in BagToSet(sends), ReceiveEvent(s),
         UNCHANGED <<monitorVars, southboundVars>>
  PROVE  StormInv'
<1>1. /\ UNCHANGED <<inds, mon, wat, controls>>
      /\ ctl.pc = "idle" /\ ctl'.key = s.ev.key
      /\ Receive(Ctl, s)
  BY DEF ReceiveEvent, monitorVars, southboundVars
<1>2. Ctl \in s.todo /\ s.todo = {Ctl} /\ sends' = BX!BagRemove(sends, s)
  BY <1>1 DEF Receive, StormInv, TodoInv
<1>3. IsABag(sends) /\ s \in SendRoutine /\ sends[s] \in Nat
  BY HolderFacts
<1>4. PICK n \in 1 .. sends[s] :
        \A y \in BagToSet(sends') : \A k \in 1 .. sends'[y] :
          y \in BagToSet(sends) /\ k \in 1 .. sends[y] /\ ~(y = s /\ k = n)
  BY <1>2, <1>3, CopyRemoved
<1>5. PICK own : RightsInv(own)
  BY DEF StormInv
<1>6. PICK i \in Calls : Asks(i, s.ev.key) /\ \A d \in Conns : own[<<i, d>>] = TheEvent(s, n)
  BY <1>2, <1>5 DEF RightsInv, EventHas, Carries
<1>7. PICK own2 : \A j \in Calls, d \in Conns :
        own2[<<j, d>>] = IF j = i /\ d \in Conns THEN TheController ELSE own[<<j, d>>]
  <2>1. PICK own2 : own2 = Give(own, i, Conns, TheController)
    OBVIOUS
  <2> QED
    BY <2>1 DEF Give
<1>8. Moved(own, own2, TheEvent(s, n)) /\ IndsKept
  BY <1>1, <1>6, <1>7 DEF Moved, IndsKept
<1>9. /\ \A y, k : ~(y = s /\ k = n) => TheEvent(s, n) # TheEvent(y, k)
      /\ \A m, k : TheEvent(s, n) # TheMessage(m, k)
      /\ \A d : TheEvent(s, n) # TheMonitor(d) /\ TheEvent(s, n) # TheWatcher(d)
  BY DEF TheEvent, TheMessage, TheMonitor, TheWatcher
<1>10. \A y \in BagToSet(sends') : \A k \in 1 .. sends'[y] : EventHas(own2, y, k)'
  <2> SUFFICES ASSUME NEW y \in BagToSet(sends'), NEW k \in 1 .. sends'[y]
               PROVE  EventHas(own2, y, k)'
    OBVIOUS
  <2>1. y \in BagToSet(sends) /\ k \in 1 .. sends[y] /\ ~(y = s /\ k = n)
    BY <1>4
  <2>2. EventHas(own, y, k) /\ y \in SendRoutine /\ k \in Nat
    BY <1>5, <2>1, HolderFacts DEF RightsInv
  <2> QED
    BY <1>8, <1>9, <2>1, <2>2, OthersKeep
<1>11. \A m \in BagToSet(controls) : \A k \in 1 .. controls[m] : MessageHas(own2, m, k)'
  BY <1>5, <1>8, <1>9, MessagesKeep
<1>12. /\ \A d \in Conns : wat[d].pc = "control" => WatcherHas(own2, d)'
       /\ \A d \in Conns : mon[d].pc = "apply" => MonitorHas(own2, d)'
  BY <1>1, <1>5, <1>8, <1>9, OthersKeep, HolderFacts DEF RightsInv
<1>13. ControllerHas(own2)'
  <2>1. Asks(i, ctl.key)'
    BY <1>1, <1>6 DEF Asks
  <2> QED
    BY <2>1, <1>7 DEF ControllerHas, TheController
<1>14. RightsInv(own2)'
  BY <1>1, <1>10, <1>11, <1>12, <1>13 DEF RightsInv
<1>15. TodoInv'
  <2>1. BagToSet(sends') \subseteq BagToSet(sends)
    BY <1>2, <1>3, BagRemoveFacts
  <2> QED
    BY <2>1 DEF StormInv, TodoInv
<1> QED
  BY <1>1, <1>14, <1>15 DEF StormInv, Received

\* The controller hands its rights to the event of the approval.
LEMMA PutApprovedStorm ==
  ASSUME IInv, StormInv, PutApproved, UNCHANGED <<monitorVars, southboundVars>>
  PROVE  StormInv'
<1>1. UNCHANGED <<inds, mon, wat, controls>> /\ ctl.pc = "put" /\ ctl'.pc = "idle"
  BY DEF PutApproved, CtlAt, monitorVars, southboundVars
<1>2. PICK own : RightsInv(own)
  BY DEF StormInv
<1>3. PICK i \in Calls : Asks(i, ctl.key) /\ \A d \in Conns : own[<<i, d>>] = TheController
  BY <1>1, <1>2 DEF RightsInv, ControllerHas
<1>4. ctl.key \in UEs /\ Put(ctl.key, ctl.val, "Approved")
  BY <1>1 DEF PutApproved, IInv, CtlInv
<1>5. PICK e \in Event : Send(e) /\ e.key = ctl.key /\ e.state = "Approved"
  BY <1>4 DEF Put, Event, EventType, MHOState
<1>6. Stay(TheController)
  BY <1>1 DEF Stay, TheController, TheMonitor, TheWatcher
<1>7. (\A s, k : TheController # TheEvent(s, k)) /\ (\A m, k : TheController # TheMessage(m, k))
  BY DEF TheController, TheEvent, TheMessage
<1> QED
  BY <1>1, <1>2, <1>3, <1>5, <1>6, <1>7, AnnounceStorm

(***************************************************************************)
(* The event of the approval hands a watcher its right and keeps those of  *)
(* the watchers it has yet to serve.                                       *)
(***************************************************************************)
LEMMA ReceiveChangeStorm ==
  ASSUME IInv, StormInv, NEW c \in Conns, NEW s \in BagToSet(sends), ReceiveChange(c, s),
         UNCHANGED ctl
  PROVE  StormInv'
<1>1. /\ UNCHANGED <<inds, mon, ctl, controls>> /\ Receive(c, s)
      /\ wat' = wat \/ wat' = [wat EXCEPT ![c] = [pc |-> "control", key |-> s.ev.key,
                                                  val |-> Get(s.ev.key)]]
  BY DEF ReceiveChange, monitorVars
<1>2. /\ wat[c].pc = "idle" /\ \A d \in Conns \ {c} : wat'[d] = wat[d]
      /\ wat'[c].pc = "control" => wat'[c].key = s.ev.key
  BY <1>1 DEF ReceiveChange, IInv, TypeOK, SouthboundTypeOK
<1>3. IsABag(sends) /\ s \in SendRoutine /\ sends[s] \in Nat
  BY HolderFacts
<1>4. c \in s.todo /\ Ctl \notin s.todo /\ s.todo \subseteq Conns
  <2>1. c \in s.todo /\ c # Ctl
    BY <1>1, StoreAssumption DEF Receive
  <2>2. Ctl \notin s.todo
    BY <2>1 DEF StormInv, TodoInv
  <2> QED
    BY <1>3, <2>1, <2>2 DEF SendRoutine, WatcherIDs
<1>5. PICK left, s1 : /\ left = s.todo \ {c} /\ s1 = [s EXCEPT !.todo = left]
                      /\ s1 \in SendRoutine /\ s1.ev = s.ev /\ s1.todo = left
  <2>1. PICK left : left = s.todo \ {c}
    OBVIOUS
  <2>2. PICK s1 : s1 = [s EXCEPT !.todo = left]
    OBVIOUS
  <2>3. s1 \in SendRoutine /\ s1.ev = s.ev /\ s1.todo = left
    BY <1>3, <2>1, <2>2 DEF SendRoutine
  <2> QED
    BY <2>1, <2>2, <2>3
<1>6. PICK rest : /\ rest = BX!BagRemove(sends, s)
                  /\ sends' = rest \/ sends' = BX!BagAdd(rest, s1)
  BY <1>1, <1>5 DEF Receive
<1>7. PICK n \in 1 .. sends[s] :
        \A y \in BagToSet(rest) : \A k \in 1 .. rest[y] :
          y \in BagToSet(sends) /\ k \in 1 .. sends[y] /\ ~(y = s /\ k = n)
  BY <1>3, <1>6, CopyRemoved
<1>8. IsABag(rest) /\ BagToSet(rest) \subseteq BagToSet(sends)
  BY <1>3, <1>6, BagRemoveFacts
<1>9. PICK n1 \in Nat :
        \A y \in BagToSet(BX!BagAdd(rest, s1)) : \A k \in 1 .. BX!BagAdd(rest, s1)[y] :
          (y = s1 /\ k = n1) \/ (y \in BagToSet(rest) /\ k \in 1 .. rest[y])
  BY <1>8, NewCopy
<1>10. \A y \in BagToSet(sends') : \A k \in 1 .. sends'[y] :
         \/ y = s1 /\ k = n1
         \/ y \in BagToSet(sends) /\ k \in 1 .. sends[y] /\ ~(y = s /\ k = n)
  BY <1>6, <1>7, <1>9
<1>11. PICK own : RightsInv(own)
  BY DEF StormInv
<1>12. PICK i \in Calls : Asks(i, s.ev.key) /\ \A d \in s.todo : own[<<i, d>>] = TheEvent(s, n)
  BY <1>4, <1>11 DEF RightsInv, EventHas, Carries
<1>13. PICK own2 : \A j \in Calls, d \in Conns :
         own2[<<j, d>>] = IF j = i /\ d \in {c} THEN TheWatcher(c)
                          ELSE IF j = i /\ d \in left THEN TheEvent(s1, n1)
                          ELSE own[<<j, d>>]
  <2>1. PICK own1 : own1 = Give(own, i, left, TheEvent(s1, n1))
    OBVIOUS
  <2>2. PICK own2 : own2 = Give(own1, i, {c}, TheWatcher(c))
    OBVIOUS
  <2>3. \A j \in Calls, d \in Conns :
          own1[<<j, d>>] = IF j = i /\ d \in left THEN TheEvent(s1, n1) ELSE own[<<j, d>>]
    BY <2>1 DEF Give
  <2>4. \A j \in Calls, d \in Conns :
          own2[<<j, d>>] = IF j = i /\ d \in {c} THEN TheWatcher(c) ELSE own1[<<j, d>>]
    BY <2>2 DEF Give
  <2> QED
    BY <2>3, <2>4
<1>14. Moved(own, own2, TheEvent(s, n)) /\ IndsKept
  BY <1>1, <1>4, <1>5, <1>12, <1>13 DEF Moved, IndsKept
<1>15. /\ \A y, k : ~(y = s /\ k = n) => TheEvent(s, n) # TheEvent(y, k)
       /\ \A m, k : TheEvent(s, n) # TheMessage(m, k)
       /\ \A d : TheEvent(s, n) # TheMonitor(d) /\ TheEvent(s, n) # TheWatcher(d)
       /\ TheEvent(s, n) # TheController
  BY DEF TheEvent, TheMessage, TheMonitor, TheWatcher, TheController
<1>16. EventHas(own2, s1, n1)'
  <2>1. Carries(s1) = left
    BY <1>4, <1>5 DEF Carries
  <2>2. \A d \in left : own2[<<i, d>>] = TheEvent(s1, n1)
    BY <1>4, <1>5, <1>13
  <2>3. Asks(i, s1.ev.key)'
    BY <1>1, <1>5, <1>12 DEF Asks
  <2> QED
    BY <2>1, <2>2, <2>3 DEF EventHas, Carries, TheEvent
<1>17. \A y \in BagToSet(sends') : \A k \in 1 .. sends'[y] : EventHas(own2, y, k)'
  <2> SUFFICES ASSUME NEW y \in BagToSet(sends'), NEW k \in 1 .. sends'[y],
                      ~(y = s1 /\ k = n1)
               PROVE  EventHas(own2, y, k)'
    BY <1>16
  <2>1. y \in BagToSet(sends) /\ k \in 1 .. sends[y] /\ ~(y = s /\ k = n)
    BY <1>10
  <2>2. EventHas(own, y, k) /\ y \in SendRoutine /\ k \in Nat
    BY <1>11, <2>1, HolderFacts DEF RightsInv
  <2> QED
    BY <1>14, <1>15, <2>1, <2>2, OthersKeep
<1>18. \A m \in BagToSet(controls) : \A k \in 1 .. controls[m] : MessageHas(own2, m, k)'
  BY <1>11, <1>14, <1>15, MessagesKeep
<1>19. /\ ctl.pc \in {"write", "put"} => ControllerHas(own2)'
       /\ \A d \in Conns : mon[d].pc = "apply" => MonitorHas(own2, d)'
       /\ \A d \in Conns \ {c} : wat[d].pc = "control" => WatcherHas(own2, d)'
  BY <1>1, <1>2, <1>11, <1>14, <1>15, OthersKeep, HolderFacts DEF RightsInv
<1>20. wat'[c].pc = "control" => WatcherHas(own2, c)'
  <2>1. wat'[c].pc = "control" => Asks(i, wat[c].key)'
    BY <1>1, <1>2, <1>12 DEF Asks
  <2>2. own2[<<i, c>>] = TheWatcher(c)
    BY <1>13
  <2> QED
    BY <2>1, <2>2 DEF WatcherHas, TheWatcher
<1>21. RightsInv(own2)'
  BY <1>1, <1>2, <1>17, <1>18, <1>19, <1>20 DEF RightsInv
<1>22. TodoInv'
  <2>1. BagToSet(sends') \subseteq BagToSet(sends) \cup {s1}
    BY <1>6, <1>8, BagAddFacts
  <2> QED
    BY <1>4, <1>5, <2>1 DEF StormInv, TodoInv
<1> QED
  BY <1>1, <1>21, <1>22 DEF StormInv, Received

\* A watcher spends its right on a message.
LEMMA SendControlStorm ==
  ASSUME IInv, StormInv, NEW c \in Conns, SendControl(c), UNCHANGED ctl
  PROVE  StormInv'
<1>1. /\ UNCHANGED <<inds, mon, sends, ctl>> /\ wat[c].pc = "control"
      /\ wat'[c].pc = "mark" /\ \A d \in Conns \ {c} : wat'[d] = wat[d]
  BY DEF SendControl, storeVars, monitorVars, IInv, TypeOK, SouthboundTypeOK
<1>2. heap[wat[c].val].ue = wat[c].key
  BY <1>1 DEF IInv, WatInv
<1>3. PICK m : /\ controls' = BX!BagAdd(controls, m)
               /\ m.to = NodeOf[c] /\ m.ue = wat[c].key
  BY <1>2 DEF SendControl
<1>4. PICK n \in Nat :
        \A y \in BagToSet(controls') : \A k \in 1 .. controls'[y] :
          (y = m /\ k = n) \/ (y \in BagToSet(controls) /\ k \in 1 .. controls[y])
  <2>1. IsABag(controls)
    BY HolderFacts
  <2>2. PICK n \in Nat :
          \A y \in BagToSet(BX!BagAdd(controls, m)) : \A k \in 1 .. BX!BagAdd(controls, m)[y] :
            (y = m /\ k = n) \/ (y \in BagToSet(controls) /\ k \in 1 .. controls[y])
    BY <2>1, NewCopy
  <2> QED
    BY <1>3, <2>2
<1>5. PICK own : RightsInv(own)
  BY DEF StormInv
<1>6. PICK i \in Calls : Asks(i, wat[c].key) /\ own[<<i, c>>] = TheWatcher(c)
  BY <1>1, <1>5 DEF RightsInv, WatcherHas
<1>7. PICK own2 : \A j \in Calls, d \in Conns :
        own2[<<j, d>>] = IF j = i /\ d \in {c} THEN TheMessage(m, n) ELSE own[<<j, d>>]
  <2>1. PICK own2 : own2 = Give(own, i, {c}, TheMessage(m, n))
    OBVIOUS
  <2> QED
    BY <2>1 DEF Give
<1>8. Moved(own, own2, TheWatcher(c)) /\ IndsKept
  BY <1>1, <1>6, <1>7 DEF Moved, IndsKept
<1>9. /\ \A s, k : TheWatcher(c) # TheEvent(s, k)
      /\ \A y, k : TheWatcher(c) # TheMessage(y, k)
  BY DEF TheEvent, TheMessage, TheWatcher
<1>10. Stay(TheWatcher(c))
  BY <1>1 DEF Stay, TheWatcher, TheMonitor, TheController
<1>11. MessageHas(own2, m, n)'
  <2>1. Asks(i, m.ue)'
    BY <1>1, <1>3, <1>6 DEF Asks
  <2> QED
    BY <1>3, <1>7, <2>1 DEF MessageHas, TheMessage
<1>12. \A y \in BagToSet(controls') : \A k \in 1 .. controls'[y] : MessageHas(own2, y, k)'
  BY <1>4, <1>5, <1>8, <1>9, <1>11, MessagesKeep
<1>13. \A s \in BagToSet(sends) : \A k \in 1 .. sends[s] : EventHas(own2, s, k)'
  BY <1>5, <1>8, <1>9, EventsKeep
<1>14. RightsInv(own2)'
  BY <1>1, <1>5, <1>8, <1>10, <1>12, <1>13, StayKeep DEF RightsInv
<1> QED
  BY <1>1, <1>14 DEF StormInv, TodoInv, Received

\* Put(Done) is heard by nobody.
LEMMA PutDoneStorm ==
  ASSUME IInv, StormInv, NEW c \in Conns, PutDone(c), UNCHANGED ctl
  PROVE  StormInv'
<1>1. /\ UNCHANGED <<inds, mon, ctl, controls>> /\ wat[c].pc = "put"
      /\ wat'[c].pc = "idle" /\ \A d \in Conns \ {c} : wat'[d] = wat[d]
  BY DEF PutDone, WatAt, monitorVars, IInv, TypeOK, SouthboundTypeOK
<1>2. wat[c].key \in UEs /\ Put(wat[c].key, wat[c].val, "Done")
  BY <1>1 DEF PutDone, IInv, WatInv
<1>3. PICK e \in Event : Send(e) /\ e.state = "Done"
  BY <1>2 DEF Put, Event, EventType, MHOState
<1>4. sends' = sends
  BY <1>3, DoneUnheard DEF IInv, TypeOK, StoreTypeOK
<1>5. Stay(Nobody)
  BY <1>1 DEF Stay, Nobody, TheMonitor, TheController, TheWatcher
<1> QED
  BY <1>1, <1>4, <1>5, QuietStorm

\* A state without requests, also after a crash: only messages hold rights.
LEMMA FreshStorm ==
  ASSUME StormInv, UNCHANGED <<inds, controls>>, sends' = EmptyBag,
         \A c \in Conns : mon'[c].pc # "apply" /\ wat'[c].pc # "control",
         ctl'.pc \notin {"write", "put"}
  PROVE  StormInv'
<1>1. PICK own : RightsInv(own)
  BY DEF StormInv
<1>2. Moved(own, own, Nobody) /\ IndsKept
  BY DEF Moved, IndsKept
<1>3. \A m, k : Nobody # TheMessage(m, k)
  BY DEF Nobody, TheMessage
<1>4. \A m \in BagToSet(controls) : \A k \in 1 .. controls[m] : MessageHas(own, m, k)'
  BY <1>1, <1>2, <1>3, MessagesKeep
<1>5. RightsInv(own)'
  BY <1>4, EmptyBagFacts DEF RightsInv
<1> QED
  BY <1>5, EmptyBagFacts DEF StormInv, TodoInv, Received

\* Nothing has been asked when the app starts, for the first time or again.
LEMMA InitStorm == Init \/ Started => StormInv
<1> SUFFICES ASSUME Init \/ Started PROVE StormInv
  OBVIOUS
<1>1. /\ inds = [i \in Calls |-> None] /\ sends = EmptyBag /\ controls = EmptyBag
      /\ \A c \in Conns : mon[c].pc # "apply" /\ wat[c].pc # "control"
      /\ ctl.pc \notin {"write", "put"}
  BY DEF Init, Started, StoreInit, MonitorInit, ControllerInit, SouthboundInit,
     MonAt, CtlAt, WatAt
<1>2. RightsInv(<<>>)
  BY <1>1, EmptyBagFacts DEF RightsInv
<1>3. IsFiniteSet(Received)
  <2>1. Received = {}
    BY <1>1 DEF Received
  <2> QED
    BY <2>1, FS_EmptySet
<1> QED
  BY <1>1, <1>2, <1>3, EmptyBagFacts DEF StormInv, TodoInv

\* Every step hands rights on, or leaves them where they are.
LEMMA NextStorm == IInv /\ StormInv /\ [Next]_vars => StormInv'
<1> SUFFICES ASSUME IInv, StormInv, [Next]_vars PROVE StormInv'
  OBVIOUS
<1>1. /\ mon \in [Conns -> [pc : MonPC, call : Calls \cup {None}, val : Calls \cup {None}]]
      /\ wat \in [Conns -> [pc : WatPC, key : UEs \cup {None}, val : Calls \cup {None}]]
  BY DEF IInv, TypeOK, MonitorTypeOK, SouthboundTypeOK
<1>2. /\ \A c : Nobody # TheMonitor(c) /\ Nobody # TheWatcher(c)
      /\ Nobody # TheController
  BY DEF Nobody, TheMonitor, TheWatcher, TheController
<1>3. ASSUME NEW c \in Conns, MonitorNext(c) PROVE StormInv'
  <2>1. CASE RejectIndication(c)
    <3>1. UNCHANGED <<inds, sends, controls, ctl, wat>>
      BY <1>3, <2>1 DEF MonitorNext, RejectIndication, storeVars, southboundVars
    <3>2. \A d \in Conns : mon'[d].pc = "apply" => mon'[d] = mon[d]
      BY <1>1, <2>1 DEF RejectIndication, MonAt
    <3>3. Stay(Nobody)
      BY <1>2, <3>1, <3>2 DEF Stay
    <3> QED
      BY <3>1, <3>3, QuietStorm
  <2> QED
    BY <1>3, <2>1, RecvIndicationStorm, ApplyIndicationStorm DEF MonitorNext
<1>4. ASSUME ControllerNext PROVE StormInv'
  <2>1. CASE WatchStore \/ Approve
    <3>1. UNCHANGED <<inds, sends, controls, mon, wat>>
      BY <1>4, <2>1 DEF ControllerNext, WatchStore, Watch, AddWatcher, Approve,
         monitorVars, southboundVars
    <3>2. ctl'.pc \in {"write", "put"} => ctl.pc \in {"write", "put"} /\ ctl'.key = ctl.key
      BY <2>1 DEF WatchStore, Approve, CtlAt, IInv, TypeOK, ControllerTypeOK
    <3>3. Stay(Nobody)
      BY <1>2, <3>1, <3>2 DEF Stay
    <3> QED
      BY <3>1, <3>3, QuietStorm
  <2> QED
    BY <1>4, <2>1, ReceiveEventStorm, PutApprovedStorm DEF ControllerNext
<1>5. ASSUME NEW c \in Conns, SouthboundNext(c) PROVE StormInv'
  <2>1. CASE \/ Connect(c) \/ CreateSubscription(c) \/ FailSubscription(c)
             \/ WatchMHOChanges(c) \/ MarkDone(c)
    <3>1. UNCHANGED <<inds, sends, controls, ctl>>
      BY <1>5, <2>1 DEF SouthboundNext, Connect, CreateSubscription, FailSubscription,
         StartMonitor, WatchMHOChanges, Watch, AddWatcher, MarkDone, storeVars,
         monitorVars, southboundVars
    <3>2. \A d \in Conns : mon'[d].pc = "apply" => mon'[d] = mon[d]
      BY <1>1, <2>1 DEF Connect, CreateSubscription, FailSubscription, StartMonitor,
         WatchMHOChanges, MarkDone, MonAt, monitorVars
    <3>3. \A d \in Conns : wat'[d].pc = "control" => wat'[d] = wat[d]
      BY <1>1, <2>1 DEF Connect, CreateSubscription, FailSubscription, StartMonitor,
         WatchMHOChanges, MarkDone, WatAt, southboundVars
    <3>4. Stay(Nobody)
      BY <1>2, <3>1, <3>2, <3>3 DEF Stay
    <3> QED
      BY <3>1, <3>4, QuietStorm
  <2> QED
    BY <1>5, <2>1, SendControlStorm, PutDoneStorm, ReceiveChangeStorm DEF SouthboundNext
<1>6. CASE Crash
  <2>1. /\ UNCHANGED <<inds, controls>> /\ sends' = EmptyBag
        /\ \A c \in Conns : mon'[c].pc # "apply" /\ wat'[c].pc # "control"
        /\ ctl'.pc \notin {"write", "put"}
    BY <1>6 DEF Crash, MonAt, WatAt, CtlAt
  <2> QED
    BY <2>1, FreshStorm
<1>7. CASE UNCHANGED vars
  <2>1. UNCHANGED <<inds, sends, controls, mon, ctl, wat>>
    BY <1>7 DEF vars, storeVars, monitorVars, southboundVars
  <2>2. Stay(Nobody)
    BY <1>2, <2>1 DEF Stay
  <2> QED
    BY <2>1, <2>2, QuietStorm
<1> QED
  BY <1>3, <1>4, <1>5, <1>6, <1>7 DEF Next, Idle

\* Each message has used up a right of its own.
LEMMA RightsBound == StormInv => NoControlStorm
<1> SUFFICES ASSUME StormInv, NEW n \in Nodes, NEW u \in UEs
             PROVE  LET sent == {m \in Copies(controls) : m[1].to = n /\ m[1].ue = u}
                        asked == {i \in Calls : inds[i] # None /\ inds[i].ue = u}
                    IN  Cardinality(sent) <=
                          Cardinality(asked) * Cardinality({c \in Conns : NodeOf[c] = n})
  BY DEF NoControlStorm
<1>1. PICK own : RightsInv(own)
  BY DEF StormInv
<1>2. PICK sent : sent = {m \in Copies(controls) : m[1].to = n /\ m[1].ue = u}
  OBVIOUS
<1>3. PICK asked : asked = {i \in Calls : inds[i] # None /\ inds[i].ue = u}
  OBVIOUS
<1>4. PICK conns : conns = {c \in Conns : NodeOf[c] = n}
  OBVIOUS
<1>5. IsFiniteSet(asked) /\ IsFiniteSet(conns)
  <2>1. PICK R : R = Received /\ IsFiniteSet(R)
    BY DEF StormInv
  <2>2. asked \in SUBSET R
    BY <1>3, <2>1 DEF Received
  <2>3. IsFiniteSet(asked)
    BY <2>1, <2>2, FS_Subset
  <2>4. conns \in SUBSET Conns /\ IsFiniteSet(Conns)
    BY <1>4, ConnsAssumption
  <2> QED
    BY <2>3, <2>4, FS_Subset
<1>6. /\ IsFiniteSet(asked \X conns)
      /\ Cardinality(asked \X conns) = Cardinality(asked) * Cardinality(conns)
  BY <1>5, FS_Product
<1>7. \A p \in sent : \E r \in asked \X conns : own[r] = TheMessage(p[1], p[2])
  <2> SUFFICES ASSUME NEW p \in sent
               PROVE  \E r \in asked \X conns : own[r] = TheMessage(p[1], p[2])
    OBVIOUS
  <2>1. p[1] \in BagToSet(controls) /\ p[2] \in 1 .. controls[p[1]]
    BY <1>2, CopiesFacts
  <2>2. PICK i \in Calls, c \in Conns : /\ Asks(i, p[1].ue) /\ NodeOf[c] = p[1].to
                                        /\ own[<<i, c>>] = TheMessage(p[1], p[2])
    BY <1>1, <2>1 DEF RightsInv, MessageHas
  <2>3. i \in asked /\ c \in conns
    BY <1>2, <1>3, <1>4, <2>2 DEF Asks
  <2> QED
    BY <2>2, <2>3
<1> DEFINE f == [p \in sent |-> CHOOSE r \in asked \X conns : own[r] = TheMessage(p[1], p[2])]
<1>8. \A p \in sent : f[p] \in asked \X conns /\ own[f[p]] = TheMessage(p[1], p[2])
  BY <1>7
<1>9. f \in Injection(sent, asked \X conns)
  <2>1. f \in [sent -> asked \X conns]
    BY <1>8
  <2>2. ASSUME NEW p \in sent, NEW q \in sent, f[p] = f[q] PROVE p = q
    <3> HIDE DEF f
    <3>1. p[1] = q[1] /\ p[2] = q[2]
      BY <1>8, <2>2 DEF TheMessage
    <3>2. p = <<p[1], p[2]>> /\ q = <<q[1], q[2]>>
      BY <1>2, CopiesFacts
    <3> QED
      BY <3>1, <3>2
  <2> HIDE DEF f
  <2>3. DOMAIN f = sent
    BY <2>1
  <2> QED
    BY <2>1, <2>2, <2>3 DEF Injection, IsInjective
<1> HIDE DEF f
<1>10. Cardinality(sent) <= Cardinality(asked \X conns)
  BY <1>6, <1>9, FS_Injection
<1> QED
  BY <1>2, <1>3, <1>4, <1>6, <1>10

(***************************************************************************)
(* The loop through the store does not feed itself: however the events and *)
(* write-backs interleave, and across crashes, watchMHOChanges sends a     *)
(* node for a UE at most one message per indication and connection.        *)
(***************************************************************************)
THEOREM NoStorm == Spec => []NoControlStorm
  BY InitInv, NextInv, InitStorm, NextStorm, RightsBound, PTL DEF Spec
=============================================================================
