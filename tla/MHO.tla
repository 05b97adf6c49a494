--------------------------------- MODULE MHO ---------------------------------
(***************************************************************************)
(* The handover loop of onos-mho: the monitors, the controller and the     *)
(* southbound watchers, which talk to each other only through the metric   *)
(* store and its events.                                                   *)
(***************************************************************************)
EXTENDS Controller, Southbound

CONSTANT MaxCrashes     \* bound on the crashes of the process

ASSUME MHOAssumption == MaxCrashes \in Nat

VARIABLE crashes

vars == <<storeVars, monitorVars, ctl, southboundVars, crashes>>

TypeOK ==
  /\ StoreTypeOK /\ MonitorTypeOK /\ ControllerTypeOK /\ SouthboundTypeOK
  /\ crashes \in 0 .. MaxCrashes

Init ==
  /\ StoreInit /\ MonitorInit /\ ControllerInit /\ SouthboundInit
  /\ inds = [i \in Calls |-> None]
  /\ controls = EmptyBag
  /\ crashes = 0

-----------------------------------------------------------------------------
MonitorNext(c) ==
  /\ RecvIndication(c) \/ ApplyIndication(c) \/ RejectIndication(c)
  /\ UNCHANGED <<ctl, southboundVars, crashes>>

ControllerNext ==
  /\ \/ WatchStore \/ Approve \/ PutApproved
     \/ \E s \in BagToSet(sends) : ReceiveEvent(s)
  /\ UNCHANGED <<monitorVars, southboundVars, crashes>>

SouthboundNext(c) ==
  /\ \/ Connect(c) \/ CreateSubscription(c) \/ FailSubscription(c)
     \/ WatchMHOChanges(c) \/ SendControl(c) \/ MarkDone(c) \/ PutDone(c)
     \/ \E s \in BagToSet(sends) : ReceiveChange(c, s)
  /\ UNCHANGED <<ctl, crashes>>

(***************************************************************************)
(* The process dies and is started again.  Everything it knew was in       *)
(* memory; what it has received and sent has happened.                     *)
(***************************************************************************)
Crash ==
  /\ crashes < MaxCrashes
  /\ crashes' = crashes + 1
  /\ records' = [u \in UEs |-> None]
  /\ heap' = [i \in Calls |-> None]
  /\ watchers' = {}
  /\ sends' = EmptyBag
  /\ audience' = [u \in UEs |-> {}]
  /\ mon' = [c \in Conns |-> MonAt("off")]
  /\ listening' = [c \in Conns |-> FALSE]
  /\ ctl' = CtlAt("starting")
  /\ wat' = [c \in Conns |-> WatAt("off")]
  /\ UNCHANGED <<inds, controls>>

(***************************************************************************)
(* Nothing is on its way: all that can happen next comes from outside.     *)
(***************************************************************************)
Quiescent ==
  /\ \A s \in BagToSet(sends) : s.todo \cap watchers = {}
  /\ ctl.pc = "idle"
  /\ \A c \in Conns : wat[c].pc \in {"off", "idle"} /\ mon[c].pc # "apply"

\* The process waits for an E2 connection or an indication
Idle == Quiescent /\ UNCHANGED vars

Next ==
  \/ \E c \in Conns : MonitorNext(c) \/ SouthboundNext(c)
  \/ ControllerNext
  \/ Crash
  \/ Idle

Spec == Init /\ [][Next]_vars

(***************************************************************************)
(* The state in which startup is over: every goroutine is registered and   *)
(* waiting, no indication has come in yet.  Init leads to it by Connect,   *)
(* CreateSubscription and WatchMHOChanges of every connection and          *)
(* WatchStore; runs about later behaviour begin here.                      *)
(***************************************************************************)
Started ==
  /\ records = [u \in UEs |-> None]
  /\ heap = [i \in Calls |-> None]
  /\ watchers = WatcherIDs
  /\ sends = EmptyBag
  /\ audience = [u \in UEs |-> {}]
  /\ mon = [c \in Conns |-> MonAt("recv")]
  /\ listening = [c \in Conns |-> TRUE]
  /\ ctl = CtlAt("idle")
  /\ wat = [c \in Conns |-> WatAt("idle")]
  /\ inds = [i \in Calls |-> None]
  /\ controls = EmptyBag
  /\ crashes = 0

StartedSpec == Started /\ [][Next]_vars

(***************************************************************************)
(* Goroutines that can run do run, a sender blocked on a channel is served *)
(* in turn, and every node.Control call returns.  E2 nodes owe nothing:    *)
(* neither connections nor indications.                                    *)
(***************************************************************************)
WatcherNext(c) ==
  /\ \/ WatchMHOChanges(c) \/ SendControl(c) \/ MarkDone(c) \/ PutDone(c)
     \/ \E s \in BagToSet(sends) : ReceiveChange(c, s)
  /\ UNCHANGED <<ctl, crashes>>

ApplyNext(c) == ApplyIndication(c) /\ UNCHANGED <<ctl, southboundVars, crashes>>

Fairness ==
  /\ WF_vars(ControllerNext)
  /\ \A c \in Conns : WF_vars(WatcherNext(c)) /\ WF_vars(ApplyNext(c))

FairSpec == Spec /\ Fairness

-----------------------------------------------------------------------------
(* Properties that hold.                                                   *)

\* The entry of u asks for a handover that is not done.
Waits(u) == HasEntry(u) /\ heap[Get(u)].state # "Done"

\* Nobody who would act on the entry of u was registered when it was put.
Unheard(u) ==
  /\ HasEntry(u)
  /\ \/ heap[Get(u)].state = "StateCreated" /\ Ctl \notin audience[u]
     \/ /\ heap[Get(u)].state = "Approved"
        /\ \A c \in audience[u] \ {Ctl} : NodeOf[c] # heap[Get(u)].node

\* A Send goroutine is going to hand watcher id an event for u that it handles.
OnItsWay(u, id) == \E s \in BagToSet(sends) : s.ev.key = u /\ id \in s.todo

\* Some goroutine is going to act on the entry of u.
Pending(u) ==
  \/ ctl.pc \in {"write", "put"} /\ ctl.key = u
  \/ \E c \in Conns : wat[c].pc \in {"control", "mark", "put"} /\ wat[c].key = u
  \/ \E id \in watchers : OnItsWay(u, id) /\ (id = Ctl \/ NodeOf[id] = heap[Get(u)].node)

(***************************************************************************)
(* No handover request is forgotten.  An entry that is not Done is in the  *)
(* hands of some goroutine, however the unordered events, the in-place     *)
(* writes of State and the write-backs of stale values interleave.  The    *)
(* one exception is an event that was broadcast before the watcher that    *)
(* would have acted on it was registered.                                  *)
(***************************************************************************)
NoForgottenRequest == \A u \in UEs : Waits(u) => Pending(u) \/ Unheard(u)

(***************************************************************************)
(* Every control message answers an indication of the node it is sent to:  *)
(* same UE, target cell and call process, also when the entry was replaced *)
(* by another node's request between the approval and the message, and     *)
(* across restarts.                                                        *)
(***************************************************************************)
ControlAnswersIndication ==
  \A m \in BagToSet(controls) :
    inds[m.call] = [ue |-> m.ue, tgt |-> m.tgt, node |-> m.to]

(***************************************************************************)
(* A value is Done only if the control message of that very request was    *)
(* attempted: a write-back can restore an old value, but never marks a     *)
(* value Done that no message was built from.                              *)
(***************************************************************************)
DoneMeansAttempted ==
  \A i \in Calls :
    heap[i] # None /\ heap[i].state = "Done" =>
      \E m \in BagToSet(controls) : m.call = i /\ m.to = heap[i].node

\* The elements of a bag, each with a number for every time the bag holds it.
Copies(B) == UNION {{x} \X (1 .. B[x]) : x \in BagToSet(B)}

(***************************************************************************)
(* The handlers put into the store that triggers them, yet the loop does   *)
(* not feed itself: a node gets for a UE at most one control message per   *)
(* indication of that UE and connection of that node.                      *)
(***************************************************************************)
NoControlStorm ==
  \A n \in Nodes, u \in UEs :
    LET sent == {m \in Copies(controls) : m[1].to = n /\ m[1].ue = u}
        asked == {i \in Calls : inds[i] # None /\ inds[i].ue = u}
    IN  Cardinality(sent) <= Cardinality(asked) * Cardinality({c \in Conns : NodeOf[c] = n})

(***************************************************************************)
(* Every request is eventually settled, or was broadcast before anyone     *)
(* could hear it.                                                          *)
(***************************************************************************)
RequestsSettle == \A u \in UEs : Waits(u) ~> (~Waits(u) \/ Unheard(u))

-----------------------------------------------------------------------------
(* What comments of the code say and the code does not do.                 *)

(***************************************************************************)
(* types.go: "(d) MHO control message is successfully sent" leads to Done. *)
(***************************************************************************)
DoneMeansDelivered ==
  \A i \in Calls :
    heap[i] # None /\ heap[i].state = "Done" =>
      \E m \in BagToSet(controls) : m.call = i /\ m.outcome # "failed"

(***************************************************************************)
(* types.go: the control message (d) is sent from the state Approved.      *)
(***************************************************************************)
ControlOnlyApproved ==
  \A c \in Conns : wat[c].pc = "control" => heap[wat[c].val].state = "Approved"

StateOf(u) == heap[Get(u)].state

(***************************************************************************)
(* types.go: another target cell of a UE comes with an indication and      *)
(* leads to StateCreated, "(f) indication message for this UE arrives with *)
(* the target cell ID changed".  No other step changes the target of an    *)
(* entry.                                                                  *)
(***************************************************************************)
NewTargetStartsOver ==
  [][\A u \in UEs : HasEntry(u) /\ HasEntry(u)' /\ heap[Get(u)].tgt # (heap[Get(u)].tgt)'
        => StateOf(u)' = "StateCreated"]_vars

(***************************************************************************)
(* types.go: from Done an entry goes only to StateCreated, when the target *)
(* cell changes.                                                           *)
(***************************************************************************)
DoneLeftOnlyByNewTarget ==
  [][\A u \in UEs : HasEntry(u) /\ HasEntry(u)' /\ StateOf(u) = "Done"
        => StateOf(u)' \in {"Done", "StateCreated"}]_vars

(***************************************************************************)
(* README: if a handover decision is made, a control message is sent.      *)
(***************************************************************************)
DecisionIsSent ==
  \A i \in Calls :
    (heap[i] # None /\ heap[i].state = "Approved")
      ~> \E m \in BagToSet(controls) : m.call = i
=============================================================================
