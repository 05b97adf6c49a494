----------------------------- MODULE Southbound -----------------------------
(***************************************************************************)
(* The E2 manager (pkg/southbound/e2).  For every E2 connection that       *)
(* appears it creates a subscription with a monitor and starts a watcher   *)
(* of the store, watchMHOChanges, that sends the handover control messages *)
(* of that connection's node.                                              *)
(***************************************************************************)
EXTENDS Monitor

CONSTANT
  ControlOutcomes   \* how node.Control may end, see Outcome

(***************************************************************************)
(* "acked": the node got the message and the reply came back; "unacked":   *)
(* the node got it but Control returned an error; "failed": Control        *)
(* returned an error and the node never got the message.                   *)
(***************************************************************************)
Outcome == {"acked", "unacked", "failed"}

ASSUME OutcomeAssumption == ControlOutcomes \subseteq Outcome

VARIABLES
  wat,       \* the watchMHOChanges goroutine of each connection
  controls   \* history: bag of the control messages that were attempted

southboundVars == <<wat, controls>>

ControlMessage ==
  [to : Nodes, ue : UEs, tgt : Cells, call : Calls, outcome : Outcome]

(***************************************************************************)
(* pc "off": no connection; "starting": spawned, Watch not called yet;     *)
(* "idle": in range ch; "control": val was obtained by Get(key) and its    *)
(* control message is to be sent; "mark": node.Control has returned;       *)
(* "put": its State field has been written, Put is next.                   *)
(***************************************************************************)
WatPC == {"off", "starting", "idle", "control", "mark", "put"}

SouthboundTypeOK ==
  /\ wat \in [Conns -> [pc : WatPC, key : UEs \cup {None}, val : Calls \cup {None}]]
  /\ IsABag(controls) /\ BagToSet(controls) \subseteq ControlMessage

WatAt(pc) == [pc |-> pc, key |-> None, val |-> None]

SouthboundInit == wat = [c \in Conns |-> WatAt("off")]

(***************************************************************************)
(* watchE2Connections gets an ADDED or NONE event for a node with the RC   *)
(* RAN function and spawns its two goroutines.  An event for a node        *)
(* without the function is skipped and changes nothing.                    *)
(***************************************************************************)
Connect(c) ==
  /\ wat[c].pc = "off"
  /\ wat' = [wat EXCEPT ![c] = WatAt("starting")]
  /\ mon' = [mon EXCEPT ![c] = MonAt("creating")]
  /\ UNCHANGED <<controls, inds, listening, storeVars>>

\* createSubscription succeeds up to Monitor.Start
CreateSubscription(c) ==
  /\ mon[c].pc = "creating"
  /\ StartMonitor(c)
  /\ UNCHANGED southboundVars

(***************************************************************************)
(* createSubscription returns an error: no aspects, no RAN function, or    *)
(* Subscribe or OpenReader failed.  It is logged and not tried again; the  *)
(* watcher goroutine of the connection is not affected.                    *)
(***************************************************************************)
FailSubscription(c) ==
  /\ mon[c].pc = "creating"
  /\ mon' = [mon EXCEPT ![c] = MonAt("failed")]
  /\ UNCHANGED <<inds, listening, southboundVars, storeVars>>

\* watchMHOChanges calls Watch
WatchMHOChanges(c) ==
  /\ wat[c].pc = "starting"
  /\ wat' = [wat EXCEPT ![c] = WatAt("idle")]
  /\ Watch(c)
  /\ UNCHANGED <<controls, monitorVars>>

\* Mutant: the E2NodeID of the value is not compared.
ReceiveChangeAnyNode(c, s) ==
  /\ wat[c].pc = "idle"
  /\ Receive(c, s)
  /\ wat' = [wat EXCEPT ![c] = [pc |-> "control", key |-> s.ev.key,
                                val |-> Get(s.ev.key)]]
  /\ UNCHANGED <<controls, records, heap, watchers, audience, monitorVars>>

(***************************************************************************)
(* The watcher takes an event that it handles, reads the entry of its key  *)
(* and goes on if the value that the entry has now belongs to this node.   *)
(***************************************************************************)
ReceiveChange(c, s) ==
  LET nv == Get(s.ev.key) IN
  /\ wat[c].pc = "idle"
  /\ Receive(c, s)
  /\ wat' = IF heap[nv].node = NodeOf[c]
            THEN [wat EXCEPT ![c] = [pc |-> "control", key |-> s.ev.key, val |-> nv]]
            ELSE wat
  /\ UNCHANGED <<controls, records, heap, watchers, audience, monitorVars>>

(***************************************************************************)
(* The header and payload are built from the value and node.Control is     *)
(* called; an error is logged and otherwise ignored.                       *)
(***************************************************************************)
SendControl(c) ==
  LET nv == wat[c].val IN
  /\ wat[c].pc = "control"
  /\ \E o \in ControlOutcomes :
       controls' = BX!BagAdd(controls,
                     [to |-> NodeOf[c], ue |-> heap[nv].ue, tgt |-> heap[nv].tgt,
                      call |-> nv, outcome |-> o])
  /\ wat' = [wat EXCEPT ![c].pc = "mark"]
  /\ UNCHANGED <<monitorVars, storeVars>>

\* Mutant: the State field is not written before Put.
MarkDoneForgotten(c) ==
  /\ wat[c].pc = "mark"
  /\ wat' = [wat EXCEPT ![c].pc = "put"]
  /\ UNCHANGED <<controls, storeVars, monitorVars>>

\* Mutant: the value the store holds now is marked, not the one that was sent.
MarkDoneReread(c) ==
  /\ wat[c].pc = "mark"
  /\ heap' = [heap EXCEPT ![Get(wat[c].key)].state = "Done"]
  /\ wat' = [wat EXCEPT ![c].pc = "put"]
  /\ UNCHANGED <<controls, records, watchers, sends, audience, monitorVars>>

\* nv.State = Done, in place and without a lock
MarkDone(c) ==
  /\ wat[c].pc = "mark"
  /\ heap' = [heap EXCEPT ![wat[c].val].state = "Done"]
  /\ wat' = [wat EXCEPT ![c].pc = "put"]
  /\ UNCHANGED <<controls, records, watchers, sends, audience, monitorVars>>

\* Put(ctx, key, nv, Done)
PutDone(c) ==
  /\ wat[c].pc = "put"
  /\ Put(wat[c].key, wat[c].val, "Done")
  /\ wat' = [wat EXCEPT ![c] = WatAt("idle")]
  /\ UNCHANGED <<controls, heap, monitorVars>>
=============================================================================
