------------------------------- MODULE Monitor -------------------------------
(***************************************************************************)
(* The indication monitors (pkg/monitoring).  One monitor runs for every   *)
(* subscription, that is for every E2 connection the application has       *)
(* handled; a node that reconnects gets a second one.                      *)
(***************************************************************************)
EXTENDS Store

CONSTANTS
  NodeOf,     \* the E2 node at the other end of a connection
  Mixed       \* connections on which other indications than for gNB UEs arrive

Indication == [ue : UEs, tgt : Cells, node : Nodes]

ASSUME ConnsAssumption ==
  /\ IsFiniteSet(Conns)
  /\ NodeOf \in [Conns -> Nodes]
  /\ Mixed \subseteq Conns
  /\ None \notin Indication

VARIABLES
  inds,      \* the indications received so far, by call process ID
  mon,       \* the goroutine of each monitor
  listening  \* whether Monitor.Start still waits on errCh

monitorVars == <<inds, mon, listening>>

(***************************************************************************)
(* pc "off": no connection yet; "creating": createSubscription is running; *)
(* "failed": it returned an error; "recv": in streamReader.Recv; "apply":  *)
(* the indication call has been looked up in the store, val is the object  *)
(* found; "blocked": in errCh <- err with nobody receiving.                *)
(***************************************************************************)
MonPC == {"off", "creating", "failed", "recv", "apply", "blocked"}

MonitorTypeOK ==
  /\ inds \in [Calls -> Indication \cup {None}]
  /\ mon \in [Conns -> [pc : MonPC, call : Calls \cup {None}, val : Calls \cup {None}]]
  /\ listening \in [Conns -> BOOLEAN]

MonAt(pc) == [pc |-> pc, call |-> None, val |-> None]

MonitorInit ==
  /\ mon = [c \in Conns |-> MonAt("off")]
  /\ listening = [c \in Conns |-> FALSE]

(***************************************************************************)
(* Monitor.Start: the receive loop is spawned and Start waits for an error.*)
(***************************************************************************)
StartMonitor(c) ==
  /\ mon' = [mon EXCEPT ![c] = MonAt("recv")]
  /\ listening' = [listening EXCEPT ![c] = TRUE]
  /\ UNCHANGED <<inds, storeVars>>

(***************************************************************************)
(* An indication for a gNB UE arrives: HasEntry and, if there is one, Get. *)
(* No entry is ever deleted, so an entry that HasEntry saw is still there  *)
(* for Get and the two calls can be one step.                              *)
(***************************************************************************)
RecvIndication(c) ==
  /\ mon[c].pc = "recv"
  /\ \E i \in Calls, u \in UEs, t \in Cells :
       /\ inds[i] = None
       /\ inds' = [inds EXCEPT ![i] = [ue |-> u, tgt |-> t, node |-> NodeOf[c]]]
       /\ mon' = [mon EXCEPT ![c] = [pc |-> "apply", call |-> i, val |-> Get(u)]]
  /\ UNCHANGED <<listening, storeVars>>

(***************************************************************************)
(* The rest of processInsertIndicationHeader2Message5: a new UE or a new   *)
(* target cell puts a fresh MetricValue, a denied request is announced     *)
(* again, anything else is dropped.                                        *)
(***************************************************************************)
ApplyIndication(c) ==
  LET i == mon[c].call
      nv == mon[c].val
      ind == inds[i]
  IN
  /\ mon[c].pc = "apply"
  /\ mon' = [mon EXCEPT ![c] = MonAt("recv")]
  /\ IF nv = None \/ heap[nv].tgt # ind.tgt
     THEN /\ heap' = [heap EXCEPT ![i] = [ue |-> ind.ue, tgt |-> ind.tgt,
                                          state |-> "StateCreated", node |-> ind.node]]
          /\ Put(ind.ue, i, "StateCreated")
     ELSE IF heap[nv].state = "Denied"
     THEN Put(ind.ue, nv, "Denied") /\ UNCHANGED heap
     ELSE UNCHANGED storeVars
  /\ UNCHANGED <<inds, listening>>

(***************************************************************************)
(* An indication that cannot be decoded, or whose UE ID is not a gNB UE    *)
(* ID, is an error.  The first one ends Start, which was waiting for it;   *)
(* nobody receives the second one and the loop stops there for good.       *)
(***************************************************************************)
RejectIndication(c) ==
  /\ c \in Mixed
  /\ mon[c].pc = "recv"
  /\ IF listening[c]
     THEN listening' = [listening EXCEPT ![c] = FALSE] /\ UNCHANGED mon
     ELSE mon' = [mon EXCEPT ![c] = MonAt("blocked")] /\ UNCHANGED listening
  /\ UNCHANGED <<inds, storeVars>>
=============================================================================
