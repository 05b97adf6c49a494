------------------------------ MODULE Lifecycle ------------------------------
(***************************************************************************)
(* The life of the E2 manager's goroutines (pkg/southbound/e2): the loop   *)
(* of watchE2Connections over topology events, the createSubscription      *)
(* goroutine it starts for a connection, the monitor and pump which that   *)
(* one starts, and the end of them all when the loop returns and its       *)
(* deferred cancel ends the context they share.                            *)
(*                                                                         *)
(* Streams are opened at the broker.  The application never closes one.    *)
(***************************************************************************)
EXTENDS Broker, Rnib

CONSTANTS
  NodeOf,      \* the E2 node at the other end of a connection
  Mixed,       \* connections on which indications arrive that are refused
  MaxChanges   \* bound on the changes of the nodes' topology data

ASSUME LifecycleAssumption ==
  /\ IsFiniteSet(Conns) /\ NodeOf \in [Conns -> Nodes]
  /\ Mixed \subseteq Conns
  /\ MaxChanges \in Nat
  /\ \A c, d \in Conns : ChannelOf[c] = ChannelOf[d] => NodeOf[c] = NodeOf[d]

VARIABLES
  changes,   \* how often the topology has changed a node's data
  rel,       \* the CONTROLS relation of each connection in the topology
  events,    \* topology events that the manager has not taken yet
  mgr,       \* the watchE2Connections goroutine
  sub,       \* the createSubscription goroutine of each connection
  monitor,   \* the receive loop of each connection's monitor
  start,     \* Monitor.Start, which waits for an error of that loop
  rejected   \* history: how many indications were refused

lifecycleVars ==
  <<brokerVars, topo, changes, rel, events, mgr, sub, monitor, start, rejected>>

(***************************************************************************)
(* mgr: "cells" is between the two topology reads for a REMOVED event.     *)
(* sub: "skipped" has no goroutine since the node lacked the function.     *)
(* monitor: "failedRecv" is in errCh <- err after Recv failed, "zero" goes *)
(* on with the zero Indication after that, "failedProcess" is in           *)
(* errCh <- err after an indication was refused.                           *)
(***************************************************************************)
MgrPC == {"starting", "watching", "cells", "ended"}
SubPC == {"off", "skipped", "create", "subscribe", "open", "monitor", "failed", "returned"}
MonitorPC == {"off", "recv", "failedRecv", "zero", "failedProcess"}
TopoEvent == [type : {"NONE", "ADDED", "REMOVED"}, conn : Conns]

LifecycleTypeOK ==
  /\ BrokerTypeOK /\ RnibTypeOK
  /\ changes \in 0 .. MaxChanges
  /\ rel \in [Conns -> {"absent", "present", "gone"}]
  /\ events \in Seq(TopoEvent)
  /\ mgr \in [pc : MgrPC, conn : Conns \cup {None}]
  /\ sub \in [Conns -> SubPC]
  /\ monitor \in [Conns -> MonitorPC]
  /\ start \in [Conns -> {"off", "waiting", "returned"}]
  /\ rejected \in [Conns -> 0 .. 2]

MgrAt(pc) == [pc |-> pc, conn |-> None]

\* Manager.Start; relations may be in the topology already
LifecycleInit ==
  /\ BrokerInit /\ RnibInit
  /\ changes = 0
  /\ rel \in [Conns -> {"absent", "present"}]
  /\ events = <<>>
  /\ mgr = MgrAt("starting")
  /\ sub = [c \in Conns |-> "off"]
  /\ monitor = [c \in Conns |-> "off"]
  /\ start = [c \in Conns |-> "off"]
  /\ rejected = [c \in Conns |-> 0]

\* the deferred cancel of Manager.Start runs as soon as the loop has returned
Canceled == mgr.pc = "ended"
Watching == mgr.pc \in {"watching", "cells"}

-----------------------------------------------------------------------------
(* The topology service (external).                                        *)

Notify(type, c) ==
  events' = IF Watching THEN Append(events, [type |-> type, conn |-> c]) ELSE events

RelationAdded(c) ==
  /\ rel[c] = "absent"
  /\ rel' = [rel EXCEPT ![c] = "present"]
  /\ Notify("ADDED", c)
  /\ UNCHANGED <<brokerVars, topo, changes, mgr, sub, monitor, start, rejected>>

RelationRemoved(c) ==
  /\ rel[c] = "present"
  /\ rel' = [rel EXCEPT ![c] = "gone"]
  /\ Notify("REMOVED", c)
  /\ UNCHANGED <<brokerVars, topo, changes, mgr, sub, monitor, start, rejected>>

NodeChanges(n) ==
  /\ changes < MaxChanges
  /\ changes' = changes + 1
  /\ \E info \in NodeInfos : topo' = [topo EXCEPT ![n] = info]
  /\ UNCHANGED <<brokerVars, rel, events, mgr, sub, monitor, start, rejected>>

-----------------------------------------------------------------------------
(***************************************************************************)
(* watchE2Connections opens its watch, which begins with a NONE event for  *)
(* every relation there is, or fails to and returns.                       *)
(***************************************************************************)
WatchE2Connections ==
  /\ mgr.pc = "starting"
  /\ \/ /\ mgr' = MgrAt("watching")
        /\ \E order \in SetToSeqs({c \in Conns : rel[c] = "present"}) :
             events' = [i \in DOMAIN order |-> [type |-> "NONE", conn |-> order[i]]]
     \/ FALSE \in Reads /\ mgr' = MgrAt("ended") /\ UNCHANGED events
  /\ UNCHANGED <<brokerVars, topo, changes, rel, sub, monitor, start, rejected>>

\* the loop ends without an error when the topology service closes the channel
WatchCloses ==
  /\ mgr.pc = "watching" /\ events = <<>> /\ FALSE \in Reads
  /\ mgr' = MgrAt("ended")
  /\ UNCHANGED <<brokerVars, topo, changes, rel, events, sub, monitor, start, rejected>>

\* Mutant: the connections that were there before the watch are ignored.
HandleAddedOnly ==
  LET c == Head(events).conn IN
  /\ mgr.pc = "watching" /\ events # <<>>
  /\ Head(events).type \in {"ADDED", "NONE"}
  /\ events' = Tail(events)
  /\ \E up \in Reads :
       sub' = IF Head(events).type = "NONE" THEN sub
              ELSE [sub EXCEPT ![c] = IF HasRcRANFunction(NodeOf[c], up) THEN "create"
                                      ELSE "skipped"]
  /\ UNCHANGED <<brokerVars, topo, changes, rel, mgr, monitor, start, rejected>>

(***************************************************************************)
(* An ADDED or NONE event starts createSubscription (and a watcher of the  *)
(* store, see Watchers) if the node has the RC RAN function.               *)
(***************************************************************************)
HandleAdded ==
  LET c == Head(events).conn IN
  /\ mgr.pc = "watching" /\ events # <<>>
  /\ Head(events).type \in {"ADDED", "NONE"}
  /\ events' = Tail(events)
  /\ \E up \in Reads :
       sub' = [sub EXCEPT ![c] = IF HasRcRANFunction(NodeOf[c], up) THEN "create"
                                 ELSE "skipped"]
  /\ UNCHANGED <<brokerVars, topo, changes, rel, mgr, monitor, start, rejected>>

\* A REMOVED event is skipped if the node lacks the function
HandleRemoved ==
  LET c == Head(events).conn IN
  /\ mgr.pc = "watching" /\ events # <<>> /\ Head(events).type = "REMOVED"
  /\ events' = Tail(events)
  /\ \E up \in Reads :
       mgr' = IF HasRcRANFunction(NodeOf[c], up) THEN [pc |-> "cells", conn |-> c] ELSE mgr
  /\ UNCHANGED <<brokerVars, topo, changes, rel, sub, monitor, start, rejected>>

\* ... and otherwise its cells are logged; a node without cells ends the loop
LogCells ==
  /\ mgr.pc = "cells"
  /\ \E up \in Reads :
       mgr' = MgrAt(IF GetCells(NodeOf[mgr.conn], up) = {} THEN "ended" ELSE "watching")
  /\ UNCHANGED <<brokerVars, topo, changes, rel, events, sub, monitor, start, rejected>>

-----------------------------------------------------------------------------
(***************************************************************************)
(* createSubscription reads the node's aspects and picks its RAN function. *)
(* Calls with a canceled context fail.                                     *)
(***************************************************************************)
ReadAspects(c) ==
  /\ sub[c] = "create"
  /\ \E up \in Reads, found \in GetRanFunction(NodeOf[c]) :
       sub' = [sub EXCEPT ![c] =
         IF GetE2NodeAspects(NodeOf[c], up /\ ~Canceled) /\ found
         THEN "subscribe" ELSE "failed"]
  /\ UNCHANGED <<brokerVars, topo, changes, rel, events, mgr, monitor, start, rejected>>

\* the event trigger and the actions are built and node.Subscribe is called
Subscribe(c) ==
  /\ sub[c] = "subscribe"
  /\ \E up \in Reads :
       sub' = [sub EXCEPT ![c] = IF up /\ ~Canceled THEN "open" ELSE "failed"]
  /\ UNCHANGED <<brokerVars, topo, changes, rel, events, mgr, monitor, start, rejected>>

\* OpenReader, in its two critical sections; the context is not looked at
OpenReader(c) ==
  /\ sub[c] = "open"
  /\ OpenLookup(c) \/ OpenInsert(c)
  /\ UNCHANGED <<topo, changes, rel, events, mgr, sub, monitor, start, rejected>>

\* the pump that was started after OpenReader
StartPump(c) ==
  /\ GetWriter(c)
  /\ UNCHANGED <<topo, changes, rel, events, mgr, sub, monitor, start, rejected>>

\* Mutant: Start does not wait for the first error.
StartMonitorDetached(c) ==
  /\ sub[c] = "open" /\ client[c].reader # None
  /\ sub' = [sub EXCEPT ![c] = "returned"]
  /\ monitor' = [monitor EXCEPT ![c] = "recv"]
  /\ start' = [start EXCEPT ![c] = "returned"]
  /\ UNCHANGED <<brokerVars, topo, changes, rel, events, mgr, rejected>>

\* Monitor.Start spawns the receive loop and waits for an error
StartMonitor(c) ==
  /\ sub[c] = "open" /\ client[c].reader # None
  /\ sub' = [sub EXCEPT ![c] = "monitor"]
  /\ monitor' = [monitor EXCEPT ![c] = "recv"]
  /\ start' = [start EXCEPT ![c] = "waiting"]
  /\ UNCHANGED <<brokerVars, topo, changes, rel, events, mgr, rejected>>

-----------------------------------------------------------------------------
\* processIndication refuses an indication
Refuse(c) ==
  /\ c \in Mixed /\ monitor[c] = "recv"
  /\ monitor' = [monitor EXCEPT ![c] = "failedProcess"]
  /\ rejected' = [rejected EXCEPT ![c] = @ + 1]
  /\ UNCHANGED <<brokerVars, topo, changes, rel, events, mgr, sub, start>>

\* Mutant: the canceled context is noticed only by a loop that Start waits for.
RecvFailsEarly(c) ==
  /\ Canceled /\ monitor[c] = "recv" /\ start[c] = "waiting"
  /\ monitor' = [monitor EXCEPT ![c] = "failedRecv"]
  /\ UNCHANGED <<brokerVars, topo, changes, rel, events, mgr, sub, start, rejected>>

\* Recv returns the error of the canceled context
RecvFails(c) ==
  /\ Canceled /\ monitor[c] = "recv"
  /\ monitor' = [monitor EXCEPT ![c] = "failedRecv"]
  /\ UNCHANGED <<brokerVars, topo, changes, rel, events, mgr, sub, start, rejected>>

\* Mutant: Start goes on waiting for errors.
ReportErrorAgain(c) ==
  /\ monitor[c] \in {"failedRecv", "failedProcess"} /\ start[c] = "waiting"
  /\ monitor' = [monitor EXCEPT ![c] = IF @ = "failedRecv" THEN "zero" ELSE "recv"]
  /\ UNCHANGED <<brokerVars, topo, changes, rel, events, mgr, sub, start, rejected>>

(***************************************************************************)
(* Start receives the error and returns; so does createSubscription.  The  *)
(* loop goes on: after a failed Recv with the zero Indication.             *)
(***************************************************************************)
ReportError(c) ==
  /\ monitor[c] \in {"failedRecv", "failedProcess"} /\ start[c] = "waiting"
  /\ start' = [start EXCEPT ![c] = "returned"]
  /\ sub' = [sub EXCEPT ![c] = "returned"]
  /\ monitor' = [monitor EXCEPT ![c] = IF @ = "failedRecv" THEN "zero" ELSE "recv"]
  /\ UNCHANGED <<brokerVars, topo, changes, rel, events, mgr, rejected>>

\* the zero Indication decodes to a message without a gNB UE ID: refused
ProcessZero(c) ==
  /\ monitor[c] = "zero"
  /\ monitor' = [monitor EXCEPT ![c] = "failedProcess"]
  /\ UNCHANGED <<brokerVars, topo, changes, rel, events, mgr, sub, start, rejected>>

\* Start sees the end of the context first
StartCanceled(c) ==
  /\ Canceled /\ start[c] = "waiting"
  /\ start' = [start EXCEPT ![c] = "returned"]
  /\ sub' = [sub EXCEPT ![c] = "returned"]
  /\ UNCHANGED <<brokerVars, topo, changes, rel, events, mgr, monitor, rejected>>

-----------------------------------------------------------------------------
ManagerNext == WatchE2Connections \/ HandleAdded \/ HandleRemoved \/ LogCells

CreateNext(c) == ReadAspects(c) \/ Subscribe(c) \/ OpenReader(c) \/ StartMonitor(c)

LoopNext(c) == RecvFails(c) \/ ReportError(c) \/ ProcessZero(c)

\* The loop is stuck for good: nobody receives its error any more.
Stuck(c) == monitor[c] \in {"failedRecv", "failedProcess"} /\ start[c] = "returned"

\* Every goroutine waits for the topology or for indications, or has ended
Idle ==
  /\ Canceled \/ (mgr.pc = "watching" /\ events = <<>>)
  /\ \A c \in Conns :
       /\ sub[c] \notin {"create", "subscribe", "open"}
       /\ client[c].pc # "opened"
       /\ sub[c] = "monitor" => ~Canceled
       /\ monitor[c] \in {"off", "recv"} \/ Stuck(c)
  /\ UNCHANGED lifecycleVars

LifecycleNext ==
  \/ ManagerNext \/ WatchCloses
  \/ \E c \in Conns : \/ CreateNext(c) \/ StartPump(c) \/ LoopNext(c) \/ StartCanceled(c)
                      \/ Refuse(c) \/ RelationAdded(c) \/ RelationRemoved(c)
  \/ \E n \in Nodes : NodeChanges(n)
  \/ Idle

LifecycleSpec == LifecycleInit /\ [][LifecycleNext]_lifecycleVars

(***************************************************************************)
(* The application's goroutines run when they can and calls return.  The   *)
(* topology and the nodes owe nothing.                                     *)
(***************************************************************************)
LifecycleFairSpec ==
  /\ LifecycleSpec
  /\ WF_lifecycleVars(ManagerNext)
  /\ \A c \in Conns :
       /\ WF_lifecycleVars(CreateNext(c)) /\ WF_lifecycleVars(StartPump(c))
       /\ WF_lifecycleVars(LoopNext(c)) /\ WF_lifecycleVars(StartCanceled(c))

-----------------------------------------------------------------------------
(***************************************************************************)
(* A monitor outlives the first indication it has to refuse: its loop is   *)
(* stuck on errCh only after a second one, or when the manager's context   *)
(* has ended.  A node that never sends such an indication is heard for as  *)
(* long as the manager runs.                                               *)
(***************************************************************************)
FirstErrorSurvived == \A c \in Conns : Stuck(c) => Canceled \/ rejected[c] = 2

(***************************************************************************)
(* Indications are attributed to the node they come from: a monitor reads  *)
(* only streams that pumps of its own node write to, although all nodes    *)
(* share one subscription name and their subscriptions race for streams.   *)
(***************************************************************************)
FedByOwnNode ==
  \A c, d \in Conns :
    client[c].reader # None /\ client[c].reader = client[d].writer => NodeOf[c] = NodeOf[d]

(***************************************************************************)
(* Every monitor that was started gets its pump.                           *)
(***************************************************************************)
EveryMonitorFed ==
  \A c \in Conns :
    (monitor[c] = "recv") ~> (client[c].pc = "pumping" /\ client[c].writer = client[c].reader)

(***************************************************************************)
(* A connection that the topology announces is dealt with: it is monitored *)
(* or given up, unless the manager has ended.                              *)
(***************************************************************************)
ConnectionHandled ==
  \A c \in Conns :
    (Watching /\ rel[c] = "present")
      ~> (sub[c] \in {"skipped", "failed", "monitor", "returned"} \/ Canceled)

(***************************************************************************)
(* When the manager's loop returns, everything it started comes to rest:   *)
(* no createSubscription goroutine is left and no monitor receives again,  *)
(* whatever point they had reached, the ones that open a stream after the  *)
(* end included.                                                           *)
(***************************************************************************)
AtRest ==
  \A c \in Conns : sub[c] \in {"off", "skipped", "failed", "returned"}
                   /\ (monitor[c] = "off" \/ Stuck(c))
EndComesToRest == []~Canceled \/ <>[]AtRest

-----------------------------------------------------------------------------
(***************************************************************************)
(* README: onos-mho subscribes to "E2 nodes that support the E2SM-MHO      *)
(* service model".                                                         *)
(***************************************************************************)
Supports(n) == HasRcRANFunction(n, TRUE) /\ TRUE \in GetRanFunction(n)
SupportedSubscribed ==
  \A c \in Conns :
    (rel[c] = "present" /\ Supports(NodeOf[c]))
      ~> (monitor[c] # "off" \/ rel[c] # "present" \/ ~Supports(NodeOf[c]))
=============================================================================
