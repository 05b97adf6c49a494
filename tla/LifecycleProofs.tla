-------------------------- MODULE LifecycleProofs --------------------------
(***************************************************************************)
(* Proofs about the goroutines of the E2 manager for any number of nodes,  *)
(* connections, channels and topology events.                              *)
(***************************************************************************)
EXTENDS Lifecycle, BrokerProofs, FiniteSetTheorems

-----------------------------------------------------------------------------
(***************************************************************************)
(* The manager and its goroutines use the broker as Broker describes.      *)
(***************************************************************************)
LEMMA BrokerStep == [LifecycleNext]_lifecycleVars => [BrokerNext]_brokerVars
<1> SUFFICES ASSUME [LifecycleNext]_lifecycleVars PROVE [BrokerNext]_brokerVars
  OBVIOUS
<1>1. ASSUME ManagerNext \/ WatchCloses \/ Idle PROVE UNCHANGED brokerVars
  BY <1>1 DEF ManagerNext, WatchE2Connections, HandleAdded, HandleRemoved, LogCells,
     WatchCloses, Idle, lifecycleVars
<1>2. ASSUME NEW c \in Conns, CreateNext(c) \/ StartPump(c) PROVE [BrokerNext]_brokerVars
  BY <1>2 DEF CreateNext, StartPump, ReadAspects, Subscribe, OpenReader, StartMonitor,
     BrokerNext, ConnNext
<1>3. ASSUME NEW c \in Conns,
             \/ LoopNext(c) \/ StartCanceled(c) \/ Refuse(c)
             \/ RelationAdded(c) \/ RelationRemoved(c)
      PROVE  UNCHANGED brokerVars
  BY <1>3 DEF LoopNext, RecvFails, ReportError, ProcessZero, StartCanceled, Refuse,
     RelationAdded, RelationRemoved
<1>4. ASSUME NEW n \in Nodes, NodeChanges(n) PROVE UNCHANGED brokerVars
  BY <1>4 DEF NodeChanges
<1>5. CASE UNCHANGED lifecycleVars
  BY <1>5 DEF lifecycleVars
<1> QED
  BY <1>1, <1>2, <1>3, <1>4, <1>5 DEF LifecycleNext

(***************************************************************************)
(* The E2 manager's goroutines together implement the clients of Broker,   *)
(* so that what is proved of the broker holds while the manager runs.      *)
(***************************************************************************)
THEOREM ManagerUsesBroker == LifecycleSpec => BrokerSpec
<1>1. LifecycleInit => BrokerInit
  BY DEF LifecycleInit
<1> QED
  BY <1>1, BrokerStep, PTL DEF LifecycleSpec, BrokerSpec

\* The invariant of the broker holds while the manager runs.
LEMMA LifecycleBroker == LifecycleSpec => []BInv
<1>1. BInv /\ [BrokerNext]_brokerVars => BInv'
  BY BrokerNextInv
<1> QED
  BY <1>1, BrokerInitInv, ManagerUsesBroker, PTL DEF BrokerSpec

-----------------------------------------------------------------------------
(***************************************************************************)
(* The inductive invariant.                                                *)
(***************************************************************************)
Announces(event) == event.type \in {"NONE", "ADDED"}

(***************************************************************************)
(* A connection is announced once: what is announced in the queue has not  *)
(* been handled, and not twice, so that no goroutine is started again for  *)
(* a connection that has one.                                              *)
(***************************************************************************)
EventsInv ==
  /\ \A i \in 1 .. Len(events) : Announces(events[i]) =>
       /\ sub[events[i].conn] = "off" /\ rel[events[i].conn] # "absent"
       /\ \A j \in 1 .. Len(events) :
            Announces(events[j]) /\ events[j].conn = events[i].conn => j = i
  /\ \A c \in Conns : sub[c] # "off" => rel[c] # "absent" /\ mgr.pc # "starting"

(***************************************************************************)
(* The receive loop and Start run after createSubscription got that far.   *)
(* While Start waits, at most one indication was refused, the one it is    *)
(* about to hear of; when it has returned and the context lasts, it was    *)
(* that one it has heard of, and a loop in errCh <- err has the second.    *)
(***************************************************************************)
RunInv(c) ==
  /\ sub[c] \notin {"monitor", "returned"} =>
       monitor[c] = "off" /\ start[c] = "off" /\ rejected[c] = 0
  /\ sub[c] = "monitor" => start[c] = "waiting"
  /\ sub[c] = "returned" => start[c] = "returned"
  /\ start[c] = "waiting" =>
       /\ monitor[c] \in {"recv", "failedRecv", "failedProcess"}
       /\ rejected[c] = IF monitor[c] = "failedProcess" THEN 1 ELSE 0
  /\ start[c] = "returned" =>
       /\ monitor[c] # "failedProcess" => rejected[c] <= 1
       /\ ~Canceled => rejected[c] = IF monitor[c] = "failedProcess" THEN 2 ELSE 1
  /\ monitor[c] \in {"failedRecv", "zero"} => Canceled

\* Only the pump of a connection has a writer.
WriterInv == \A c \in Conns : client[c].writer # None => client[c].pc = "pumping"

LInv ==
  /\ LifecycleTypeOK /\ EventsInv /\ WriterInv
  /\ \A c \in Conns : RunInv(c)

\* The manager before it opens its watch.
LEMMA LifecycleInitInv == LifecycleInit => LInv
<1> SUFFICES ASSUME LifecycleInit PROVE LInv
  OBVIOUS
<1> USE DEF LifecycleInit
<1>1. BrokerTypeOK
  BY BrokerInitInv DEF BInv
<1>2. LifecycleTypeOK
  BY <1>1, LifecycleAssumption
  DEF LifecycleTypeOK, RnibInit, RnibTypeOK, MgrAt, MgrPC, SubPC, MonitorPC
<1>3. EventsInv /\ WriterInv
  BY DEF EventsInv, WriterInv, BrokerInit, ClientAt
<1>4. \A c \in Conns : RunInv(c)
  BY DEF RunInv
<1> QED
  BY <1>2, <1>3, <1>4 DEF LInv

(***************************************************************************)
(* A step of the goroutines of one connection that has been announced.     *)
(***************************************************************************)
LEMMA GoroutineStep ==
  ASSUME LInv, BrokerTypeOK', WriterInv', NEW c \in Conns,
         NEW p \in SubPC, NEW m \in MonitorPC, NEW s \in {"off", "waiting", "returned"},
         NEW k \in 0 .. 2,
         sub' = [sub EXCEPT ![c] = p], monitor' = [monitor EXCEPT ![c] = m],
         start' = [start EXCEPT ![c] = s], rejected' = [rejected EXCEPT ![c] = k],
         UNCHANGED <<topo, changes, rel, events, mgr>>,
         sub[c] # "off", RunInv(c)'
  PROVE  LInv'
<1> USE DEF LInv
<1>1. LifecycleTypeOK'
  BY DEF LifecycleTypeOK, RnibTypeOK
<1>2. /\ \A d \in Conns \ {c} : /\ sub'[d] = sub[d] /\ monitor'[d] = monitor[d]
                                /\ start'[d] = start[d] /\ rejected'[d] = rejected[d]
      /\ sub'[c] = p
  BY DEF LifecycleTypeOK
<1>3. EventsInv'
  BY <1>2 DEF EventsInv, Announces, LifecycleTypeOK, TopoEvent
<1>4. \A d \in Conns \ {c} : RunInv(d)'
  BY <1>2 DEF RunInv, Canceled
<1> QED
  BY <1>1, <1>3, <1>4

\* createSubscription up to the start of its monitor.
LEMMA CreateInv ==
  ASSUME LInv, BInv, BInv', NEW c \in Conns, CreateNext(c)
  PROVE  LInv'
<1>0. BrokerTypeOK' /\ sub[c] \in SubPC /\ monitor[c] \in MonitorPC
      /\ start[c] \in {"off", "waiting", "returned"} /\ rejected[c] \in 0 .. 2
      /\ RunInv(c) /\ WriterInv /\ sub \in [Conns -> SubPC] /\ monitor \in [Conns -> MonitorPC]
      /\ start \in [Conns -> {"off", "waiting", "returned"}]
      /\ rejected \in [Conns -> 0 .. 2]
  BY DEF LInv, LifecycleTypeOK, BInv
<1>1. CASE ReadAspects(c) \/ Subscribe(c)
  <2>1. PICK p \in {"subscribe", "open", "failed"} : sub' = [sub EXCEPT ![c] = p]
    BY <1>1 DEF ReadAspects, Subscribe
  <2>2. /\ UNCHANGED <<brokerVars, topo, changes, rel, events, mgr, monitor, start, rejected>>
        /\ sub[c] \in {"create", "subscribe"}
    BY <1>1 DEF ReadAspects, Subscribe
  <2>3. RunInv(c)' /\ WriterInv'
    BY <1>0, <2>1, <2>2 DEF RunInv, WriterInv, Canceled, brokerVars
  <2>4. PICK m \in MonitorPC, s \in {"off", "waiting", "returned"}, k \in 0 .. 2 :
          /\ monitor' = [monitor EXCEPT ![c] = m] /\ start' = [start EXCEPT ![c] = s]
          /\ rejected' = [rejected EXCEPT ![c] = k]
    BY <1>0, <2>2
  <2>5. p \in SubPC /\ sub[c] # "off"
    BY <2>2 DEF SubPC
  <2> QED
    BY <1>0, <2>1, <2>2, <2>3, <2>4, <2>5, GoroutineStep
<1>2. CASE OpenReader(c)
  <2>1. UNCHANGED <<topo, changes, rel, events, mgr, sub, monitor, start, rejected>>
        /\ sub[c] = "open"
    BY <1>2 DEF OpenReader
  <2>2. WriterInv'
    BY <1>0, <1>2 DEF OpenReader, OpenLookup, OpenInsert, WriterInv, ClientAt, BInv, BrokerTypeOK
  <2>3. RunInv(c)'
    BY <1>0, <2>1 DEF RunInv, Canceled
  <2>4. PICK p \in SubPC, m \in MonitorPC, s \in {"off", "waiting", "returned"},
             k \in 0 .. 2 :
          /\ sub' = [sub EXCEPT ![c] = p] /\ monitor' = [monitor EXCEPT ![c] = m]
          /\ start' = [start EXCEPT ![c] = s] /\ rejected' = [rejected EXCEPT ![c] = k]
    BY <1>0, <2>1
  <2>5. sub[c] # "off" /\ UNCHANGED <<topo, changes, rel, events, mgr>>
    BY <2>1
  <2> QED
    BY <1>0, <2>2, <2>3, <2>4, <2>5, GoroutineStep
<1>3. CASE StartMonitor(c)
  <2>1. /\ sub' = [sub EXCEPT ![c] = "monitor"] /\ monitor' = [monitor EXCEPT ![c] = "recv"]
        /\ start' = [start EXCEPT ![c] = "waiting"]
        /\ UNCHANGED <<brokerVars, topo, changes, rel, events, mgr, rejected>>
        /\ sub[c] = "open"
    BY <1>3 DEF StartMonitor
  <2>2. RunInv(c)' /\ WriterInv'
    BY <1>0, <2>1 DEF RunInv, WriterInv, Canceled, brokerVars
  <2>3. rejected' = [rejected EXCEPT ![c] = rejected[c]]
        /\ "monitor" \in SubPC /\ "recv" \in MonitorPC
    BY <1>0, <2>1 DEF SubPC, MonitorPC
  <2> QED
    BY <1>0, <2>1, <2>2, <2>3, GoroutineStep
<1> QED
  BY <1>1, <1>2, <1>3 DEF CreateNext

\* The receive loop and Start, with errors from indications and the context.
LEMMA LoopInv ==
  ASSUME LInv, BInv', NEW c \in Conns, LoopNext(c) \/ StartCanceled(c) \/ Refuse(c)
  PROVE  LInv'
<1>0. BrokerTypeOK' /\ sub[c] \in SubPC /\ monitor[c] \in MonitorPC
      /\ start[c] \in {"off", "waiting", "returned"} /\ rejected[c] \in 0 .. 2
      /\ RunInv(c) /\ WriterInv /\ sub \in [Conns -> SubPC] /\ monitor \in [Conns -> MonitorPC]
      /\ start \in [Conns -> {"off", "waiting", "returned"}]
      /\ rejected \in [Conns -> 0 .. 2]
  BY DEF LInv, LifecycleTypeOK, BInv
<1>1. /\ UNCHANGED <<brokerVars, topo, changes, rel, events, mgr>>
      /\ monitor[c] # "off" \/ start[c] # "off"
  BY DEF LoopNext, RecvFails, ReportError, ProcessZero, StartCanceled, Refuse
<1>2. sub[c] \in {"monitor", "returned"} /\ WriterInv'
  BY <1>0, <1>1 DEF RunInv, WriterInv, brokerVars
<1>3. /\ sub'[c] \in SubPC /\ monitor'[c] \in MonitorPC /\ rejected'[c] \in 0 .. 2
      /\ start'[c] \in {"off", "waiting", "returned"} /\ RunInv(c)'
  <2>1. CASE Refuse(c)
    BY <1>0, <1>1, <1>2, <2>1 DEF Refuse, RunInv, Canceled, SubPC, MonitorPC
  <2>2. CASE RecvFails(c) \/ ProcessZero(c)
    BY <1>0, <1>1, <1>2, <2>2 DEF RecvFails, ProcessZero, RunInv, Canceled, SubPC, MonitorPC
  <2>3. CASE ReportError(c)
    BY <1>0, <1>1, <1>2, <2>3 DEF ReportError, RunInv, Canceled, SubPC, MonitorPC
  <2>4. CASE StartCanceled(c)
    BY <1>0, <1>1, <1>2, <2>4 DEF StartCanceled, RunInv, Canceled, SubPC, MonitorPC
  <2> QED
    BY <2>1, <2>2, <2>3, <2>4 DEF LoopNext
<1>4. PICK p \in SubPC, m \in MonitorPC, s \in {"off", "waiting", "returned"}, k \in 0 .. 2 :
        /\ sub' = [sub EXCEPT ![c] = p] /\ monitor' = [monitor EXCEPT ![c] = m]
        /\ start' = [start EXCEPT ![c] = s] /\ rejected' = [rejected EXCEPT ![c] = k]
  <2>1. /\ sub' = [sub EXCEPT ![c] = sub'[c]]
        /\ monitor' = [monitor EXCEPT ![c] = monitor'[c]]
        /\ start' = [start EXCEPT ![c] = start'[c]]
        /\ rejected' = [rejected EXCEPT ![c] = rejected'[c]]
    BY <1>0 DEF LoopNext, RecvFails, ReportError, ProcessZero, StartCanceled, Refuse
  <2> QED
    BY <1>3, <2>1
<1> QED
  BY <1>0, <1>1, <1>2, <1>3, <1>4, GoroutineStep

(***************************************************************************)
(* A step that leaves the goroutines of all connections alone and adds no  *)
(* announcement to the queue; the manager may end.                         *)
(***************************************************************************)
LEMMA ManagerStep ==
  ASSUME LInv, BrokerTypeOK', RnibTypeOK', WriterInv', EventsInv',
         UNCHANGED <<sub, monitor, start, rejected>>,
         changes' \in 0 .. MaxChanges, rel' \in [Conns -> {"absent", "present", "gone"}],
         events' \in Seq(TopoEvent), mgr' \in [pc : MgrPC, conn : Conns \cup {None}],
         mgr.pc = "ended" => mgr'.pc = "ended"
  PROVE  LInv'
<1>1. LifecycleTypeOK'
  BY DEF LInv, LifecycleTypeOK
<1>2. ASSUME NEW c \in Conns PROVE RunInv(c)'
  BY DEF LInv, RunInv, Canceled
<1> QED
  BY <1>1, <1>2 DEF LInv

\* An event names a connection.
LEMMA EventConn ==
  ASSUME NEW q \in Seq(TopoEvent), NEW i \in 1 .. Len(q)
  PROVE  q[i] \in TopoEvent /\ q[i].conn \in Conns
<1>1. q[i] \in TopoEvent
  OBVIOUS
<1> QED
  BY <1>1 DEF TopoEvent

\* What a step that says nothing of the events keeps of them.
LEMMA EventsKept ==
  ASSUME EventsInv, events \in Seq(TopoEvent), UNCHANGED <<events, sub>>,
         \A c \in Conns : rel[c] # "absent" => rel'[c] # "absent",
         mgr'.pc = "starting" => mgr.pc = "starting"
  PROVE  EventsInv'
<1>1. \A i \in 1 .. Len(events) : events[i].conn \in Conns
  BY EventConn
<1> QED
  BY <1>1 DEF EventsInv, Announces

\* A relation appears in the topology and is announced, if there is a watch.
LEMMA RelationAddedInv ==
  ASSUME LInv, BInv', NEW c \in Conns, RelationAdded(c)
  PROVE  LInv'
<1>1. /\ UNCHANGED <<brokerVars, topo, changes, mgr, sub, monitor, start, rejected>>
      /\ rel' = [rel EXCEPT ![c] = "present"] /\ rel[c] = "absent"
  BY DEF RelationAdded
<1>2. /\ rel \in [Conns -> {"absent", "present", "gone"}] /\ events \in Seq(TopoEvent)
      /\ EventsInv
  BY DEF LInv, LifecycleTypeOK
<1>3. rel' \in [Conns -> {"absent", "present", "gone"}] /\ rel'[c] # "absent"
      /\ \A d \in Conns : rel[d] # "absent" => rel'[d] # "absent"
  BY <1>1, <1>2
<1>4. sub[c] = "off"
  BY <1>1, <1>2 DEF EventsInv
<1>5. events' \in Seq(TopoEvent) /\ EventsInv'
  <2> DEFINE e == [type |-> "ADDED", conn |-> c]
  <2>1. e \in TopoEvent
    BY DEF TopoEvent
  <2>2. CASE events' = Append(events, e)
    <3>1. /\ events' \in Seq(TopoEvent) /\ Len(events') = Len(events) + 1
          /\ \A i \in 1 .. Len(events) : events'[i] = events[i]
          /\ events'[Len(events) + 1] = e
      BY <1>2, <2>1, <2>2
    <3>2. \A i \in 1 .. Len(events) : events[i].conn \in Conns
      BY <1>2, EventConn
    <3>3. \A i \in 1 .. Len(events) : Announces(events[i]) => events[i].conn # c
      BY <1>1, <1>2 DEF EventsInv
    <3> QED
      BY <1>1, <1>2, <1>3, <1>4, <3>1, <3>2, <3>3, SMTT(30) DEF EventsInv, Announces
  <2>3. CASE events' = events
    BY <1>1, <1>2, <1>3, <2>3, EventsKept
  <2> QED
    BY <2>2, <2>3 DEF RelationAdded, Notify
<1>6. WriterInv' /\ BrokerTypeOK' /\ RnibTypeOK'
  BY <1>1 DEF LInv, BInv, WriterInv, brokerVars, LifecycleTypeOK, RnibTypeOK
<1>7. changes' \in 0 .. MaxChanges /\ mgr' \in [pc : MgrPC, conn : Conns \cup {None}]
  BY <1>1 DEF LInv, LifecycleTypeOK
<1> QED
  BY <1>1, <1>3, <1>5, <1>6, <1>7, ManagerStep

\* A relation leaves the topology.
LEMMA RelationRemovedInv ==
  ASSUME LInv, BInv', NEW c \in Conns, RelationRemoved(c)
  PROVE  LInv'
<1>1. /\ UNCHANGED <<brokerVars, topo, changes, mgr, sub, monitor, start, rejected>>
      /\ rel' = [rel EXCEPT ![c] = "gone"]
  BY DEF RelationRemoved
<1>2. /\ rel \in [Conns -> {"absent", "present", "gone"}] /\ events \in Seq(TopoEvent)
      /\ EventsInv
  BY DEF LInv, LifecycleTypeOK
<1>3. rel' \in [Conns -> {"absent", "present", "gone"}]
      /\ \A d \in Conns : rel[d] # "absent" => rel'[d] # "absent"
  BY <1>1, <1>2
<1>4. events' \in Seq(TopoEvent) /\ EventsInv'
  <2> DEFINE e == [type |-> "REMOVED", conn |-> c]
  <2>1. e \in TopoEvent /\ ~ Announces(e)
    BY DEF TopoEvent, Announces
  <2>2. CASE events' = Append(events, e)
    <3>1. /\ events' \in Seq(TopoEvent) /\ Len(events') = Len(events) + 1
          /\ \A i \in 1 .. Len(events) : events'[i] = events[i]
          /\ events'[Len(events) + 1] = e
      BY <1>2, <2>1, <2>2
    <3>2. \A i \in 1 .. Len(events) : events[i].conn \in Conns
      BY <1>2, EventConn
    <3> QED
      BY <1>1, <1>2, <1>3, <2>1, <3>1, <3>2, SMTT(30) DEF EventsInv, Announces
  <2>3. CASE events' = events
    BY <1>1, <1>2, <1>3, <2>3, EventsKept
  <2> QED
    BY <2>2, <2>3 DEF RelationRemoved, Notify
<1>5. WriterInv' /\ BrokerTypeOK' /\ RnibTypeOK'
  BY <1>1 DEF LInv, BInv, WriterInv, brokerVars, LifecycleTypeOK, RnibTypeOK
<1>6. changes' \in 0 .. MaxChanges /\ mgr' \in [pc : MgrPC, conn : Conns \cup {None}]
  BY <1>1 DEF LInv, LifecycleTypeOK
<1> QED
  BY <1>1, <1>3, <1>4, <1>5, <1>6, ManagerStep

\* The watch begins with one event for every relation there is.
LEMMA WatchInv ==
  ASSUME LInv, BInv', WatchE2Connections
  PROVE  LInv'
<1>1. /\ UNCHANGED <<brokerVars, topo, changes, rel, sub, monitor, start, rejected>>
      /\ mgr.pc = "starting"
  BY DEF WatchE2Connections
<1>2. /\ rel \in [Conns -> {"absent", "present", "gone"}] /\ events \in Seq(TopoEvent)
      /\ EventsInv
  BY DEF LInv, LifecycleTypeOK
<1>3. \A c \in Conns : sub[c] = "off"
  BY <1>1, <1>2 DEF EventsInv
<1>4. mgr' \in [pc : MgrPC, conn : Conns \cup {None}] /\ mgr'.pc # "starting"
  <2>1. mgr' = MgrAt("watching") \/ mgr' = MgrAt("ended")
    BY DEF WatchE2Connections
  <2> QED
    BY <2>1 DEF MgrAt, MgrPC
<1>5. events' \in Seq(TopoEvent) /\ EventsInv'
  <2>1. CASE events' = events
    BY <1>1, <1>2, <1>4, <2>1, EventsKept
  <2>2. CASE \E order \in SetToSeqs({c \in Conns : rel[c] = "present"}) :
               events' = [i \in DOMAIN order |-> [type |-> "NONE", conn |-> order[i]]]
    <3> DEFINE S == {c \in Conns : rel[c] = "present"}
    <3>1. PICK order \in SetToSeqs(S) :
            events' = [i \in DOMAIN order |-> [type |-> "NONE", conn |-> order[i]]]
      BY <2>2
    <3>2. PICK n \in Nat : n = Cardinality(S)
      BY FS_Subset, FS_CardinalityType, LifecycleAssumption
    <3>3. order \in [1 .. n -> S] /\ \A i, j \in 1 .. n : i # j => order[i] # order[j]
      BY <3>2 DEF SetToSeqs
    <3>4. events' = [i \in 1 .. n |-> [type |-> "NONE", conn |-> order[i]]]
      BY <3>1, <3>3
    <3>5. \A i \in 1 .. n : events'[i] \in TopoEvent
      BY <3>3, <3>4 DEF TopoEvent
    <3>6. events' \in Seq(TopoEvent) /\ Len(events') = n
      BY <3>4, <3>5
    <3>7. \A i \in 1 .. n : events'[i].conn = order[i] /\ order[i] \in Conns
                            /\ rel[order[i]] = "present"
      BY <3>3, <3>4
    <3> QED
      BY <1>1, <1>3, <1>4, <3>3, <3>6, <3>7 DEF EventsInv
  <2> QED
    BY <2>1, <2>2 DEF WatchE2Connections
<1>6. WriterInv' /\ BrokerTypeOK' /\ RnibTypeOK'
  BY <1>1 DEF LInv, BInv, WriterInv, brokerVars, LifecycleTypeOK, RnibTypeOK
<1>7. changes' \in 0 .. MaxChanges /\ rel' \in [Conns -> {"absent", "present", "gone"}]
  BY <1>1 DEF LInv, LifecycleTypeOK
<1> QED
  BY <1>1, <1>4, <1>5, <1>6, <1>7, ManagerStep

(***************************************************************************)
(* Taking an event from the queue leaves the others as they were.          *)
(***************************************************************************)
LEMMA TailFacts ==
  ASSUME events \in Seq(TopoEvent), events # <<>>, events' = Tail(events)
  PROVE  /\ Head(events) = events[1] /\ Head(events) \in TopoEvent
         /\ Len(events) >= 1 /\ 1 \in 1 .. Len(events)
         /\ events' \in Seq(TopoEvent) /\ Len(events') = Len(events) - 1
         /\ \A i \in 1 .. Len(events') :
              events'[i] = events[i + 1] /\ i + 1 \in 1 .. Len(events) /\ i + 1 # 1
         /\ \A i \in 1 .. Len(events) : events[i].conn \in Conns
<1>1. \A i \in 1 .. Len(events) : events[i] \in TopoEvent /\ events[i].conn \in Conns
  BY EventConn
<1>2. Len(events) \in Nat /\ Len(events) >= 1
  OBVIOUS
<1> QED
  BY <1>1, <1>2

\* An announced connection gets its goroutine, and is not announced again.
LEMMA HandleAddedInv ==
  ASSUME LInv, BInv', HandleAdded
  PROVE  LInv'
<1> DEFINE c == Head(events).conn
<1>1. /\ UNCHANGED <<brokerVars, topo, changes, rel, mgr, monitor, start, rejected>>
      /\ mgr.pc = "watching" /\ events # <<>> /\ events' = Tail(events)
      /\ Announces(Head(events))
  BY DEF HandleAdded, Announces
<1>2. PICK p \in {"create", "skipped"} : sub' = [sub EXCEPT ![c] = p]
  BY DEF HandleAdded
<1>3. /\ events \in Seq(TopoEvent) /\ EventsInv /\ sub \in [Conns -> SubPC]
  BY DEF LInv, LifecycleTypeOK
<1>4. /\ Head(events) = events[1] /\ Head(events) \in TopoEvent
      /\ Len(events) >= 1 /\ 1 \in 1 .. Len(events)
      /\ events' \in Seq(TopoEvent) /\ Len(events') = Len(events) - 1
      /\ \A i \in 1 .. Len(events') :
           events'[i] = events[i + 1] /\ i + 1 \in 1 .. Len(events) /\ i + 1 # 1
      /\ \A i \in 1 .. Len(events) : events[i].conn \in Conns
  BY <1>1, <1>3, TailFacts
<1>5. c \in Conns /\ c = events[1].conn /\ sub[c] = "off" /\ rel[c] # "absent"
  BY <1>1, <1>3, <1>4 DEF EventsInv
<1> HIDE DEF c
<1>6. \A i \in 1 .. Len(events') : Announces(events'[i]) => events'[i].conn # c
  BY <1>1, <1>3, <1>4, <1>5 DEF EventsInv
<1>7. sub'[c] = p /\ \A d \in Conns \ {c} : sub'[d] = sub[d]
  BY <1>2, <1>3, <1>5
<1>8. EventsInv'
  <2>1. ASSUME NEW i \in 1 .. Len(events'), Announces(events'[i])
        PROVE  /\ sub'[events'[i].conn] = "off" /\ rel'[events'[i].conn] # "absent"
               /\ \A j \in 1 .. Len(events') :
                    Announces(events'[j]) /\ events'[j].conn = events'[i].conn => j = i
    <3>1. /\ sub[events'[i].conn] = "off" /\ rel[events'[i].conn] # "absent"
          /\ events'[i].conn \in Conns /\ events'[i].conn # c
      BY <1>3, <1>4, <1>6, <2>1 DEF EventsInv
    <3>2. ASSUME NEW j \in 1 .. Len(events'), Announces(events'[j]),
                 events'[j].conn = events'[i].conn
          PROVE  j = i
      <4>1. /\ i + 1 \in 1 .. Len(events) /\ j + 1 \in 1 .. Len(events)
            /\ Announces(events[i + 1]) /\ Announces(events[j + 1])
            /\ events[j + 1].conn = events[i + 1].conn
        BY <1>4, <2>1, <3>2
      <4>2. j + 1 = i + 1
        BY <1>3, <4>1 DEF EventsInv
      <4> QED
        BY <4>2
    <3> QED
      BY <1>1, <1>7, <3>1, <3>2
  <2>2. \A d \in Conns : sub'[d] # "off" => rel'[d] # "absent" /\ mgr'.pc # "starting"
    BY <1>1, <1>3, <1>5, <1>7 DEF EventsInv
  <2> QED
    BY <2>1, <2>2 DEF EventsInv, Announces
<1>9. LifecycleTypeOK' /\ WriterInv'
  <2>1. sub' \in [Conns -> SubPC]
    BY <1>2, <1>3 DEF SubPC
  <2> QED
    BY <1>1, <1>4, <2>1 DEF LInv, BInv, LifecycleTypeOK, RnibTypeOK, WriterInv, brokerVars
<1>10. ASSUME NEW d \in Conns PROVE RunInv(d)'
  BY <1>1, <1>2, <1>5, <1>7 DEF LInv, RunInv, Canceled
<1> QED
  BY <1>8, <1>9, <1>10 DEF LInv

\* A REMOVED event, and what the manager logs of it.
LEMMA HandleRemovedInv ==
  ASSUME LInv, BInv', HandleRemoved \/ LogCells \/ WatchCloses
  PROVE  LInv'
<1>1. /\ UNCHANGED <<brokerVars, topo, changes, rel, sub, monitor, start, rejected>>
      /\ mgr.pc \in {"watching", "cells"}
  BY DEF HandleRemoved, LogCells, WatchCloses
<1>2. /\ events \in Seq(TopoEvent) /\ EventsInv
      /\ mgr \in [pc : MgrPC, conn : Conns \cup {None}]
  BY DEF LInv, LifecycleTypeOK
<1>3. CASE HandleRemoved
  <2>1. events # <<>> /\ events' = Tail(events)
    BY <1>3 DEF HandleRemoved
  <2>2. /\ Head(events) = events[1] /\ Head(events) \in TopoEvent
        /\ Len(events) >= 1 /\ 1 \in 1 .. Len(events)
        /\ events' \in Seq(TopoEvent) /\ Len(events') = Len(events) - 1
        /\ \A i \in 1 .. Len(events') :
             events'[i] = events[i + 1] /\ i + 1 \in 1 .. Len(events) /\ i + 1 # 1
        /\ \A i \in 1 .. Len(events) : events[i].conn \in Conns
    BY <1>2, <2>1, TailFacts
  <2>3. \/ mgr' = mgr
        \/ mgr' = [pc |-> "cells", conn |-> Head(events).conn]
    BY <1>3 DEF HandleRemoved
  <2>4. mgr' \in [pc : MgrPC, conn : Conns \cup {None}] /\ mgr'.pc \in {"watching", "cells"}
    BY <1>1, <1>2, <2>2, <2>3 DEF MgrPC, TopoEvent
  <2>5. EventsInv'
    <3>1. ASSUME NEW i \in 1 .. Len(events'), Announces(events'[i])
          PROVE  /\ sub'[events'[i].conn] = "off" /\ rel'[events'[i].conn] # "absent"
                 /\ \A j \in 1 .. Len(events') :
                      Announces(events'[j]) /\ events'[j].conn = events'[i].conn => j = i
      <4>1. sub[events'[i].conn] = "off" /\ rel[events'[i].conn] # "absent"
        BY <1>2, <2>2, <3>1 DEF EventsInv
      <4>2. ASSUME NEW j \in 1 .. Len(events'), Announces(events'[j]),
                   events'[j].conn = events'[i].conn
            PROVE  j = i
        <5>1. /\ i + 1 \in 1 .. Len(events) /\ j + 1 \in 1 .. Len(events)
              /\ Announces(events[i + 1]) /\ Announces(events[j + 1])
              /\ events[j + 1].conn = events[i + 1].conn
          BY <2>2, <3>1, <4>2
        <5>2. j + 1 = i + 1
          BY <1>2, <5>1 DEF EventsInv
        <5> QED
          BY <5>2
      <4> QED
        BY <1>1, <4>1, <4>2
    <3>2. \A d \in Conns : sub'[d] # "off" => rel'[d] # "absent" /\ mgr'.pc # "starting"
      BY <1>1, <1>2, <2>4 DEF EventsInv
    <3> QED
      BY <3>1, <3>2 DEF EventsInv, Announces
  <2>6. WriterInv' /\ BrokerTypeOK' /\ RnibTypeOK'
    BY <1>1 DEF LInv, BInv, WriterInv, brokerVars, LifecycleTypeOK, RnibTypeOK
  <2>7. changes' \in 0 .. MaxChanges /\ rel' \in [Conns -> {"absent", "present", "gone"}]
    BY <1>1 DEF LInv, LifecycleTypeOK
  <2> QED
    BY <1>1, <2>2, <2>4, <2>5, <2>6, <2>7, ManagerStep
<1>4. CASE LogCells \/ WatchCloses
  <2>1. events' = events /\ mgr' \in [pc : MgrPC, conn : Conns \cup {None}]
        /\ mgr'.pc # "starting"
    <3>1. events' = events /\ (mgr' = MgrAt("watching") \/ mgr' = MgrAt("ended"))
      BY <1>4 DEF LogCells, WatchCloses
    <3> QED
      BY <3>1 DEF MgrAt, MgrPC
  <2>2. EventsInv'
    BY <1>1, <1>2, <2>1, EventsKept
  <2>3. WriterInv' /\ BrokerTypeOK' /\ RnibTypeOK'
    BY <1>1 DEF LInv, BInv, WriterInv, brokerVars, LifecycleTypeOK, RnibTypeOK
  <2>4. changes' \in 0 .. MaxChanges /\ rel' \in [Conns -> {"absent", "present", "gone"}]
    BY <1>1 DEF LInv, LifecycleTypeOK
  <2> QED
    BY <1>1, <1>2, <2>1, <2>2, <2>3, <2>4, ManagerStep
<1> QED
  BY <1>3, <1>4

\* The pump finds its writer, or a node's data change, or nothing happens.
LEMMA QuietInv ==
  ASSUME LInv, BInv, BInv',
         UNCHANGED <<rel, events, mgr, sub, monitor, start, rejected>>,
         \/ \E c \in Conns : StartPump(c)
         \/ \E n \in Nodes : NodeChanges(n)
         \/ UNCHANGED lifecycleVars
  PROVE  LInv'
<1>1. events \in Seq(TopoEvent) /\ EventsInv /\ changes \in 0 .. MaxChanges /\ WriterInv
      /\ topo \in [Nodes -> NodeInfos]
      /\ rel \in [Conns -> {"absent", "present", "gone"}]
      /\ mgr \in [pc : MgrPC, conn : Conns \cup {None}]
  BY DEF LInv, LifecycleTypeOK, RnibTypeOK
<1>2. EventsInv'
  BY <1>1, EventsKept
<1>3. BrokerTypeOK' /\ BrokerTypeOK
  BY DEF BInv
<1>4. /\ changes' \in 0 .. MaxChanges /\ RnibTypeOK' /\ WriterInv'
  <2>1. CASE \E c \in Conns : StartPump(c)
    <3>1. PICK c \in Conns : GetWriter(c) /\ UNCHANGED <<topo, changes>>
      BY <2>1 DEF StartPump
    <3>2. WriterInv'
      BY <1>1, <1>3, <3>1 DEF GetWriter, WriterInv, BrokerTypeOK
    <3> QED
      BY <1>1, <3>1, <3>2 DEF RnibTypeOK
  <2>2. CASE \E n \in Nodes : NodeChanges(n)
    BY <1>1, <2>2, LifecycleAssumption DEF NodeChanges, RnibTypeOK, WriterInv, brokerVars
  <2>3. CASE UNCHANGED lifecycleVars
    BY <1>1, <2>3 DEF lifecycleVars, RnibTypeOK, WriterInv, brokerVars
  <2> QED
    BY <2>1, <2>2, <2>3
<1> QED
  BY <1>1, <1>2, <1>3, <1>4, ManagerStep

\* Every step keeps the invariant.
LEMMA LifecycleNextInv ==
  LInv /\ BInv /\ BInv' /\ [LifecycleNext]_lifecycleVars => LInv'
<1> SUFFICES ASSUME LInv, BInv, BInv', [LifecycleNext]_lifecycleVars PROVE LInv'
  OBVIOUS
<1>1. CASE ManagerNext \/ WatchCloses
  BY <1>1, WatchInv, HandleAddedInv, HandleRemovedInv DEF ManagerNext
<1>2. ASSUME NEW c \in Conns,
             CreateNext(c) \/ LoopNext(c) \/ StartCanceled(c) \/ Refuse(c)
      PROVE  LInv'
  BY <1>2, CreateInv, LoopInv
<1>3. ASSUME NEW c \in Conns, RelationAdded(c) \/ RelationRemoved(c) PROVE LInv'
  BY <1>3, RelationAddedInv, RelationRemovedInv
<1>4. ASSUME NEW c \in Conns, StartPump(c) PROVE LInv'
  BY <1>4, QuietInv DEF StartPump
<1>5. ASSUME NEW n \in Nodes, NodeChanges(n) PROVE LInv'
  BY <1>5, QuietInv DEF NodeChanges
<1>6. CASE Idle \/ UNCHANGED lifecycleVars
  BY <1>6, QuietInv DEF Idle, lifecycleVars
<1> QED
  BY <1>1, <1>2, <1>3, <1>4, <1>5, <1>6 DEF LifecycleNext

\* The invariant holds throughout.
LEMMA LifecycleAlways == LifecycleSpec => []LInv
  BY LifecycleBroker, LifecycleInitInv, LifecycleNextInv, PTL DEF LifecycleSpec

(***************************************************************************)
(* The goroutines of the E2 manager keep their types; in particular no     *)
(* monitor refuses more than two indications before its loop is stuck.     *)
(***************************************************************************)
THEOREM LifecycleTypeCorrect == LifecycleSpec => []LifecycleTypeOK
<1>1. LInv => LifecycleTypeOK
  BY DEF LInv
<1> QED
  BY <1>1, LifecycleAlways, PTL

(***************************************************************************)
(* errCh is read once: a monitor's loop survives its first refused         *)
(* indication, and is stuck only after the second or a canceled context.   *)
(***************************************************************************)
THEOREM MonitorsSurviveFirstError == LifecycleSpec => []FirstErrorSurvived
<1>1. LInv => FirstErrorSurvived
  <2> SUFFICES ASSUME LInv, NEW c \in Conns, Stuck(c), ~Canceled PROVE rejected[c] = 2
    BY DEF FirstErrorSurvived
  <2> QED
    BY DEF LInv, RunInv, Stuck
<1> QED
  BY <1>1, LifecycleAlways, PTL

(***************************************************************************)
(* A monitor hears only nodes of its own: the stream it reads is of its    *)
(* channel, and so is whatever a pump writes to.                           *)
(***************************************************************************)
THEOREM MonitorsHearOwnNode == LifecycleSpec => []FedByOwnNode
<1>1. LInv /\ BInv => FedByOwnNode
  <2> SUFFICES ASSUME LInv, BInv, NEW c \in Conns, NEW d \in Conns,
                      client[c].reader # None, client[c].reader = client[d].writer
               PROVE  NodeOf[c] = NodeOf[d]
    BY DEF FedByOwnNode
  <2>1. client[d].writer = client[d].reader
    BY DEF LInv, WriterInv, BInv, PumpMeetsReader
  <2>2. ChannelOf[c] = ChannelOf[d]
    BY <2>1 DEF BInv, PumpMeetsReader
  <2> QED
    BY <2>2, LifecycleAssumption
<1> QED
  BY <1>1, LifecycleAlways, LifecycleBroker, PTL
=============================================================================
