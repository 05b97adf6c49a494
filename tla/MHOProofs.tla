------------------------------ MODULE MHOProofs ------------------------------
(***************************************************************************)
(* Proofs that the handover loop keeps its types and its safety properties *)
(* for any number of UEs, cells, nodes, connections and indications.       *)
(***************************************************************************)
EXTENDS MHO, TLAPS

(***************************************************************************)
(* Bags: what BagAdd and BagRemove do to the set of a bag's elements.      *)
(***************************************************************************)
\* Adding to a bag, as Send does, adds exactly that element.
LEMMA BagAddFacts ==
  ASSUME NEW B, IsABag(B), NEW x
  PROVE  /\ IsABag(BX!BagAdd(B, x))
         /\ BagToSet(BX!BagAdd(B, x)) = BagToSet(B) \cup {x}
  BY DEF IsABag, BagToSet, BX!BagAdd

\* Removing from a bag, as Receive does, removes at most that element.
LEMMA BagRemoveFacts ==
  ASSUME NEW B, IsABag(B), NEW x
  PROVE  /\ IsABag(BX!BagRemove(B, x))
         /\ BagToSet(BX!BagRemove(B, x)) \subseteq BagToSet(B)
         /\ BagToSet(B) \subseteq BagToSet(BX!BagRemove(B, x)) \cup {x}
  BY DEF IsABag, BagToSet, BX!BagRemove

\* The empty bag is a bag without elements.
LEMMA EmptyBagFacts == IsABag(EmptyBag) /\ BagToSet(EmptyBag) = {}
  BY DEF IsABag, BagToSet, EmptyBag, SetToBag

\* The pairs of Copies.
LEMMA CopiesFacts ==
  ASSUME NEW B
  PROVE  /\ \A p \in Copies(B) : /\ p = <<p[1], p[2]>>
                                 /\ p[1] \in BagToSet(B) /\ p[2] \in 1 .. B[p[1]]
         /\ \A x \in BagToSet(B) : \A k \in 1 .. B[x] : <<x, k>> \in Copies(B)
  BY DEF Copies

\* BagAdd adds one copy.
LEMMA CopyAdded ==
  ASSUME NEW B, IsABag(B), NEW x
  PROVE  \E n \in Nat :
           /\ n > 0
           /\ ~(x \in BagToSet(B) /\ n \in 1 .. B[x])
           /\ x \in BagToSet(BX!BagAdd(B, x)) /\ n \in 1 .. BX!BagAdd(B, x)[x]
           /\ \A y \in BagToSet(BX!BagAdd(B, x)) : \A k \in 1 .. BX!BagAdd(B, x)[y] :
                (y = x /\ k = n) \/ (y \in BagToSet(B) /\ k \in 1 .. B[y])
           /\ \A y \in BagToSet(B) : \A k \in 1 .. B[y] :
                y \in BagToSet(BX!BagAdd(B, x)) /\ k \in 1 .. BX!BagAdd(B, x)[y]
<1>1. CASE x \in DOMAIN B
  <2>1. B[x] \in Nat /\ B[x] > 0 /\ \A y \in DOMAIN B : B[y] \in Nat
    BY <1>1 DEF IsABag
  <2>2. /\ DOMAIN BX!BagAdd(B, x) = DOMAIN B
        /\ BX!BagAdd(B, x)[x] = B[x] + 1
        /\ \A y \in DOMAIN B : y # x => BX!BagAdd(B, x)[y] = B[y]
    BY <1>1 DEF BX!BagAdd
  <2>3. WITNESS B[x] + 1 \in Nat
  <2> QED
    BY <1>1, <2>1, <2>2 DEF BagToSet
<1>2. CASE x \notin DOMAIN B
  <2>1. \A y \in DOMAIN B : B[y] \in Nat
    BY DEF IsABag
  <2>2. /\ DOMAIN BX!BagAdd(B, x) = DOMAIN B \cup {x}
        /\ BX!BagAdd(B, x)[x] = 1
        /\ \A y \in DOMAIN B : BX!BagAdd(B, x)[y] = B[y]
    BY <1>2 DEF BX!BagAdd
  <2>3. WITNESS 1 \in Nat
  <2> QED
    BY <1>2, <2>1, <2>2 DEF BagToSet
<1> QED
  BY <1>1, <1>2

\* Every other copy in a bag with one element more was there before.
LEMMA NewCopy ==
  ASSUME NEW B, IsABag(B), NEW x
  PROVE  \E n \in Nat :
           \A y \in BagToSet(BX!BagAdd(B, x)) : \A k \in 1 .. BX!BagAdd(B, x)[y] :
             (y = x /\ k = n) \/ (y \in BagToSet(B) /\ k \in 1 .. B[y])
<1>1. PICK n \in Nat :
        \A y \in BagToSet(BX!BagAdd(B, x)) : \A k \in 1 .. BX!BagAdd(B, x)[y] :
          (y = x /\ k = n) \/ (y \in BagToSet(B) /\ k \in 1 .. B[y])
  BY CopyAdded
<1> QED
  BY <1>1

\* BagRemove takes one copy.
LEMMA CopyRemoved ==
  ASSUME NEW B, IsABag(B), NEW x \in BagToSet(B)
  PROVE  \E n \in 1 .. B[x] :
           \A y \in BagToSet(BX!BagRemove(B, x)) : \A k \in 1 .. BX!BagRemove(B, x)[y] :
             y \in BagToSet(B) /\ k \in 1 .. B[y] /\ ~(y = x /\ k = n)
<1>1. x \in DOMAIN B /\ B[x] \in Nat /\ B[x] > 0 /\ \A y \in DOMAIN B : B[y] \in Nat
  BY DEF IsABag, BagToSet
<1>2. B[x] \in 1 .. B[x]
  BY <1>1
<1>3. WITNESS B[x] \in 1 .. B[x]
<1>4. CASE B[x] = 1
  <2>1. /\ DOMAIN BX!BagRemove(B, x) = DOMAIN B \ {x}
        /\ \A y \in DOMAIN B \ {x} : BX!BagRemove(B, x)[y] = B[y]
    BY <1>1, <1>4 DEF BX!BagRemove
  <2> QED
    BY <1>1, <2>1 DEF BagToSet
<1>5. CASE B[x] # 1
  <2>1. /\ DOMAIN BX!BagRemove(B, x) = DOMAIN B
        /\ BX!BagRemove(B, x)[x] = B[x] - 1
        /\ \A y \in DOMAIN B : y # x => BX!BagRemove(B, x)[y] = B[y]
    BY <1>1, <1>5 DEF BX!BagRemove
  <2> QED
    BY <1>1, <2>1 DEF BagToSet
<1> QED
  BY <1>4, <1>5

(***************************************************************************)
(* Send starts at most one goroutine, which serves at least the registered *)
(* watchers that handle the event.                                         *)
(***************************************************************************)
LEMMA SendFacts ==
  ASSUME IsABag(sends), watchers \in SUBSET WatcherIDs, NEW e \in Event, Send(e)
  PROVE  /\ IsABag(sends')
         /\ BagToSet(sends) \subseteq BagToSet(sends')
         /\ \A s \in BagToSet(sends') :
              \/ s \in BagToSet(sends)
              \/ /\ s \in SendRoutine /\ s.ev = e
                 /\ \A id \in s.todo : Handles(id, e)
         /\ \A id \in watchers : Handles(id, e) =>
              \E s \in BagToSet(sends') : s.ev = e /\ id \in s.todo
<1>1. PICK late \in SUBSET (WatcherIDs \ watchers) :
        LET todo == {id \in watchers \cup late : Handles(id, e)} IN
        sends' = IF todo = {} THEN sends
                 ELSE BX!BagAdd(sends, [ev |-> e, todo |-> todo])
  BY DEF Send
<1> DEFINE todo == {id \in watchers \cup late : Handles(id, e)}
           s0 == [ev |-> e, todo |-> todo]
<1>2. CASE todo = {}
  <2>1. sends' = sends
    BY <1>1, <1>2
  <2>2. \A id \in watchers : ~ Handles(id, e)
    BY <1>2
  <2> QED
    BY <2>1, <2>2
<1>3. CASE todo # {}
  <2>1. sends' = BX!BagAdd(sends, s0)
    BY <1>1, <1>3
  <2>2. IsABag(sends') /\ BagToSet(sends') = BagToSet(sends) \cup {s0}
    BY <2>1, BagAddFacts
  <2>3. s0 \in SendRoutine
    BY DEF SendRoutine
  <2>4. s0.ev = e /\ s0.todo = todo
    OBVIOUS
  <2> QED
    BY <2>2, <2>3, <2>4
<1> QED
  BY <1>2, <1>3

(***************************************************************************)
(* Receive takes nothing from any watcher but the one that receives.       *)
(***************************************************************************)
LEMMA ReceiveFacts ==
  ASSUME IsABag(sends), NEW id, NEW s \in BagToSet(sends), s \in SendRoutine,
         Receive(id, s)
  PROVE  /\ IsABag(sends')
         /\ \A t \in BagToSet(sends') :
              \/ t \in BagToSet(sends)
              \/ t \in SendRoutine /\ t.ev = s.ev /\ t.todo \subseteq s.todo
         /\ \A t \in BagToSet(sends) : \A d \in t.todo : d # id \/ t # s =>
              \E r \in BagToSet(sends') : r.ev = t.ev /\ d \in r.todo
<1> DEFINE rest == BX!BagRemove(sends, s)
           left == s.todo \ {id}
           s1 == [s EXCEPT !.todo = left]
<1>1. /\ IsABag(rest)
      /\ BagToSet(rest) \subseteq BagToSet(sends)
      /\ BagToSet(sends) \subseteq BagToSet(rest) \cup {s}
  BY BagRemoveFacts
<1>2. sends' = IF left = {} THEN rest ELSE BX!BagAdd(rest, s1)
  BY DEF Receive
<1>3. s1 \in SendRoutine /\ s1.ev = s.ev /\ s1.todo = left
  BY DEF SendRoutine
<1>4. CASE left = {}
  <2> HIDE DEF rest, s1
  <2> QED BY <1>1, <1>2, <1>4
<1>5. CASE left # {}
  <2>1. IsABag(sends') /\ BagToSet(sends') = BagToSet(rest) \cup {s1}
    BY <1>1, <1>2, <1>5, BagAddFacts
  <2> HIDE DEF rest, s1
  <2> QED BY <1>1, <1>3, <2>1
<1> QED
  BY <1>4, <1>5

-----------------------------------------------------------------------------
(***************************************************************************)
(* The inductive invariant.                                                *)
(***************************************************************************)

\* An entry points to an object of its own UE.
RecordsInv ==
  \A u \in UEs : HasEntry(u) => heap[Get(u)] # None /\ heap[Get(u)].ue = u

\* An object is what its indication asked for, and is never Waiting or Denied.
HeapInv ==
  \A i \in Calls : heap[i] # None =>
    /\ inds[i] = [ue |-> heap[i].ue, tgt |-> heap[i].tgt, node |-> heap[i].node]
    /\ heap[i].state \in {"StateCreated", "Approved", "Done"}

\* Events are about keys that have an entry.
SendsInv == \A s \in BagToSet(sends) : HasEntry(s.ev.key)

\* The indication a monitor is working on is its own and has no object yet.
MonInv ==
  \A c \in Conns : mon[c].pc = "apply" =>
    /\ mon[c].call \in Calls /\ inds[mon[c].call] # None /\ heap[mon[c].call] = None
    /\ mon[c].val # None => heap[mon[c].val] # None
    /\ \A d \in Conns \ {c} : mon[d].pc = "apply" => mon[d].call # mon[c].call

\* The controller holds an object of the UE it is working on.
CtlInv ==
  ctl.pc \in {"write", "put"} =>
    /\ ctl.key \in UEs /\ HasEntry(ctl.key)
    /\ ctl.val \in Calls /\ heap[ctl.val] # None /\ heap[ctl.val].ue = ctl.key
    /\ ctl.pc = "put" => heap[ctl.val].state \in {"Approved", "Done"}

Attempted(i, n) == \E m \in BagToSet(controls) : m.call = i /\ m.to = n

(***************************************************************************)
(* A southbound watcher holds an object of its own node, and once it gets  *)
(* to writing Done the control message of that object has been attempted.  *)
(***************************************************************************)
WatInv ==
  \A c \in Conns :
    /\ wat[c].pc \in {"idle", "control", "mark", "put"} => c \in watchers
    /\ wat[c].pc \in {"control", "mark", "put"} =>
         /\ wat[c].key \in UEs /\ HasEntry(wat[c].key)
         /\ wat[c].val \in Calls /\ heap[wat[c].val] # None
         /\ heap[wat[c].val].ue = wat[c].key /\ heap[wat[c].val].node = NodeOf[c]
    /\ wat[c].pc \in {"mark", "put"} => Attempted(wat[c].val, NodeOf[c])

(***************************************************************************)
(* A watcher is about to put back an object it marked Done.  If the object *)
(* is not Done any more, the controller has approved it again and will say *)
(* so, or has said so and the watcher will hear of it.                     *)
(***************************************************************************)
RedoInv ==
  \A c \in Conns : wat[c].pc = "put" /\ heap[wat[c].val].state # "Done" =>
    \/ ctl.pc = "put" /\ ctl.val = wat[c].val
    \/ OnItsWay(wat[c].key, c)

IInv ==
  /\ TypeOK
  /\ RecordsInv /\ HeapInv /\ SendsInv /\ MonInv /\ CtlInv /\ WatInv /\ RedoInv
  /\ ControlAnswersIndication /\ DoneMeansAttempted /\ NoForgottenRequest

-----------------------------------------------------------------------------
(***************************************************************************)
(* What the store's operations do to the events on their way.              *)
(***************************************************************************)
\* Put replaces one entry, loses no event, and announces it to its watchers.
LEMMA PutFacts ==
  ASSUME StoreTypeOK, NEW key \in UEs, NEW value, NEW state \in MHOState,
         Put(key, value, state)
  PROVE  /\ records' = [records EXCEPT ![key] = value]
         /\ watchers' = watchers
         /\ audience' = [audience EXCEPT ![key] = watchers]
         /\ IsABag(sends') /\ BagToSet(sends') \subseteq SendRoutine
         /\ \A s \in BagToSet(sends') : s \in BagToSet(sends) \/ s.ev.key = key
         /\ \A u \in UEs, id \in WatcherIDs : OnItsWay(u, id) => OnItsWay(u, id)'
         /\ state = "StateCreated" /\ Ctl \in watchers => OnItsWay(key, Ctl)'
         /\ state = "Approved" /\ HasEntry(key)
              => \A c \in watchers \ {Ctl} : OnItsWay(key, c)'
<1> DEFINE e == [key |-> key, type |-> IF HasEntry(key) THEN "Updated" ELSE "Created",
                 state |-> state]
<1>1. e \in Event /\ e.key = key /\ e.state = state
  BY DEF Event, EventType
<1>2. Send(e)
  BY DEF Put
<1>3. HasEntry(key) => e.type = "Updated"
  OBVIOUS
<1> HIDE DEF e
<1>4. /\ IsABag(sends')
      /\ BagToSet(sends) \subseteq BagToSet(sends')
      /\ \A s \in BagToSet(sends') :
           s \in BagToSet(sends) \/ (s \in SendRoutine /\ s.ev = e)
      /\ \A id \in watchers : Handles(id, e) =>
           \E s \in BagToSet(sends') : s.ev = e /\ id \in s.todo
  BY <1>1, <1>2, SendFacts DEF StoreTypeOK
<1>5. \A u \in UEs, id \in WatcherIDs : OnItsWay(u, id) => OnItsWay(u, id)'
  BY <1>4 DEF OnItsWay
<1>6. state = "StateCreated" => Handles(Ctl, e)
  BY <1>1 DEF Handles, CtlHandles
<1>7. state = "Approved" /\ HasEntry(key) => \A c \in watchers \ {Ctl} : Handles(c, e)
  BY <1>1, <1>3 DEF Handles, ConnHandles
<1>8. \A id \in watchers : Handles(id, e) => OnItsWay(key, id)'
  BY <1>1, <1>4 DEF OnItsWay
<1>9. BagToSet(sends') \subseteq SendRoutine
  BY <1>4 DEF StoreTypeOK
<1>10. \A s \in BagToSet(sends') : s \in BagToSet(sends) \/ s.ev.key = key
  BY <1>1, <1>4
<1> QED
  BY <1>4, <1>5, <1>6, <1>7, <1>8, <1>9, <1>10 DEF Put

\* A delivery takes an event only from the watcher and the key it is for.
LEMMA ReceiveKeeps ==
  ASSUME StoreTypeOK, NEW id \in WatcherIDs, NEW s \in BagToSet(sends), Receive(id, s)
  PROVE  /\ IsABag(sends') /\ BagToSet(sends') \subseteq SendRoutine
         /\ \A t \in BagToSet(sends') : t \in BagToSet(sends) \/ t.ev = s.ev
         /\ \A u \in UEs, d \in WatcherIDs :
              OnItsWay(u, d) /\ (d # id \/ u # s.ev.key) => OnItsWay(u, d)'
         /\ s.ev.key \in UEs
<1>1. s \in SendRoutine
  BY DEF StoreTypeOK
<1>2. /\ IsABag(sends')
      /\ \A t \in BagToSet(sends') :
           \/ t \in BagToSet(sends)
           \/ t \in SendRoutine /\ t.ev = s.ev /\ t.todo \subseteq s.todo
      /\ \A t \in BagToSet(sends) : \A d \in t.todo : d # id \/ t # s =>
           \E r \in BagToSet(sends') : r.ev = t.ev /\ d \in r.todo
  BY <1>1, ReceiveFacts DEF StoreTypeOK
<1>3. \A u \in UEs, d \in WatcherIDs :
        OnItsWay(u, d) /\ (d # id \/ u # s.ev.key) => OnItsWay(u, d)'
  BY <1>2 DEF OnItsWay
<1> QED
  BY <1>1, <1>2, <1>3 DEF StoreTypeOK, SendRoutine, Event

-----------------------------------------------------------------------------
\* A state without requests: the two initial states and the state after a crash.
Fresh ==
  /\ TypeOK
  /\ records = [u \in UEs |-> None]
  /\ heap = [i \in Calls |-> None]
  /\ sends = EmptyBag
  /\ \A c \in Conns : /\ mon[c].pc # "apply"
                      /\ wat[c].pc \in {"off", "idle"}
                      /\ wat[c].pc = "idle" => c \in watchers
  /\ ctl.pc \in {"starting", "idle"}
  /\ ControlAnswersIndication

\* A state without requests satisfies the invariant.
LEMMA FreshInv == Fresh => IInv
<1> SUFFICES ASSUME Fresh PROVE IInv
  OBVIOUS
<1> USE DEF Fresh
<1>1. \A u \in UEs : ~ HasEntry(u)
  BY DEF HasEntry
<1>2. RecordsInv /\ NoForgottenRequest
  BY <1>1 DEF RecordsInv, NoForgottenRequest, Waits
<1>3. HeapInv /\ DoneMeansAttempted
  BY DEF HeapInv, DoneMeansAttempted
<1>4. SendsInv
  BY EmptyBagFacts DEF SendsInv
<1>5. MonInv
  BY DEF MonInv
<1>6. CtlInv
  BY DEF CtlInv
<1>7. WatInv /\ RedoInv
  BY DEF WatInv, RedoInv
<1> QED
  BY <1>2, <1>3, <1>4, <1>5, <1>6, <1>7 DEF IInv

\* NewStore and the start of the process establish the invariant.
LEMMA InitInv == Init => IInv
<1> SUFFICES ASSUME Init PROVE Fresh
  BY FreshInv
<1> USE DEF Init, StoreInit, MonitorInit, ControllerInit, SouthboundInit
<1>1. StoreTypeOK
  BY EmptyBagFacts DEF StoreTypeOK
<1>2. MonitorTypeOK
  BY DEF MonitorTypeOK, MonAt, MonPC
<1>3. ControllerTypeOK
  BY DEF ControllerTypeOK, CtlAt, CtlPC
<1>4. SouthboundTypeOK
  BY EmptyBagFacts DEF SouthboundTypeOK, WatAt, WatPC
<1>5. ControlAnswersIndication
  BY EmptyBagFacts DEF ControlAnswersIndication
<1>6. crashes \in 0 .. MaxCrashes
  BY MHOAssumption
<1> QED
  BY <1>1, <1>2, <1>3, <1>4, <1>5, <1>6 DEF Fresh, TypeOK, MonAt, CtlAt, WatAt

\* The state after startup satisfies the invariant.
LEMMA StartedInv == Started => IInv
<1> SUFFICES ASSUME Started PROVE Fresh
  BY FreshInv
<1> USE DEF Started
<1>1. StoreTypeOK
  BY EmptyBagFacts DEF StoreTypeOK
<1>2. MonitorTypeOK
  BY DEF MonitorTypeOK, MonAt, MonPC
<1>3. ControllerTypeOK
  BY DEF ControllerTypeOK, CtlAt, CtlPC
<1>4. SouthboundTypeOK
  BY EmptyBagFacts DEF SouthboundTypeOK, WatAt, WatPC
<1>5. ControlAnswersIndication
  BY EmptyBagFacts DEF ControlAnswersIndication
<1>6. crashes \in 0 .. MaxCrashes
  BY MHOAssumption
<1> QED
  BY <1>1, <1>2, <1>3, <1>4, <1>5, <1>6 DEF Fresh, TypeOK, MonAt, CtlAt, WatAt, WatcherIDs

\* A restart leads back to a state that satisfies the invariant.
LEMMA CrashInv == IInv /\ Crash => IInv'
<1> SUFFICES ASSUME IInv, Crash PROVE Fresh'
  BY FreshInv, PTL
<1> USE DEF Crash, IInv, TypeOK
<1>1. StoreTypeOK'
  BY EmptyBagFacts DEF StoreTypeOK
<1>2. MonitorTypeOK'
  BY DEF MonitorTypeOK, MonAt, MonPC
<1>3. ControllerTypeOK'
  BY DEF ControllerTypeOK, CtlAt, CtlPC
<1>4. SouthboundTypeOK'
  BY DEF SouthboundTypeOK, WatAt, WatPC
<1>5. ControlAnswersIndication'
  BY DEF ControlAnswersIndication
<1>6. (crashes \in 0 .. MaxCrashes)'
  BY MHOAssumption
<1> QED
  BY <1>1, <1>2, <1>3, <1>4, <1>5, <1>6 DEF Fresh, MonAt, CtlAt, WatAt

-----------------------------------------------------------------------------
(***************************************************************************)
(* The actions of the monitors.                                            *)
(***************************************************************************)
\* An indication that was received is not the absent one.
LEMMA IndicationNotNone ==
  \A u \in UEs, t \in Cells, n \in Nodes : [ue |-> u, tgt |-> t, node |-> n] # None
<1> SUFFICES ASSUME NEW u \in UEs, NEW t \in Cells, NEW n \in Nodes
             PROVE  [ue |-> u, tgt |-> t, node |-> n] # None
  OBVIOUS
<1>1. [ue |-> u, tgt |-> t, node |-> n] \in Indication
  BY DEF Indication
<1> QED
  BY <1>1, ConnsAssumption

\* Receiving an indication and looking up its UE keeps the invariant.
LEMMA RecvIndicationInv ==
  ASSUME IInv, NEW c \in Conns, RecvIndication(c),
         UNCHANGED <<ctl, southboundVars, crashes>>
  PROVE  IInv'
<1> USE DEF IInv, storeVars, southboundVars
<1>1. PICK i \in Calls, u \in UEs, t \in Cells :
        /\ inds[i] = None
        /\ inds' = [inds EXCEPT ![i] = [ue |-> u, tgt |-> t, node |-> NodeOf[c]]]
        /\ mon' = [mon EXCEPT ![c] = [pc |-> "apply", call |-> i, val |-> Get(u)]]
  BY DEF RecvIndication
<1>2. /\ UNCHANGED <<listening, records, heap, watchers, sends, audience>>
      /\ UNCHANGED <<ctl, wat, controls, crashes>>
  BY DEF RecvIndication
<1>3. heap[i] = None
  <2>1. SUFFICES ASSUME heap[i] # None PROVE FALSE
    OBVIOUS
  <2>2. heap[i].ue \in UEs /\ heap[i].tgt \in Cells /\ heap[i].node \in Nodes
    BY <2>1 DEF TypeOK, StoreTypeOK, MetricValue
  <2> QED
    BY <1>1, <2>1, <2>2, IndicationNotNone DEF HeapInv
<1>4. TypeOK'
  BY <1>1, <1>2, ConnsAssumption
  DEF TypeOK, StoreTypeOK, MonitorTypeOK, ControllerTypeOK, SouthboundTypeOK, Indication,
      MonPC, Get
<1>5. HeapInv'
  BY <1>1, <1>2, <1>3 DEF HeapInv, TypeOK, MonitorTypeOK
<1>6. MonInv'
  <2>1. inds'[i] # None
    BY <1>1, ConnsAssumption, IndicationNotNone DEF TypeOK, MonitorTypeOK
  <2>2. Get(u) # None => heap[Get(u)] # None
    BY DEF RecordsInv, HasEntry, Get
  <2>3. \A d \in Conns \ {c} : mon'[d] = mon[d]
    BY <1>1 DEF TypeOK, MonitorTypeOK
  <2>4. mon'[c].pc = "apply" /\ mon'[c].call = i /\ mon'[c].val = Get(u)
    BY <1>1 DEF TypeOK, MonitorTypeOK
  <2>5. \A j \in Calls : inds[j] # None => inds'[j] # None /\ j # i
    BY <1>1, <2>1 DEF TypeOK, MonitorTypeOK
  <2> QED
    BY <1>2, <1>3, <2>1, <2>2, <2>3, <2>4, <2>5 DEF MonInv
<1>7. ControlAnswersIndication'
  <2> SUFFICES ASSUME NEW m \in BagToSet(controls)
               PROVE  inds'[m.call] = [ue |-> m.ue, tgt |-> m.tgt, node |-> m.to]
    BY <1>2 DEF ControlAnswersIndication
  <2>1. m.call \in Calls /\ m.ue \in UEs /\ m.tgt \in Cells /\ m.to \in Nodes
    BY DEF TypeOK, SouthboundTypeOK, ControlMessage
  <2>2. inds[m.call] = [ue |-> m.ue, tgt |-> m.tgt, node |-> m.to]
    BY DEF ControlAnswersIndication
  <2> QED
    BY <1>1, <2>1, <2>2, IndicationNotNone DEF TypeOK, MonitorTypeOK
<1>8. RecordsInv' /\ SendsInv' /\ CtlInv' /\ WatInv' /\ RedoInv'
  BY <1>2 DEF RecordsInv, SendsInv, CtlInv, WatInv, RedoInv, HasEntry, Get, OnItsWay,
              Attempted
<1>9. DoneMeansAttempted' /\ NoForgottenRequest'
  BY <1>2 DEF DoneMeansAttempted, NoForgottenRequest, Waits, Pending, Unheard, HasEntry,
              Get, OnItsWay
<1> QED
  BY <1>4, <1>5, <1>6, <1>7, <1>8, <1>9

\* An indication that is refused keeps the invariant.
LEMMA RejectIndicationInv ==
  ASSUME IInv, NEW c \in Conns, RejectIndication(c),
         UNCHANGED <<ctl, southboundVars, crashes>>
  PROVE  IInv'
<1> USE DEF IInv, storeVars, southboundVars, RejectIndication
<1>1. TypeOK'
  <2>1. mon' \in [Conns -> [pc : MonPC, call : Calls \cup {None}, val : Calls \cup {None}]]
    BY DEF TypeOK, MonitorTypeOK, MonPC, MonAt
  <2>2. listening' \in [Conns -> BOOLEAN]
    BY Zenon DEF TypeOK, MonitorTypeOK
  <2> QED
    BY <2>1, <2>2
    DEF TypeOK, StoreTypeOK, MonitorTypeOK, ControllerTypeOK, SouthboundTypeOK
<1>2. MonInv'
  BY DEF MonInv, TypeOK, MonitorTypeOK, MonAt
<1>3. /\ RecordsInv' /\ HeapInv' /\ SendsInv' /\ CtlInv' /\ WatInv' /\ RedoInv'
      /\ ControlAnswersIndication'
  BY DEF RecordsInv, HeapInv, SendsInv, CtlInv, WatInv, RedoInv, HasEntry, Get, OnItsWay,
         Attempted, ControlAnswersIndication
<1>4. DoneMeansAttempted' /\ NoForgottenRequest'
  BY DEF DoneMeansAttempted, NoForgottenRequest, Waits, Pending, Unheard, HasEntry, Get,
         OnItsWay
<1> QED
  BY <1>1, <1>2, <1>3, <1>4

\* Putting a new request, or dropping the indication, keeps the invariant.
LEMMA ApplyIndicationInv ==
  ASSUME IInv, NEW c \in Conns, ApplyIndication(c),
         UNCHANGED <<ctl, southboundVars, crashes>>
  PROVE  IInv'
<1> USE DEF IInv, southboundVars
<1>1. PICK i \in Calls, ind \in Indication :
        mon[c].pc = "apply" /\ mon[c].call = i /\ inds[i] = ind /\ heap[i] = None
  BY DEF ApplyIndication, MonInv, TypeOK, MonitorTypeOK
<1> DEFINE nv == mon[c].val
           v == [ue |-> ind.ue, tgt |-> ind.tgt, state |-> "StateCreated", node |-> ind.node]
<1>2. ind.ue \in UEs /\ ind.tgt \in Cells /\ ind.node \in Nodes
  BY <1>1 DEF Indication
<1>3. mon' = [mon EXCEPT ![c] = MonAt("recv")] /\ UNCHANGED <<inds, listening>>
  BY DEF ApplyIndication
<1>4. /\ mon'[c].pc # "apply"
      /\ \A d \in Conns \ {c} : mon'[d] = mon[d]
  BY <1>3 DEF TypeOK, MonitorTypeOK, MonAt
<1>5. MonitorTypeOK' /\ ControllerTypeOK' /\ SouthboundTypeOK'
  BY <1>3 DEF TypeOK, MonitorTypeOK, ControllerTypeOK, SouthboundTypeOK, MonAt, MonPC
<1>6. ControlAnswersIndication'
  BY <1>3 DEF ControlAnswersIndication
<1>7. CASE nv = None \/ heap[nv].tgt # ind.tgt
  <2>1. heap' = [heap EXCEPT ![i] = v] /\ Put(ind.ue, i, "StateCreated")
    BY <1>1, <1>7 DEF ApplyIndication
  <2>2. /\ records' = [records EXCEPT ![ind.ue] = i]
        /\ watchers' = watchers
        /\ audience' = [audience EXCEPT ![ind.ue] = watchers]
        /\ IsABag(sends') /\ BagToSet(sends') \subseteq SendRoutine
        /\ \A s \in BagToSet(sends') : s \in BagToSet(sends) \/ s.ev.key = ind.ue
        /\ \A u \in UEs, id \in WatcherIDs : OnItsWay(u, id) => OnItsWay(u, id)'
        /\ Ctl \in watchers => OnItsWay(ind.ue, Ctl)'
    <3>1. "StateCreated" \in MHOState
      BY DEF MHOState
    <3> QED
      BY <1>2, <2>1, <3>1, PutFacts DEF TypeOK
  <2>3. v \in MetricValue /\ v # None
    BY <1>2, StoreAssumption DEF MetricValue, MHOState
  <2>4. heap'[i] = v /\ \A j \in Calls : heap[j] # None => heap'[j] = heap[j] /\ j # i
    BY <1>1, <2>1 DEF TypeOK, StoreTypeOK
  <2>5. \A j \in Calls \ {i} : heap'[j] = heap[j]
    BY <2>1 DEF TypeOK, StoreTypeOK
  <2>6. /\ records'[ind.ue] = i /\ i # None
        /\ \A u \in UEs \ {ind.ue} : records'[u] = records[u]
    BY <1>1, <1>2, <2>2, StoreAssumption DEF TypeOK, StoreTypeOK
  <2>7. \A u \in UEs : (HasEntry(u) => HasEntry(u)') /\ Get(ind.ue)' = i
    BY <2>6 DEF HasEntry, Get
  <2> HIDE DEF v
  <2>8. TypeOK'
    BY <1>1, <1>2, <1>5, <2>1, <2>2, <2>3 DEF TypeOK, StoreTypeOK
  <2>9. RecordsInv'
    BY <2>3, <2>4, <2>6 DEF RecordsInv, HasEntry, Get, TypeOK, StoreTypeOK, v
  <2>10. HeapInv'
    BY <1>1, <1>2, <1>3, <2>4, <2>5 DEF HeapInv, v, Indication
  <2>11. SendsInv'
    BY <2>2, <2>6, <2>7 DEF SendsInv, HasEntry, TypeOK, StoreTypeOK, SendRoutine, Event
  <2>12. MonInv'
    BY <1>1, <1>3, <1>4, <2>4, <2>5 DEF MonInv, TypeOK, MonitorTypeOK
  <2>13. CtlInv'
    BY <2>4, <2>7 DEF CtlInv
  <2>14. WatInv'
    BY <2>2, <2>4, <2>7 DEF WatInv, Attempted
  <2>15. RedoInv'
    BY <2>2, <2>4 DEF RedoInv, WatInv, WatcherIDs
  <2>16. DoneMeansAttempted'
    BY <2>4, <2>5 DEF DoneMeansAttempted, v
  <2>17. NoForgottenRequest'
    <3> SUFFICES ASSUME NEW u \in UEs, Waits(u)' PROVE Pending(u)' \/ Unheard(u)'
      BY DEF NoForgottenRequest
    <3>1. CASE u = ind.ue
      <4>1. HasEntry(u)' /\ heap'[Get(u)'].state = "StateCreated"
        BY <2>4, <2>6, <3>1 DEF HasEntry, Get, v
      <4>2. Ctl \in watchers => Pending(u)'
        BY <2>2, <3>1 DEF Pending
      <4>3. Ctl \notin watchers => Unheard(u)'
        BY <1>2, <2>2, <3>1, <4>1 DEF Unheard, TypeOK, StoreTypeOK
      <4> QED
        BY <4>2, <4>3
    <3>2. CASE u # ind.ue
      <4>1. /\ HasEntry(u)' = HasEntry(u) /\ Get(u)' = Get(u) /\ audience'[u] = audience[u]
            /\ HasEntry(u) => heap'[Get(u)] = heap[Get(u)]
        BY <1>2, <2>2, <2>4, <2>6, <3>2 DEF HasEntry, Get, RecordsInv, TypeOK, StoreTypeOK
      <4>2. Waits(u)
        BY <4>1 DEF Waits
      <4>3. Unheard(u) => Unheard(u)'
        BY <4>1 DEF Unheard
      <4>4. Pending(u) => Pending(u)'
        BY <2>2, <4>1, <4>2 DEF Pending, Waits, TypeOK, StoreTypeOK
      <4> QED
        BY <4>2, <4>3, <4>4 DEF NoForgottenRequest
    <3> QED
      BY <3>1, <3>2
  <2> QED
    BY <1>6, <2>8, <2>9, <2>10, <2>11, <2>12, <2>13, <2>14, <2>15, <2>16, <2>17
<1>8. CASE ~ (nv = None \/ heap[nv].tgt # ind.tgt)
  <2>1. nv \in Calls /\ heap[nv] # None
    BY <1>1, <1>8 DEF MonInv, TypeOK, MonitorTypeOK
  <2>2. heap[nv].state # "Denied"
    BY <2>1 DEF HeapInv
  <2>3. UNCHANGED <<records, heap, watchers, sends, audience>>
    BY <1>1, <1>8, <2>2 DEF ApplyIndication, storeVars
  <2>4. TypeOK'
    BY <1>5, <2>3 DEF TypeOK, StoreTypeOK
  <2>5. MonInv'
    BY <1>3, <1>4, <2>3 DEF MonInv
  <2>6. RecordsInv' /\ HeapInv' /\ SendsInv' /\ CtlInv' /\ WatInv' /\ RedoInv'
    BY <1>3, <2>3 DEF RecordsInv, HeapInv, SendsInv, CtlInv, WatInv, RedoInv, HasEntry, Get,
                      OnItsWay, Attempted
  <2>7. DoneMeansAttempted' /\ NoForgottenRequest'
    BY <2>3 DEF DoneMeansAttempted, NoForgottenRequest, Waits, Pending, Unheard, HasEntry,
                Get, OnItsWay
  <2> QED
    BY <1>6, <2>4, <2>5, <2>6, <2>7
<1> QED
  BY <1>7, <1>8

-----------------------------------------------------------------------------
(***************************************************************************)
(* The actions that start goroutines and register watchers.                *)
(***************************************************************************)
\* A new E2 connection keeps the invariant.
LEMMA ConnectInv ==
  ASSUME IInv, NEW c \in Conns, Connect(c), UNCHANGED <<ctl, crashes>>
  PROVE  IInv'
<1> USE DEF IInv, storeVars, Connect
<1>1. TypeOK'
  BY DEF TypeOK, StoreTypeOK, MonitorTypeOK, ControllerTypeOK, SouthboundTypeOK, MonPC,
         MonAt, WatPC, WatAt
<1>2. MonInv'
  BY DEF MonInv, TypeOK, MonitorTypeOK, MonAt
<1>3. wat[c].pc = "off" /\ wat'[c].pc = "starting" /\ \A d \in Conns \ {c} : wat'[d] = wat[d]
  BY DEF TypeOK, SouthboundTypeOK, WatAt
<1>4. WatInv' /\ RedoInv'
  BY <1>3 DEF WatInv, RedoInv, HasEntry, OnItsWay, Attempted
<1>5. RecordsInv' /\ HeapInv' /\ SendsInv' /\ CtlInv' /\ ControlAnswersIndication'
  BY DEF RecordsInv, HeapInv, SendsInv, CtlInv, HasEntry, Get, ControlAnswersIndication
<1>6. DoneMeansAttempted'
  BY DEF DoneMeansAttempted
<1>7. NoForgottenRequest'
  BY <1>3 DEF NoForgottenRequest, Waits, Pending, Unheard, HasEntry, Get, OnItsWay
<1> QED
  BY <1>1, <1>2, <1>4, <1>5, <1>6, <1>7

\* createSubscription keeps the invariant, whether it succeeds or fails.
LEMMA SubscriptionInv ==
  ASSUME IInv, NEW c \in Conns, CreateSubscription(c) \/ FailSubscription(c),
         UNCHANGED <<ctl, crashes>>
  PROVE  IInv'
<1> USE DEF IInv, storeVars, southboundVars, CreateSubscription, FailSubscription,
            StartMonitor
<1>1. TypeOK'
  <2>1. mon' \in [Conns -> [pc : MonPC, call : Calls \cup {None}, val : Calls \cup {None}]]
    BY DEF TypeOK, MonitorTypeOK, MonPC, MonAt
  <2>2. listening' \in [Conns -> BOOLEAN]
    BY Zenon DEF TypeOK, MonitorTypeOK
  <2> QED
    BY <2>1, <2>2
    DEF TypeOK, StoreTypeOK, MonitorTypeOK, ControllerTypeOK, SouthboundTypeOK
<1>2. MonInv'
  BY DEF MonInv, TypeOK, MonitorTypeOK, MonAt
<1>3. /\ RecordsInv' /\ HeapInv' /\ SendsInv' /\ CtlInv' /\ WatInv' /\ RedoInv'
      /\ ControlAnswersIndication'
  BY DEF RecordsInv, HeapInv, SendsInv, CtlInv, WatInv, RedoInv, HasEntry, Get, OnItsWay,
         Attempted, ControlAnswersIndication
<1>4. DoneMeansAttempted' /\ NoForgottenRequest'
  BY DEF DoneMeansAttempted, NoForgottenRequest, Waits, Pending, Unheard, HasEntry, Get,
         OnItsWay
<1> QED
  BY <1>1, <1>2, <1>3, <1>4

\* Registering a southbound watcher keeps the invariant.
LEMMA WatchMHOChangesInv ==
  ASSUME IInv, NEW c \in Conns, WatchMHOChanges(c), UNCHANGED <<ctl, crashes>>
  PROVE  IInv'
<1> USE DEF IInv, monitorVars, WatchMHOChanges, Watch, AddWatcher
<1>1. TypeOK'
  BY DEF TypeOK, StoreTypeOK, MonitorTypeOK, ControllerTypeOK, SouthboundTypeOK, WatPC,
         WatAt, WatcherIDs
<1>2. /\ wat[c].pc = "starting" /\ wat'[c].pc = "idle"
      /\ \A d \in Conns \ {c} : wat'[d] = wat[d]
      /\ watchers' = watchers \cup {c}
  BY DEF TypeOK, SouthboundTypeOK, WatAt
<1>3. WatInv' /\ RedoInv'
  BY <1>2 DEF WatInv, RedoInv, HasEntry, OnItsWay, Attempted
<1>4. /\ RecordsInv' /\ HeapInv' /\ SendsInv' /\ MonInv' /\ CtlInv'
      /\ ControlAnswersIndication'
  BY DEF RecordsInv, HeapInv, SendsInv, MonInv, CtlInv, HasEntry, Get,
         ControlAnswersIndication
<1>5. DoneMeansAttempted'
  BY DEF DoneMeansAttempted
<1>6. NoForgottenRequest'
  BY <1>2 DEF NoForgottenRequest, Waits, Pending, Unheard, HasEntry, Get, OnItsWay
<1> QED
  BY <1>1, <1>3, <1>4, <1>5, <1>6

\* Registering the controller keeps the invariant.
LEMMA WatchStoreInv ==
  ASSUME IInv, WatchStore, UNCHANGED <<monitorVars, southboundVars, crashes>>
  PROVE  IInv'
<1> USE DEF IInv, monitorVars, southboundVars, WatchStore, Watch, AddWatcher
<1>1. TypeOK'
  BY DEF TypeOK, StoreTypeOK, MonitorTypeOK, ControllerTypeOK, SouthboundTypeOK, CtlPC,
         CtlAt, WatcherIDs
<1>2. ctl.pc = "starting" /\ ctl'.pc = "idle" /\ watchers' = watchers \cup {Ctl}
  BY DEF CtlAt
<1>3. CtlInv' /\ WatInv' /\ RedoInv'
  BY <1>2 DEF CtlInv, WatInv, RedoInv, HasEntry, OnItsWay, Attempted
<1>4. RecordsInv' /\ HeapInv' /\ SendsInv' /\ MonInv' /\ ControlAnswersIndication'
  BY DEF RecordsInv, HeapInv, SendsInv, MonInv, HasEntry, Get, ControlAnswersIndication
<1>5. DoneMeansAttempted'
  BY DEF DoneMeansAttempted
<1>6. NoForgottenRequest'
  BY <1>2 DEF NoForgottenRequest, Waits, Pending, Unheard, HasEntry, Get, OnItsWay
<1> QED
  BY <1>1, <1>3, <1>4, <1>5, <1>6

-----------------------------------------------------------------------------
(***************************************************************************)
(* The actions of the controller.                                          *)
(***************************************************************************)
\* The controller's Get, possibly of a newer value, keeps the invariant.
LEMMA ReceiveEventInv ==
  ASSUME IInv, NEW s \in BagToSet(sends), ReceiveEvent(s),
         UNCHANGED <<monitorVars, southboundVars, crashes>>
  PROVE  IInv'
<1> USE DEF IInv, monitorVars, southboundVars, ReceiveEvent
<1>1. /\ IsABag(sends') /\ BagToSet(sends') \subseteq SendRoutine
      /\ \A t \in BagToSet(sends') : t \in BagToSet(sends) \/ t.ev = s.ev
      /\ \A u \in UEs, d \in WatcherIDs :
           OnItsWay(u, d) /\ (d # Ctl \/ u # s.ev.key) => OnItsWay(u, d)'
      /\ s.ev.key \in UEs
  BY ReceiveKeeps DEF TypeOK, WatcherIDs
<1>2. HasEntry(s.ev.key) /\ Get(s.ev.key) \in Calls
  BY <1>1 DEF SendsInv, HasEntry, Get, TypeOK, StoreTypeOK
<1>3. TypeOK'
  BY <1>1, <1>2
  DEF TypeOK, StoreTypeOK, MonitorTypeOK, ControllerTypeOK, SouthboundTypeOK, CtlPC
<1>4. SendsInv'
  BY <1>1, <1>2 DEF SendsInv, HasEntry
<1>5. CtlInv'
  BY <1>1, <1>2 DEF CtlInv, RecordsInv, HasEntry, Get
<1>6. RecordsInv' /\ HeapInv' /\ MonInv' /\ ControlAnswersIndication' /\ WatInv'
  BY DEF RecordsInv, HeapInv, MonInv, HasEntry, Get, ControlAnswersIndication, WatInv,
         Attempted
<1>7. RedoInv'
  <2>1. \A d \in Conns : d \in WatcherIDs \ {Ctl}
    BY StoreAssumption DEF WatcherIDs
  <2> QED
    BY <1>1, <2>1 DEF RedoInv, WatInv
<1>8. DoneMeansAttempted'
  BY DEF DoneMeansAttempted
<1>9. NoForgottenRequest'
  <2> SUFFICES ASSUME NEW u \in UEs, Waits(u)' PROVE Pending(u)' \/ Unheard(u)'
    BY DEF NoForgottenRequest
  <2>1. CASE u = s.ev.key
    BY <2>1 DEF Pending
  <2>2. CASE u # s.ev.key
    <3>1. Waits(u)
      BY DEF Waits, HasEntry, Get
    <3>2. Unheard(u) => Unheard(u)'
      BY DEF Unheard, HasEntry, Get
    <3>3. Pending(u) => Pending(u)'
      BY <1>1, <2>2 DEF Pending, Get, TypeOK, StoreTypeOK
    <3> QED
      BY <3>1, <3>2, <3>3 DEF NoForgottenRequest
  <2> QED
    BY <2>1, <2>2
<1> QED
  BY <1>3, <1>4, <1>5, <1>6, <1>7, <1>8, <1>9

\* The controller's unlocked write of State keeps the invariant.
LEMMA ApproveInv ==
  ASSUME IInv, Approve, UNCHANGED <<monitorVars, southboundVars, crashes>>
  PROVE  IInv'
<1> USE DEF IInv, monitorVars, southboundVars
<1>1. PICK u0 \in UEs, i \in Calls :
        /\ ctl.pc = "write" /\ ctl.key = u0 /\ ctl.val = i
        /\ HasEntry(u0) /\ heap[i] # None /\ heap[i].ue = u0
  BY DEF Approve, CtlInv
<1>2. /\ UNCHANGED <<records, watchers, sends, audience, inds, mon, listening>>
      /\ UNCHANGED <<wat, controls, crashes>>
  BY DEF Approve
<1>3. ctl'.pc = "put" /\ ctl'.key = u0 /\ ctl'.val = i /\ ControllerTypeOK'
  BY <1>1 DEF Approve, TypeOK, ControllerTypeOK, CtlPC
<1>4. /\ heap' \in [Calls -> MetricValue \cup {None}]
      /\ heap'[i] # None /\ heap'[i].state = "Approved"
      /\ heap'[i].ue = heap[i].ue /\ heap'[i].tgt = heap[i].tgt
      /\ heap'[i].node = heap[i].node
      /\ \A j \in Calls \ {i} : heap'[j] = heap[j]
  BY <1>1, StoreAssumption DEF Approve, TypeOK, StoreTypeOK, MetricValue, MHOState
<1>5. TypeOK'
  BY <1>2, <1>3, <1>4 DEF TypeOK, StoreTypeOK, MonitorTypeOK, SouthboundTypeOK
<1>6. RecordsInv'
  BY <1>1, <1>2, <1>4 DEF RecordsInv, HasEntry, Get, TypeOK, StoreTypeOK
<1>7. HeapInv'
  BY <1>1, <1>2, <1>4 DEF HeapInv
<1>8. SendsInv' /\ ControlAnswersIndication'
  BY <1>2 DEF SendsInv, HasEntry, ControlAnswersIndication
<1>9. MonInv'
  BY <1>1, <1>2, <1>4 DEF MonInv, TypeOK, MonitorTypeOK
<1>10. CtlInv'
  BY <1>1, <1>2, <1>3, <1>4 DEF CtlInv, HasEntry
<1>11. WatInv'
  BY <1>1, <1>2, <1>4 DEF WatInv, HasEntry, Attempted
<1>12. RedoInv'
  BY <1>1, <1>2, <1>3, <1>4 DEF RedoInv, WatInv, OnItsWay
<1>13. DoneMeansAttempted'
  BY <1>2, <1>4 DEF DoneMeansAttempted
<1>14. NoForgottenRequest'
  <2> SUFFICES ASSUME NEW u \in UEs, Waits(u)' PROVE Pending(u)' \/ Unheard(u)'
    BY DEF NoForgottenRequest
  <2>1. CASE u = u0
    BY <1>3, <2>1 DEF Pending
  <2>2. CASE u # u0
    <3>1. HasEntry(u) /\ heap'[Get(u)] = heap[Get(u)] /\ Get(u)' = Get(u)
      BY <1>1, <1>2, <1>4, <2>2
      DEF Waits, RecordsInv, HasEntry, Get, TypeOK, StoreTypeOK
    <3>2. Waits(u)
      BY <3>1 DEF Waits
    <3>3. Unheard(u) => Unheard(u)'
      BY <1>2, <3>1 DEF Unheard, HasEntry
    <3>4. Pending(u) => Pending(u)'
      BY <1>1, <1>2, <2>2, <3>1 DEF Pending, OnItsWay
    <3> QED
      BY <3>2, <3>3, <3>4 DEF NoForgottenRequest
  <2> QED
    BY <2>1, <2>2
<1> QED
  BY <1>5, <1>6, <1>7, <1>8, <1>9, <1>10, <1>11, <1>12, <1>13, <1>14

\* The controller's Put, possibly of an older value, keeps the invariant.
LEMMA PutApprovedInv ==
  ASSUME IInv, PutApproved, UNCHANGED <<monitorVars, southboundVars, crashes>>
  PROVE  IInv'
<1> USE DEF IInv, monitorVars, southboundVars
<1>1. PICK u0 \in UEs, i \in Calls :
        /\ ctl.pc = "put" /\ ctl.key = u0 /\ ctl.val = i
        /\ HasEntry(u0) /\ heap[i] # None /\ heap[i].ue = u0
        /\ heap[i].state \in {"Approved", "Done"}
  BY DEF PutApproved, CtlInv
<1>2. UNCHANGED <<heap, inds, mon, listening, wat, controls, crashes>>
  BY DEF PutApproved
<1>3. ctl'.pc = "idle" /\ ControllerTypeOK'
  BY DEF PutApproved, CtlAt, ControllerTypeOK, CtlPC
<1>4. /\ records' = [records EXCEPT ![u0] = i]
      /\ watchers' = watchers
      /\ audience' = [audience EXCEPT ![u0] = watchers]
      /\ IsABag(sends') /\ BagToSet(sends') \subseteq SendRoutine
      /\ \A s \in BagToSet(sends') : s \in BagToSet(sends) \/ s.ev.key = u0
      /\ \A u \in UEs, id \in WatcherIDs : OnItsWay(u, id) => OnItsWay(u, id)'
      /\ \A c \in watchers \ {Ctl} : OnItsWay(u0, c)'
  <2>1. "Approved" \in MHOState
    BY DEF MHOState
  <2>2. Put(u0, i, "Approved")
    BY <1>1 DEF PutApproved
  <2> QED
    BY <1>1, <2>1, <2>2, PutFacts DEF TypeOK
<1>5. /\ records'[u0] = i /\ i # None
      /\ \A u \in UEs \ {u0} : records'[u] = records[u]
  BY <1>1, <1>4, StoreAssumption DEF TypeOK, StoreTypeOK
<1>6. \A u \in UEs : HasEntry(u) => HasEntry(u)'
  BY <1>5 DEF HasEntry
<1>7. TypeOK'
  BY <1>1, <1>2, <1>3, <1>4 DEF TypeOK, StoreTypeOK, MonitorTypeOK, SouthboundTypeOK
<1>8. RecordsInv'
  BY <1>1, <1>2, <1>5 DEF RecordsInv, HasEntry, Get
<1>9. HeapInv' /\ MonInv' /\ CtlInv' /\ ControlAnswersIndication' /\ DoneMeansAttempted'
  BY <1>2, <1>3 DEF HeapInv, MonInv, CtlInv, ControlAnswersIndication, DoneMeansAttempted
<1>10. SendsInv'
  BY <1>1, <1>4, <1>6 DEF SendsInv, TypeOK, StoreTypeOK, SendRoutine, Event
<1>11. WatInv'
  BY <1>2, <1>4, <1>6 DEF WatInv, Attempted
<1>12. RedoInv'
  <2> SUFFICES ASSUME NEW c \in Conns, wat[c].pc = "put", heap[wat[c].val].state # "Done"
               PROVE  OnItsWay(wat[c].key, c)'
    BY <1>2 DEF RedoInv
  <2>1. c \in watchers \ {Ctl} /\ wat[c].key \in UEs /\ heap[wat[c].val].ue = wat[c].key
    BY StoreAssumption DEF WatInv
  <2>2. wat'[c].key = wat[c].key
    BY <1>2
  <2>3. CASE ctl.val = wat[c].val
    BY <1>1, <1>4, <2>1, <2>2, <2>3 DEF OnItsWay
  <2>4. CASE OnItsWay(wat[c].key, c)
    BY <1>4, <2>1, <2>2, <2>4 DEF OnItsWay, WatcherIDs
  <2> QED
    BY <2>3, <2>4 DEF RedoInv
<1>13. NoForgottenRequest'
  <2> SUFFICES ASSUME NEW u \in UEs, Waits(u)' PROVE Pending(u)' \/ Unheard(u)'
    BY DEF NoForgottenRequest
  <2>1. CASE u = u0
    <3>1. HasEntry(u)' /\ Get(u)' = i /\ heap'[i].state = "Approved"
      BY <1>1, <1>2, <1>5, <2>1 DEF HasEntry, Get, Waits
    <3>2. CASE \E c \in watchers \ {Ctl} : NodeOf[c] = heap[i].node
      BY <1>2, <1>4, <2>1, <3>1, <3>2 DEF Pending
    <3>3. CASE \A c \in watchers \ {Ctl} : NodeOf[c] # heap[i].node
      <4>1. audience'[u] = watchers
        BY <1>4, <2>1 DEF TypeOK, StoreTypeOK
      <4> QED
        BY <1>2, <3>1, <3>3, <4>1 DEF Unheard
    <3> QED
      BY <3>2, <3>3
  <2>2. CASE u # u0
    <3>1. /\ HasEntry(u)' = HasEntry(u) /\ Get(u)' = Get(u) /\ audience'[u] = audience[u]
      BY <1>4, <1>5, <2>2 DEF HasEntry, Get, TypeOK, StoreTypeOK
    <3>2. Waits(u)
      BY <1>2, <3>1 DEF Waits
    <3>3. Unheard(u) => Unheard(u)'
      BY <1>2, <3>1 DEF Unheard
    <3>4. Pending(u) => Pending(u)'
      BY <1>1, <1>2, <1>4, <2>2, <3>1 DEF Pending, TypeOK, StoreTypeOK
    <3> QED
      BY <3>2, <3>3, <3>4 DEF NoForgottenRequest
  <2> QED
    BY <2>1, <2>2
<1> QED
  BY <1>7, <1>8, <1>9, <1>10, <1>11, <1>12, <1>13

-----------------------------------------------------------------------------
(***************************************************************************)
(* The actions of the southbound watchers.                                 *)
(***************************************************************************)
\* The watcher's Get and its comparison of E2NodeID keep the invariant.
LEMMA ReceiveChangeInv ==
  ASSUME IInv, NEW c \in Conns, NEW s \in BagToSet(sends), ReceiveChange(c, s),
         UNCHANGED <<ctl, crashes>>
  PROVE  IInv'
<1> USE DEF IInv, monitorVars
<1>1. /\ IsABag(sends') /\ BagToSet(sends') \subseteq SendRoutine
      /\ \A t \in BagToSet(sends') : t \in BagToSet(sends) \/ t.ev = s.ev
      /\ \A u \in UEs, d \in WatcherIDs :
           OnItsWay(u, d) /\ (d # c \/ u # s.ev.key) => OnItsWay(u, d)'
      /\ s.ev.key \in UEs
  BY ReceiveKeeps DEF ReceiveChange, TypeOK, WatcherIDs
<1>2. PICK u0 \in UEs, i \in Calls :
        /\ s.ev.key = u0 /\ Get(u0) = i /\ HasEntry(u0)
        /\ heap[i] # None /\ heap[i].ue = u0
  BY <1>1 DEF SendsInv, RecordsInv, HasEntry, Get, TypeOK, StoreTypeOK
<1>3. /\ UNCHANGED <<controls, records, heap, watchers, audience, inds, mon, listening>>
      /\ UNCHANGED <<ctl, crashes>>
  BY DEF ReceiveChange
<1>4. wat[c].pc = "idle" /\ c \in watchers /\ c # Ctl
  BY StoreAssumption DEF ReceiveChange, WatInv
<1>5. \A d \in Conns \ {c} : wat'[d] = wat[d]
  BY DEF ReceiveChange, TypeOK, SouthboundTypeOK
<1>6. CASE heap[i].node = NodeOf[c]
  <2>1. wat' = [wat EXCEPT ![c] = [pc |-> "control", key |-> u0, val |-> i]]
    BY <1>2, <1>6 DEF ReceiveChange
  <2>2. wat'[c].pc = "control" /\ wat'[c].key = u0 /\ wat'[c].val = i
    BY <2>1 DEF TypeOK, SouthboundTypeOK
  <2>3. TypeOK'
    BY <1>1, <1>3, <2>1
    DEF TypeOK, StoreTypeOK, MonitorTypeOK, ControllerTypeOK, SouthboundTypeOK, WatPC
  <2>4. WatInv'
    BY <1>2, <1>3, <1>4, <1>5, <1>6, <2>2 DEF WatInv, HasEntry, Attempted
  <2>5. RedoInv'
    BY <1>1, <1>3, <1>5, <2>2 DEF RedoInv, WatInv, WatcherIDs
  <2>6. NoForgottenRequest'
    <3> SUFFICES ASSUME NEW u \in UEs, Waits(u)' PROVE Pending(u)' \/ Unheard(u)'
      BY DEF NoForgottenRequest
    <3>1. CASE u = u0
      BY <2>2, <3>1 DEF Pending
    <3>2. CASE u # u0
      <4>1. Waits(u) /\ (Unheard(u) => Unheard(u)')
        BY <1>3 DEF Waits, Unheard, HasEntry, Get
      <4>2. Pending(u) => Pending(u)'
        BY <1>1, <1>2, <1>3, <1>4, <1>5, <3>2 DEF Pending, Get, TypeOK, StoreTypeOK
      <4> QED
        BY <4>1, <4>2 DEF NoForgottenRequest
    <3> QED
      BY <3>1, <3>2
  <2> QED
    BY <1>2, <1>1, <1>3, <2>3, <2>4, <2>5, <2>6
    DEF RecordsInv, HeapInv, SendsInv, MonInv, CtlInv, HasEntry, Get,
        ControlAnswersIndication, DoneMeansAttempted
<1>7. CASE heap[i].node # NodeOf[c]
  <2>1. wat' = wat
    BY <1>2, <1>7 DEF ReceiveChange
  <2>2. TypeOK'
    BY <1>1, <1>3, <2>1
    DEF TypeOK, StoreTypeOK, MonitorTypeOK, ControllerTypeOK, SouthboundTypeOK
  <2>3. WatInv'
    BY <1>3, <2>1 DEF WatInv, HasEntry, Attempted
  <2>4. RedoInv'
    BY <1>1, <1>3, <1>4, <2>1 DEF RedoInv, WatInv, WatcherIDs
  <2>5. NoForgottenRequest'
    <3> SUFFICES ASSUME NEW u \in UEs, Waits(u)' PROVE Pending(u)' \/ Unheard(u)'
      BY DEF NoForgottenRequest
    <3>1. Waits(u) /\ (Unheard(u) => Unheard(u)')
      BY <1>3 DEF Waits, Unheard, HasEntry, Get
    <3>2. Pending(u) => Pending(u)'
      BY <1>1, <1>2, <1>3, <1>4, <1>7, <2>1 DEF Pending, Get, TypeOK, StoreTypeOK
    <3> QED
      BY <3>1, <3>2 DEF NoForgottenRequest
  <2> QED
    BY <1>2, <1>1, <1>3, <2>2, <2>3, <2>4, <2>5
    DEF RecordsInv, HeapInv, SendsInv, MonInv, CtlInv, HasEntry, Get,
        ControlAnswersIndication, DoneMeansAttempted
<1> QED
  BY <1>6, <1>7

\* Sending the control message, or failing to, keeps the invariant.
LEMMA SendControlInv ==
  ASSUME IInv, NEW c \in Conns, SendControl(c), UNCHANGED <<ctl, crashes>>
  PROVE  IInv'
<1> USE DEF IInv, monitorVars, storeVars
<1>1. PICK i \in Calls :
        /\ wat[c].pc = "control" /\ wat[c].val = i
        /\ heap[i] # None /\ heap[i].node = NodeOf[c]
  BY DEF SendControl, WatInv
<1>2. PICK o \in ControlOutcomes :
        controls' = BX!BagAdd(controls, [to |-> NodeOf[c], ue |-> heap[i].ue,
                                         tgt |-> heap[i].tgt, call |-> i, outcome |-> o])
  BY <1>1 DEF SendControl
<1> DEFINE m0 == [to |-> NodeOf[c], ue |-> heap[i].ue, tgt |-> heap[i].tgt,
                  call |-> i, outcome |-> o]
<1>3. /\ UNCHANGED <<records, heap, watchers, sends, audience, inds, mon, listening>>
      /\ UNCHANGED <<ctl, crashes>>
  BY DEF SendControl
<1>4. /\ wat'[c].pc = "mark" /\ wat'[c].key = wat[c].key /\ wat'[c].val = i
      /\ \A d \in Conns \ {c} : wat'[d] = wat[d]
      /\ wat' \in [Conns -> [pc : WatPC, key : UEs \cup {None}, val : Calls \cup {None}]]
  BY <1>1 DEF SendControl, TypeOK, SouthboundTypeOK, WatPC
<1>5. /\ IsABag(controls')
      /\ BagToSet(controls') = BagToSet(controls) \cup {m0}
  BY <1>2, BagAddFacts DEF TypeOK, SouthboundTypeOK
<1>6. m0 \in ControlMessage /\ m0.call = i /\ m0.to = NodeOf[c]
  BY <1>1, ConnsAssumption, OutcomeAssumption
  DEF ControlMessage, TypeOK, StoreTypeOK, MetricValue
<1>7. inds[m0.call] = [ue |-> m0.ue, tgt |-> m0.tgt, node |-> m0.to]
  BY <1>1 DEF HeapInv
<1> HIDE DEF m0
<1>8. TypeOK'
  BY <1>3, <1>4, <1>5, <1>6
  DEF TypeOK, StoreTypeOK, MonitorTypeOK, ControllerTypeOK, SouthboundTypeOK
<1>9. \A j \in Calls, n \in Nodes : Attempted(j, n) => Attempted(j, n)'
  BY <1>5 DEF Attempted
<1>10. Attempted(i, NodeOf[c])'
  BY <1>5, <1>6 DEF Attempted
<1>11. WatInv'
  BY <1>1, <1>3, <1>4, <1>9, <1>10, ConnsAssumption DEF WatInv, HasEntry
<1>12. RedoInv'
  BY <1>3, <1>4 DEF RedoInv, OnItsWay
<1>13. ControlAnswersIndication'
  BY <1>3, <1>5, <1>7 DEF ControlAnswersIndication
<1>14. DoneMeansAttempted'
  BY <1>3, <1>5 DEF DoneMeansAttempted
<1>15. NoForgottenRequest'
  BY <1>1, <1>3, <1>4 DEF NoForgottenRequest, Waits, Pending, Unheard, HasEntry, Get,
                          OnItsWay
<1>16. RecordsInv' /\ HeapInv' /\ SendsInv' /\ MonInv' /\ CtlInv'
  BY <1>3 DEF RecordsInv, HeapInv, SendsInv, MonInv, CtlInv, HasEntry, Get
<1> QED
  BY <1>8, <1>11, <1>12, <1>13, <1>14, <1>15, <1>16

\* The watcher's unlocked write of State keeps the invariant.
LEMMA MarkDoneInv ==
  ASSUME IInv, NEW c \in Conns, MarkDone(c), UNCHANGED <<ctl, crashes>>
  PROVE  IInv'
<1> USE DEF IInv, monitorVars
<1>1. PICK u0 \in UEs, i \in Calls :
        /\ wat[c].pc = "mark" /\ wat[c].key = u0 /\ wat[c].val = i
        /\ heap[i] # None /\ heap[i].ue = u0 /\ heap[i].node = NodeOf[c]
        /\ Attempted(i, NodeOf[c])
  BY DEF MarkDone, WatInv
<1>2. /\ UNCHANGED <<records, watchers, sends, audience, inds, mon, listening>>
      /\ UNCHANGED <<controls, ctl, crashes>>
  BY DEF MarkDone
<1>3. /\ wat'[c].pc = "put" /\ wat'[c].key = u0 /\ wat'[c].val = i
      /\ \A d \in Conns \ {c} : wat'[d] = wat[d]
      /\ wat' \in [Conns -> [pc : WatPC, key : UEs \cup {None}, val : Calls \cup {None}]]
  BY <1>1 DEF MarkDone, TypeOK, SouthboundTypeOK, WatPC
<1>4. /\ heap' \in [Calls -> MetricValue \cup {None}]
      /\ heap'[i] # None /\ heap'[i].state = "Done"
      /\ heap'[i].ue = heap[i].ue /\ heap'[i].tgt = heap[i].tgt
      /\ heap'[i].node = heap[i].node
      /\ \A j \in Calls \ {i} : heap'[j] = heap[j]
  BY <1>1, StoreAssumption DEF MarkDone, TypeOK, StoreTypeOK, MetricValue, MHOState
<1>5. TypeOK'
  BY <1>2, <1>3, <1>4
  DEF TypeOK, StoreTypeOK, MonitorTypeOK, ControllerTypeOK, SouthboundTypeOK
<1>6. RecordsInv'
  BY <1>1, <1>2, <1>4 DEF RecordsInv, HasEntry, Get, TypeOK, StoreTypeOK
<1>7. HeapInv'
  BY <1>1, <1>2, <1>4 DEF HeapInv
<1>8. SendsInv' /\ ControlAnswersIndication'
  BY <1>2 DEF SendsInv, HasEntry, ControlAnswersIndication
<1>9. MonInv'
  BY <1>1, <1>2, <1>4 DEF MonInv, TypeOK, MonitorTypeOK
<1>10. CtlInv'
  BY <1>1, <1>2, <1>4 DEF CtlInv, HasEntry
<1>11. WatInv'
  BY <1>1, <1>2, <1>3, <1>4 DEF WatInv, HasEntry, Attempted
<1>12. RedoInv'
  BY <1>1, <1>2, <1>3, <1>4 DEF RedoInv, WatInv, OnItsWay
<1>13. DoneMeansAttempted'
  BY <1>1, <1>2, <1>4 DEF DoneMeansAttempted, Attempted
<1>14. NoForgottenRequest'
  <2> SUFFICES ASSUME NEW u \in UEs, Waits(u)' PROVE Pending(u)' \/ Unheard(u)'
    BY DEF NoForgottenRequest
  <2>1. CASE u = u0
    BY <1>3, <2>1 DEF Pending
  <2>2. CASE u # u0
    <3>1. HasEntry(u) /\ heap'[Get(u)] = heap[Get(u)] /\ Get(u)' = Get(u)
      BY <1>1, <1>2, <1>4, <2>2
      DEF Waits, RecordsInv, HasEntry, Get, TypeOK, StoreTypeOK
    <3>2. Waits(u)
      BY <3>1 DEF Waits
    <3>3. Unheard(u) => Unheard(u)'
      BY <1>2, <3>1 DEF Unheard, HasEntry
    <3>4. Pending(u) => Pending(u)'
      BY <1>1, <1>2, <1>3, <2>2, <3>1 DEF Pending, OnItsWay
    <3> QED
      BY <3>2, <3>3, <3>4 DEF NoForgottenRequest
  <2> QED
    BY <2>1, <2>2
<1> QED
  BY <1>5, <1>6, <1>7, <1>8, <1>9, <1>10, <1>11, <1>12, <1>13, <1>14

\* The watcher's Put, possibly of an older value, keeps the invariant.
LEMMA PutDoneInv ==
  ASSUME IInv, NEW c \in Conns, PutDone(c), UNCHANGED <<ctl, crashes>>
  PROVE  IInv'
<1> USE DEF IInv, monitorVars
<1>1. PICK u0 \in UEs, i \in Calls :
        /\ wat[c].pc = "put" /\ wat[c].key = u0 /\ wat[c].val = i /\ c \in watchers
        /\ heap[i] # None /\ heap[i].ue = u0 /\ heap[i].node = NodeOf[c]
  BY DEF PutDone, WatInv
<1>2. UNCHANGED <<heap, inds, mon, listening, controls, ctl, crashes>>
  BY DEF PutDone
<1>3. /\ wat'[c].pc = "idle"
      /\ \A d \in Conns \ {c} : wat'[d] = wat[d]
      /\ wat' \in [Conns -> [pc : WatPC, key : UEs \cup {None}, val : Calls \cup {None}]]
  BY DEF PutDone, TypeOK, SouthboundTypeOK, WatPC, WatAt
<1>4. /\ records' = [records EXCEPT ![u0] = i]
      /\ watchers' = watchers
      /\ audience' = [audience EXCEPT ![u0] = watchers]
      /\ IsABag(sends') /\ BagToSet(sends') \subseteq SendRoutine
      /\ \A s \in BagToSet(sends') : s \in BagToSet(sends) \/ s.ev.key = u0
      /\ \A u \in UEs, id \in WatcherIDs : OnItsWay(u, id) => OnItsWay(u, id)'
  <2>1. "Done" \in MHOState
    BY DEF MHOState
  <2>2. Put(u0, i, "Done")
    BY <1>1 DEF PutDone
  <2> QED
    BY <1>1, <2>1, <2>2, PutFacts DEF TypeOK
<1>5. /\ records'[u0] = i /\ i # None
      /\ \A u \in UEs \ {u0} : records'[u] = records[u]
  BY <1>1, <1>4, StoreAssumption DEF TypeOK, StoreTypeOK
<1>6. \A u \in UEs : HasEntry(u) => HasEntry(u)'
  BY <1>5 DEF HasEntry
<1>7. TypeOK'
  BY <1>1, <1>2, <1>3, <1>4
  DEF TypeOK, StoreTypeOK, MonitorTypeOK, ControllerTypeOK, SouthboundTypeOK
<1>8. RecordsInv'
  BY <1>1, <1>2, <1>5 DEF RecordsInv, HasEntry, Get
<1>9. HeapInv' /\ MonInv' /\ ControlAnswersIndication' /\ DoneMeansAttempted'
  BY <1>2 DEF HeapInv, MonInv, ControlAnswersIndication, DoneMeansAttempted
<1>10. SendsInv'
  BY <1>1, <1>4, <1>5, <1>6 DEF SendsInv, HasEntry, TypeOK, StoreTypeOK, SendRoutine, Event
<1>11. CtlInv'
  BY <1>2, <1>6 DEF CtlInv
<1>12. WatInv'
  BY <1>1, <1>2, <1>3, <1>4, <1>6 DEF WatInv, Attempted
<1>13. RedoInv'
  BY <1>2, <1>3, <1>4 DEF RedoInv, WatInv, WatcherIDs
<1>14. NoForgottenRequest'
  <2> SUFFICES ASSUME NEW u \in UEs, Waits(u)' PROVE Pending(u)' \/ Unheard(u)'
    BY DEF NoForgottenRequest
  <2>1. CASE u = u0
    <3>1. Get(u)' = i /\ heap'[i] = heap[i] /\ heap[i].state # "Done"
      BY <1>2, <1>5, <2>1 DEF Get, Waits
    <3>2. \/ ctl.pc = "put" /\ ctl.val = i
          \/ OnItsWay(u0, c)
      BY <1>1, <3>1 DEF RedoInv
    <3>3. CASE ctl.pc = "put" /\ ctl.val = i
      BY <1>1, <1>2, <2>1, <3>3 DEF CtlInv, Pending
    <3>4. CASE OnItsWay(u0, c)
      BY <1>1, <1>4, <2>1, <3>1, <3>4 DEF Pending, WatcherIDs
    <3> QED
      BY <3>2, <3>3, <3>4
  <2>2. CASE u # u0
    <3>1. /\ HasEntry(u)' = HasEntry(u) /\ Get(u)' = Get(u) /\ audience'[u] = audience[u]
      BY <1>4, <1>5, <2>2 DEF HasEntry, Get, TypeOK, StoreTypeOK
    <3>2. Waits(u)
      BY <1>2, <3>1 DEF Waits
    <3>3. Unheard(u) => Unheard(u)'
      BY <1>2, <3>1 DEF Unheard
    <3>4. Pending(u) => Pending(u)'
      BY <1>1, <1>2, <1>3, <1>4, <2>2, <3>1 DEF Pending, TypeOK, StoreTypeOK
    <3> QED
      BY <3>2, <3>3, <3>4 DEF NoForgottenRequest
  <2> QED
    BY <2>1, <2>2
<1> QED
  BY <1>7, <1>8, <1>9, <1>10, <1>11, <1>12, <1>13, <1>14

-----------------------------------------------------------------------------
\* Every step keeps the invariant.
LEMMA NextInv == IInv /\ [Next]_vars => IInv'
<1> SUFFICES ASSUME IInv, [Next]_vars PROVE IInv'
  OBVIOUS
<1>1. ASSUME NEW c \in Conns, MonitorNext(c) PROVE IInv'
  BY <1>1, RecvIndicationInv, ApplyIndicationInv, RejectIndicationInv DEF MonitorNext
<1>2. ASSUME ControllerNext PROVE IInv'
  BY <1>2, WatchStoreInv, ApproveInv, PutApprovedInv, ReceiveEventInv DEF ControllerNext
<1>3. ASSUME NEW c \in Conns, SouthboundNext(c) PROVE IInv'
  BY <1>3, ConnectInv, SubscriptionInv, WatchMHOChangesInv, SendControlInv, MarkDoneInv,
     PutDoneInv, ReceiveChangeInv DEF SouthboundNext
<1>4. ASSUME Crash PROVE IInv'
  BY <1>4, CrashInv
<1>5. ASSUME UNCHANGED vars PROVE IInv'
  <2> USE <1>5 DEF vars, storeVars, monitorVars, southboundVars, IInv
  <2>1. TypeOK'
    BY DEF TypeOK, StoreTypeOK, MonitorTypeOK, ControllerTypeOK, SouthboundTypeOK
  <2>2. /\ RecordsInv' /\ HeapInv' /\ SendsInv' /\ MonInv' /\ CtlInv' /\ WatInv' /\ RedoInv'
        /\ ControlAnswersIndication'
    BY DEF RecordsInv, HeapInv, SendsInv, MonInv, CtlInv, WatInv, RedoInv, HasEntry, Get,
           OnItsWay, Attempted, ControlAnswersIndication
  <2>3. DoneMeansAttempted' /\ NoForgottenRequest'
    BY DEF DoneMeansAttempted, NoForgottenRequest, Waits, Pending, Unheard, HasEntry, Get,
           OnItsWay
  <2> QED
    BY <2>1, <2>2, <2>3
<1> QED
  BY <1>1, <1>2, <1>3, <1>4, <1>5 DEF Next, Idle

(***************************************************************************)
(* Every variable keeps its type; in particular the goroutines never leave *)
(* the program points the code has, and only events about UEs and states   *)
(* that exist are ever sent.                                               *)
(***************************************************************************)
THEOREM TypeCorrect == Spec => []TypeOK
<1>1. IInv => TypeOK
  BY DEF IInv
<1> QED
  BY <1>1, InitInv, NextInv, PTL DEF Spec

(***************************************************************************)
(* No handover request is forgotten by the monitors, the controller and    *)
(* the southbound watchers together, from startup on and across crashes,   *)
(* save for those announced before their watcher had registered.           *)
(***************************************************************************)
THEOREM NothingForgotten == Spec => []NoForgottenRequest
<1>1. IInv => NoForgottenRequest
  BY DEF IInv
<1> QED
  BY <1>1, InitInv, NextInv, PTL DEF Spec

(***************************************************************************)
(* watchMHOChanges sends a node only the answers to its own indications,   *)
(* also when another node's request replaces the entry meanwhile.          *)
(***************************************************************************)
THEOREM ControlsAnswer == Spec => []ControlAnswersIndication
<1>1. IInv => ControlAnswersIndication
  BY DEF IInv
<1> QED
  BY <1>1, InitInv, NextInv, PTL DEF Spec

(***************************************************************************)
(* A MetricValue is Done only after its own control message was attempted. *)
(***************************************************************************)
THEOREM DoneAttempted == Spec => []DoneMeansAttempted
<1>1. IInv => DoneMeansAttempted
  BY DEF IInv
<1> QED
  BY <1>1, InitInv, NextInv, PTL DEF Spec

(***************************************************************************)
(* The same for the specification that begins when startup is over.        *)
(***************************************************************************)
THEOREM StartedCorrect ==
  StartedSpec => [](/\ NoForgottenRequest
                    /\ ControlAnswersIndication
                    /\ DoneMeansAttempted)
<1>1. IInv => NoForgottenRequest /\ ControlAnswersIndication /\ DoneMeansAttempted
  BY DEF IInv
<1> QED
  BY <1>1, StartedInv, NextInv, PTL DEF StartedSpec
=============================================================================
