-------------------------------- MODULE Store --------------------------------
(***************************************************************************)
(* The metric store of onos-mho (pkg/store): a map from the key of a UE to *)
(* an entry that points to a MetricValue, and the watchers that are told   *)
(* of every Put.                                                           *)
(*                                                                         *)
(* Get hands out the pointer, not a copy, so the goroutines that use the   *)
(* store share the MetricValue objects and write their State field outside *)
(* the store's mutex.  The objects therefore live in a heap of their own;  *)
(* records only refers to them.  An object is created by exactly one       *)
(* indication and is named by the CallProcessID of that indication.        *)
(*                                                                         *)
(* Watchers.Send starts one goroutine per event that hands the event to    *)
(* every watcher over an unbuffered channel.  Nothing orders two such      *)
(* goroutines: sends is the bag of the ones that are still running.        *)
(***************************************************************************)
EXTENDS Integers, FiniteSets, Bags

BX == INSTANCE BagsExt

CONSTANTS
  UEs,          \* store keys: the gNB UE IDs
  Cells,        \* target cell IDs
  Nodes,        \* IDs of E2 nodes
  Calls,        \* call process IDs, one for each indication that is received
  Ctl,          \* the watcher of the controller
  Conns,        \* the southbound watchers, one for each E2 connection
  None          \* no value: a nil pointer, an absent entry

(***************************************************************************)
(* MHOState and EventType (types.go).  Waiting and Denied are declared by  *)
(* the code; which of the states are reached is a result of the model.     *)
(***************************************************************************)
MHOState == {"StateCreated", "Waiting", "Approved", "Denied", "Done"}
EventType == {"Created", "Updated"}

(***************************************************************************)
(* MetricValue without its CallProcessID, which is the object's name.  ue  *)
(* stands for RawUEID and for the key generated from it.                   *)
(***************************************************************************)
WatcherIDs == Conns \cup {Ctl}
MetricValue == [ue : UEs, tgt : Cells, state : MHOState, node : Nodes]
Event == [key : UEs, type : EventType, state : MHOState]
SendRoutine == [ev : Event, todo : SUBSET WatcherIDs]

ASSUME StoreAssumption ==
  /\ None \notin UEs \cup Calls \cup Nodes \cup MetricValue
  /\ Ctl \notin Conns

VARIABLES
  records,   \* key |-> the MetricValue object its entry points to
  heap,      \* the MetricValue objects
  watchers,  \* IDs of the registered watchers
  sends,     \* bag of running Send goroutines: their event and who still gets it
  audience   \* history: the watchers registered when a key was last Put

storeVars == <<records, heap, watchers, sends, audience>>

StoreTypeOK ==
  /\ records \in [UEs -> Calls \cup {None}]
  /\ heap \in [Calls -> MetricValue \cup {None}]
  /\ watchers \in SUBSET WatcherIDs
  /\ IsABag(sends) /\ BagToSet(sends) \subseteq SendRoutine
  /\ audience \in [UEs -> SUBSET WatcherIDs]

\* NewStore, NewWatchers
StoreInit ==
  /\ records = [u \in UEs |-> None]
  /\ heap = [i \in Calls |-> None]
  /\ watchers = {}
  /\ sends = EmptyBag
  /\ audience = [u \in UEs |-> {}]

HasEntry(key) == records[key] # None
Get(key) == records[key]

(***************************************************************************)
(* The events the two kinds of watchers react to.  Any other event they    *)
(* receive and throw away.                                                 *)
(***************************************************************************)
\* Mutant: the controller also reacts to Done.
CtlHandlesDone(event) == event.state \in {"StateCreated", "Denied", "Done"}

CtlHandles(event) == event.state \in {"StateCreated", "Denied"}
ConnHandles(event) == event.type = "Updated" /\ event.state = "Approved"
Handles(id, event) == IF id = Ctl THEN CtlHandles(event) ELSE ConnHandles(event)

(***************************************************************************)
(* Watchers.Send.  The goroutine ranges over the live watcher map after    *)
(* the lock is released: it serves every watcher that is registered when   *)
(* it starts, in an arbitrary order, and a watcher that registers while it *)
(* is still running may or may not be served.  late chooses the ones that  *)
(* will be.  A delivery that the receiver throws away has no effect but to *)
(* take its turn in that arbitrary order, so only the others are kept.     *)
(***************************************************************************)
Send(event) ==
  \E late \in SUBSET (WatcherIDs \ watchers) :
    LET todo == {id \in watchers \cup late : Handles(id, event)} IN
    sends' = IF todo = {} THEN sends
             ELSE BX!BagAdd(sends, [ev |-> event, todo |-> todo])

\* Mutant: only the first Put of a key is announced.
PutQuietly(key, value, state) ==
  /\ records' = [records EXCEPT ![key] = value]
  /\ IF HasEntry(key) THEN UNCHANGED sends
     ELSE Send([key |-> key, type |-> "Created", state |-> state])
  /\ audience' = [audience EXCEPT ![key] = watchers]
  /\ UNCHANGED watchers

\* Mutant: a replaced entry is announced with the wrong event type.
PutAsDeleted(key, value, state) ==
  /\ records' = [records EXCEPT ![key] = value]
  /\ Send([key |-> key,
           type |-> IF HasEntry(key) THEN "Deleted" ELSE "Created",
           state |-> state])
  /\ audience' = [audience EXCEPT ![key] = watchers]
  /\ UNCHANGED watchers

(***************************************************************************)
(* Put replaces the entry and announces it, under the store's mutex.       *)
(***************************************************************************)
Put(key, value, state) ==
  /\ records' = [records EXCEPT ![key] = value]
  /\ Send([key |-> key,
           type |-> IF HasEntry(key) THEN "Updated" ELSE "Created",
           state |-> state])
  /\ audience' = [audience EXCEPT ![key] = watchers]
  /\ UNCHANGED watchers

AddWatcher(id) ==
  /\ watchers' = watchers \cup {id}
  /\ UNCHANGED <<records, heap, sends, audience>>

\* Watch registers the channel; what it does when ctx ends is not modelled here.
Watch(id) == AddWatcher(id)

(***************************************************************************)
(* Watcher id receives the event of the Send goroutine s: the rendezvous   *)
(* on the watcher's channel.  The goroutine ends after its last watcher.   *)
(***************************************************************************)
Receive(id, s) ==
  /\ id \in s.todo
  /\ LET rest == BX!BagRemove(sends, s)
         left == s.todo \ {id}
     IN  sends' = IF left = {} THEN rest
                  ELSE BX!BagAdd(rest, [s EXCEPT !.todo = left])
=============================================================================
