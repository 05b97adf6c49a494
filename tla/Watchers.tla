------------------------------ MODULE Watchers ------------------------------
(***************************************************************************)
(* The watcher registry of the store (pkg/store/watcher.go) and the end of *)
(* a Watch (store.go).  Store and MHO take the registry as it is while the *)
(* E2 manager runs; this module is about what happens around it: watchers  *)
(* that register while events are being sent, a context that ends,         *)
(* RemoveWatcher, and channels that are closed under running senders.      *)
(***************************************************************************)
EXTENDS Integers, FiniteSets, Functions

CONSTANTS
  Watches,   \* Watch calls, each with its own uuid and channel
  Scoped,    \* the ones whose context ends with the E2 manager
  Events,    \* the events that are put, one Send each
  None       \* no entry

ASSUME WatchersAssumption == Scoped \subseteq Watches /\ None \notin Watches

VARIABLES
  table,     \* the current map: uuid |-> watcher
  watch,     \* the life of each Watch
  senders,   \* the goroutine of each Send
  ended,     \* the context of the Scoped watches has ended
  aborted,   \* the Go runtime has stopped the process
  got,       \* history: how often a watch has received an event
  audience   \* history: who was watching when an event was put

watchersVars == <<table, watch, senders, ended, aborted, got, audience>>

(***************************************************************************)
(* watch: "removed" is between RemoveWatcher and close(ch).                *)
(* A sender that is "ranging" has read ws.watchers.  todo are the entries  *)
(* it has yet to visit, and live says whether the map it ranges over is    *)
(* still the current one: RemoveWatcher replaces the map, AddWatcher       *)
(* writes to it.                                                           *)
(***************************************************************************)
WatchPC == {"off", "registered", "removed", "closed"}
Entry == [key : Watches, id : Watches]
Sender == [pc : {"unsent", "spawned", "ranging", "done"}, live : BOOLEAN,
           todo : SUBSET Entry]

WatchersTypeOK ==
  /\ table \in [Watches -> Watches \cup {None}]
  /\ watch \in [Watches -> WatchPC]
  /\ senders \in [Events -> Sender]
  /\ ended \in BOOLEAN
  /\ aborted \in BOOLEAN
  /\ got \in [Events -> [Watches -> Nat]]
  /\ audience \in [Events -> SUBSET Watches]

\* NewWatchers
WatchersInit ==
  /\ table = [id \in Watches |-> None]
  /\ watch = [id \in Watches |-> "off"]
  /\ senders = [e \in Events |-> [pc |-> "unsent", live |-> FALSE, todo |-> {}]]
  /\ ended = FALSE
  /\ aborted = FALSE
  /\ got = [e \in Events |-> [id \in Watches |-> 0]]
  /\ audience = [e \in Events |-> {}]

Entries == {[key |-> k, id |-> table[k]] : k \in {x \in Watches : table[x] # None}}
Present == {id \in Watches : watch[id] = "registered"}
RangesLive(e) == senders[e].pc = "ranging" /\ senders[e].live

-----------------------------------------------------------------------------
(***************************************************************************)
(* Watch calls AddWatcher, which writes to the current map.  A sender that *)
(* ranges over that map does so without the lock: it may or may not visit  *)
(* the new entry, and the runtime stops the process if it notices.         *)
(***************************************************************************)
Watch(id) ==
  /\ watch[id] = "off"
  /\ watch' = [watch EXCEPT ![id] = "registered"]
  /\ table' = [table EXCEPT ![id] = id]
  /\ \E seeing \in SUBSET {e \in Events : RangesLive(e)} :
       senders' = [e \in Events |->
         IF e \in seeing
         THEN [senders[e] EXCEPT !.todo = @ \cup {[key |-> id, id |-> id]}]
         ELSE senders[e]]
  /\ aborted' \in IF \E e \in Events : RangesLive(e) THEN BOOLEAN ELSE {FALSE}
  /\ UNCHANGED <<ended, got, audience>>

\* Put calls Send, which starts a goroutine
Send(e) ==
  /\ senders[e].pc = "unsent"
  /\ senders' = [senders EXCEPT ![e].pc = "spawned"]
  /\ audience' = [audience EXCEPT ![e] = Present]
  /\ UNCHANGED <<table, watch, ended, aborted, got>>

\* Mutant: the event goes to one watcher only.
BeginRangeOne(e) ==
  /\ senders[e].pc = "spawned"
  /\ \E some \in SUBSET Entries :
       /\ Cardinality(some) = IF Entries = {} THEN 0 ELSE 1
       /\ senders' = [senders EXCEPT ![e] = [pc |-> "ranging", live |-> TRUE, todo |-> some]]
  /\ UNCHANGED <<table, watch, ended, aborted, got, audience>>

\* the goroutine begins to range over the map that ws.watchers is by now
BeginRange(e) ==
  /\ senders[e].pc = "spawned"
  /\ senders' = [senders EXCEPT ![e] = [pc |-> "ranging", live |-> TRUE, todo |-> Entries]]
  /\ UNCHANGED <<table, watch, ended, aborted, got, audience>>

\* watcher.ch <- event is received by the loop of the watch
Deliver(e, entry) ==
  /\ senders[e].pc = "ranging" /\ entry \in senders[e].todo
  /\ watch[entry.id] # "closed"
  /\ senders' = [senders EXCEPT ![e].todo = @ \ {entry}]
  /\ got' = [got EXCEPT ![e][entry.id] = @ + 1]
  /\ UNCHANGED <<table, watch, ended, aborted, audience>>

\* watcher.ch <- event finds the channel closed: the process panics
SendPanics(e, entry) ==
  /\ senders[e].pc = "ranging" /\ entry \in senders[e].todo
  /\ watch[entry.id] = "closed"
  /\ aborted' = TRUE
  /\ UNCHANGED <<table, watch, senders, ended, got, audience>>

EndRange(e) ==
  /\ senders[e].pc = "ranging" /\ senders[e].todo = {}
  /\ senders' = [senders EXCEPT ![e].pc = "done"]
  /\ UNCHANGED <<table, watch, ended, aborted, got, audience>>

-----------------------------------------------------------------------------
\* watchE2Connections has returned and its context is canceled
ContextEnds ==
  /\ ~ended /\ ended' = TRUE
  /\ UNCHANGED <<table, watch, senders, aborted, got, audience>>

Detached == [e \in Events |-> [senders[e] EXCEPT !.live = FALSE]]

\* Mutant: the old entries are kept beside the new one.
RemoveWatcherKeeping(id) ==
  LET others == {k \in Watches : table[k] \notin {None, id}} IN
  /\ ended /\ id \in Scoped /\ watch[id] = "registered"
  /\ watch' = [watch EXCEPT ![id] = "removed"]
  /\ table' = [k \in Watches |->
       IF k \in others THEN table[k]
       ELSE IF k = id /\ others # {} THEN table[CHOOSE o \in others : TRUE]
       ELSE None]
  /\ senders' = Detached
  /\ UNCHANGED <<ended, aborted, got, audience>>

(***************************************************************************)
(* RemoveWatcher makes a new map and stores every other watcher in it      *)
(* under the key that is removed: the one visited last survives.           *)
(***************************************************************************)
RemoveWatcher(id) ==
  LET others == {table[k] : k \in Watches} \ {None, id} IN
  /\ ended /\ id \in Scoped /\ watch[id] = "registered"
  /\ watch' = [watch EXCEPT ![id] = "removed"]
  /\ \E last \in IF others = {} THEN {None} ELSE others :
       table' = [k \in Watches |-> IF k = id THEN last ELSE None]
  /\ senders' = Detached
  /\ UNCHANGED <<ended, aborted, got, audience>>

\* Mutant: the channel is closed without removing the watcher first.
CloseChannelFirst(id) ==
  /\ ended /\ id \in Scoped /\ watch[id] \in {"registered", "removed"}
  /\ watch' = [watch EXCEPT ![id] = "closed"]
  /\ UNCHANGED <<table, senders, ended, aborted, got, audience>>

\* close(ch), which also ends the loop that receives from it
CloseChannel(id) ==
  /\ watch[id] = "removed"
  /\ watch' = [watch EXCEPT ![id] = "closed"]
  /\ UNCHANGED <<table, senders, ended, aborted, got, audience>>

-----------------------------------------------------------------------------
SenderNext(e) ==
  /\ ~aborted
  /\ \/ BeginRange(e) \/ EndRange(e)
     \/ \E entry \in senders[e].todo : Deliver(e, entry) \/ SendPanics(e, entry)

RegistryNext(id) ==
  ~aborted /\ (Watch(id) \/ RemoveWatcher(id) \/ CloseChannel(id))

\* The process has stopped, or everybody waits for an event or a new watch
WatchersIdle ==
  /\ aborted \/ \A e \in Events : senders[e].pc \in {"unsent", "done"}
  /\ UNCHANGED watchersVars

WatchersNext ==
  \/ \E e \in Events : SenderNext(e) \/ (~aborted /\ Send(e))
  \/ \E id \in Watches : RegistryNext(id)
  \/ ~aborted /\ ContextEnds
  \/ WatchersIdle

WatchersSpec == WatchersInit /\ [][WatchersNext]_watchersVars

\* Senders run, and the loops of the watches come back for their next event
WatchersFairSpec == WatchersSpec /\ \A e \in Events : WF_watchersVars(SenderNext(e))

-----------------------------------------------------------------------------
(***************************************************************************)
(* A sender can only run into a closed channel when it had begun to range  *)
(* before the watch was removed: no event put after the end of a watch     *)
(* stops the process.                                                      *)
(***************************************************************************)
PanicOnlyInFlight ==
  \A id \in Watches : watch[id] \in {"removed", "closed"} =>
    /\ \A entry \in Entries : entry.id # id
    /\ \A e \in Events : RangesLive(e) => \A entry \in senders[e].todo : entry.id # id

(***************************************************************************)
(* No watch gets an event twice: the map never holds a watcher twice, not  *)
(* even after RemoveWatcher has moved one to another key.                  *)
(***************************************************************************)
AtMostOnce == \A e \in Events, id \in Watches : got[e][id] <= 1

(***************************************************************************)
(* As long as the manager's context lasts, an event reaches everyone who   *)
(* was watching when it was put.                                           *)
(***************************************************************************)
EventReachesWatchers ==
  \A e \in Events, id \in Watches :
    (id \in audience[e]) ~> (got[e][id] > 0 \/ ended \/ aborted)

-----------------------------------------------------------------------------
(***************************************************************************)
(* Send: "sends an event for all registered watchers", and RemoveWatcher:  *)
(* "removes a watcher", not others.                                        *)
(***************************************************************************)
SentToAllRegistered ==
  \A e \in Events : senders[e].pc = "done" =>
    \A id \in audience[e] \cap Present : got[e][id] > 0
=============================================================================
