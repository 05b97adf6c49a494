--------------------------- MODULE WatchersProofs ---------------------------
(***************************************************************************)
(* Proofs about the watcher registry for any number of watches and events. *)
(***************************************************************************)
EXTENDS Watchers, TLAPS

\* The map holds registered watchers, each once, and no key of a watch to come.
TableInv ==
  \A k \in Watches : table[k] # None =>
    /\ watch[k] # "off" /\ watch[table[k]] = "registered"
    /\ \A j \in Watches : table[j] = table[k] => j = k

\* A sender visits a watcher once, and only one that has been registered.
TodoInv ==
  \A e \in Events : \A x \in senders[e].todo :
    /\ watch[x.id] # "off" /\ got[e][x.id] = 0
    /\ RangesLive(e) => watch[x.id] = "registered"
    /\ \A y \in senders[e].todo : y.id = x.id => y = x

\* Nobody has an event before it is sent, or before they watch.
GotInv ==
  \A e \in Events, id \in Watches :
    /\ got[e][id] <= 1
    /\ senders[e].pc \in {"unsent", "spawned"} \/ watch[id] = "off" => got[e][id] = 0

WInv == WatchersTypeOK /\ TableInv /\ TodoInv /\ GotInv

\* The entries that a range visits.
LEMMA EntriesFacts ==
  ASSUME WatchersTypeOK
  PROVE  /\ Entries \subseteq Entry
         /\ \A x \in Entries : table[x.key] = x.id /\ x.id # None
         /\ \A k \in Watches : table[k] # None => [key |-> k, id |-> table[k]] \in Entries
  BY DEF Entries, Entry, WatchersTypeOK

\* Nobody watches yet.
LEMMA WatchersInitInv == WatchersInit => WInv
<1> SUFFICES ASSUME WatchersInit PROVE WInv
  OBVIOUS
<1>1. WatchersTypeOK
  BY DEF WatchersInit, WatchersTypeOK, WatchPC, Sender
<1>2. TableInv /\ TodoInv /\ GotInv
  BY DEF WatchersInit, TableInv, TodoInv, GotInv
<1> QED
  BY <1>1, <1>2 DEF WInv

\* A new watcher goes under its own, fresh key.
LEMMA WatchInv ==
  ASSUME WInv, NEW id \in Watches, Watch(id)
  PROVE  WInv'
<1> USE DEF WInv
<1> DEFINE new == [key |-> id, id |-> id]
<1>1. /\ watch[id] = "off"
      /\ watch' = [watch EXCEPT ![id] = "registered"]
      /\ table' = [table EXCEPT ![id] = id]
      /\ aborted' \in BOOLEAN
      /\ UNCHANGED <<ended, got, audience>>
  BY DEF Watch
<1>2. PICK seeing \in SUBSET {e \in Events : RangesLive(e)} :
        senders' = [e \in Events |->
          IF e \in seeing
          THEN [senders[e] EXCEPT !.todo = @ \cup {[key |-> id, id |-> id]}]
          ELSE senders[e]]
  BY DEF Watch
<1>3. \A e \in Events : /\ senders[e] \in Sender /\ senders'[e] \in Sender
                        /\ senders'[e].pc = senders[e].pc
                        /\ senders'[e].live = senders[e].live
                        /\ \A x \in senders'[e].todo : x \in senders[e].todo \/ x = new
  <2> SUFFICES ASSUME NEW e \in Events
               PROVE  /\ senders[e] \in Sender /\ senders'[e] \in Sender
                      /\ senders'[e].pc = senders[e].pc
                      /\ senders'[e].live = senders[e].live
                      /\ \A x \in senders'[e].todo : x \in senders[e].todo \/ x = new
    OBVIOUS
  <2>1. senders[e] \in Sender
    BY DEF WatchersTypeOK
  <2>2. new \in Entry
    BY DEF Entry
  <2>3. senders'[e] = senders[e]
        \/ senders'[e] = [senders[e] EXCEPT !.todo = @ \cup {new}]
    BY <1>2
  <2> QED
    BY <2>1, <2>2, <2>3 DEF Sender
<1>4. WatchersTypeOK'
  <2>1. senders' \in [Events -> Sender]
    BY <1>2, <1>3
  <2> QED
    BY <1>1, <2>1 DEF WatchersTypeOK, WatchPC
<1>5. /\ table'[id] = id /\ \A k \in Watches \ {id} : table'[k] = table[k]
      /\ watch'[id] = "registered" /\ \A k \in Watches \ {id} : watch'[k] = watch[k]
  BY <1>1 DEF WatchersTypeOK
<1>6. \A k \in Watches : table[k] # id
  BY <1>1, WatchersAssumption DEF TableInv
<1>7. TableInv'
  BY <1>5, <1>6 DEF TableInv, WatchersTypeOK
<1>8. TodoInv'
  <2> SUFFICES ASSUME NEW e \in Events, NEW x \in senders'[e].todo
               PROVE  /\ watch'[x.id] # "off" /\ got'[e][x.id] = 0
                      /\ RangesLive(e)' => watch'[x.id] = "registered"
                      /\ \A y \in senders'[e].todo : y.id = x.id => y = x
    BY DEF TodoInv
  <2>1. \A y \in senders[e].todo : y.id \in Watches /\ y.id # id
    BY <1>1, <1>3 DEF TodoInv, Sender, Entry
  <2>2. got[e][id] = 0
    BY <1>1 DEF GotInv
  <2> QED
    BY <1>1, <1>3, <1>5, <2>1, <2>2 DEF TodoInv, RangesLive
<1>9. GotInv'
  BY <1>1, <1>3, <1>5 DEF GotInv
<1> QED
  BY <1>4, <1>7, <1>8, <1>9

\* Put starts a sender, and the sender reads the map.
LEMMA SendInv ==
  ASSUME WInv, NEW e \in Events, Send(e) \/ BeginRange(e)
  PROVE  WInv'
<1> USE DEF WInv
<1>1. UNCHANGED <<table, watch, ended, aborted, got>>
  BY DEF Send, BeginRange
<1>2. senders[e] \in Sender /\ senders[e].pc \in {"unsent", "spawned"}
  BY DEF WatchersTypeOK, Send, BeginRange
<1>3. PICK q \in Sender :
        /\ senders' = [senders EXCEPT ![e] = q]
        /\ \/ q.todo = senders[e].todo /\ q.pc = "spawned"
           \/ q.todo = Entries /\ q.pc = "ranging"
  <2>1. CASE Send(e)
    <3>1. [senders[e] EXCEPT !.pc = "spawned"] \in Sender
      BY <1>2 DEF Sender
    <3> QED
      BY <1>2, <2>1, <3>1 DEF Send, Sender
  <2>2. CASE BeginRange(e)
    <3>1. [pc |-> "ranging", live |-> TRUE, todo |-> Entries] \in Sender
      BY EntriesFacts DEF Sender
    <3> QED
      BY <2>2, <3>1 DEF BeginRange
  <2> QED
    BY <2>1, <2>2
<1>4. senders'[e] = q /\ \A d \in Events \ {e} : senders'[d] = senders[d]
  BY <1>3 DEF WatchersTypeOK
<1>5. WatchersTypeOK'
  <2>1. audience' \in [Events -> SUBSET Watches]
    BY DEF Send, BeginRange, Present, WatchersTypeOK
  <2> QED
    BY <1>1, <1>3, <2>1 DEF WatchersTypeOK
<1>6. TableInv' /\ GotInv'
  BY <1>1, <1>2, <1>4 DEF TableInv, GotInv
<1>7. TodoInv'
  <2>1. \A id \in Watches : got[e][id] = 0
    BY <1>2 DEF GotInv
  <2>2. \A x \in Entries : /\ x \in Entry /\ watch[x.id] = "registered"
                           /\ \A y \in Entries : y.id = x.id => y = x
    BY EntriesFacts DEF TableInv, Entry
  <2>3. \A x \in q.todo :
          /\ watch[x.id] # "off" /\ got[e][x.id] = 0
          /\ q.pc = "ranging" => watch[x.id] = "registered"
          /\ \A y \in q.todo : y.id = x.id => y = x
    BY <1>3, <2>1, <2>2 DEF TodoInv, Entry
  <2> QED
    BY <1>1, <1>4, <2>3 DEF TodoInv, RangesLive
<1> QED
  BY <1>5, <1>6, <1>7

\* A delivery uses up its entry.
LEMMA DeliverInv ==
  ASSUME WInv, NEW e \in Events, NEW x \in senders[e].todo, Deliver(e, x)
  PROVE  WInv'
<1> USE DEF WInv
<1>1. UNCHANGED <<table, watch, ended, aborted, audience>>
  BY DEF Deliver
<1>2. senders[e] \in Sender /\ x \in Entry /\ x.id \in Watches
  BY DEF WatchersTypeOK, Sender, Entry
<1>3. /\ senders'[e].pc = senders[e].pc /\ senders'[e].live = senders[e].live
      /\ senders'[e].todo = senders[e].todo \ {x}
      /\ \A d \in Events \ {e} : senders'[d] = senders[d]
      /\ senders' \in [Events -> Sender]
  BY <1>2 DEF Deliver, WatchersTypeOK, Sender
<1>4. /\ got' \in [Events -> [Watches -> Nat]]
      /\ got'[e][x.id] = got[e][x.id] + 1
      /\ \A d \in Events, id \in Watches : d # e \/ id # x.id => got'[d][id] = got[d][id]
  BY <1>2 DEF Deliver, WatchersTypeOK
<1>5. got[e][x.id] = 0 /\ watch[x.id] # "off" /\ senders[e].pc = "ranging"
  BY DEF TodoInv, Deliver
<1>6. WatchersTypeOK' /\ TableInv'
  BY <1>1, <1>3, <1>4 DEF WatchersTypeOK, TableInv
<1>7. GotInv'
  BY <1>1, <1>2, <1>3, <1>4, <1>5 DEF GotInv
<1>8. TodoInv'
  <2> SUFFICES ASSUME NEW d \in Events, NEW y \in senders'[d].todo
               PROVE  /\ watch'[y.id] # "off" /\ got'[d][y.id] = 0
                      /\ RangesLive(d)' => watch'[y.id] = "registered"
                      /\ \A z \in senders'[d].todo : z.id = y.id => z = y
    BY DEF TodoInv
  <2>1. y \in senders[d].todo /\ y.id \in Watches
    BY <1>3 DEF WatchersTypeOK, Sender, Entry
  <2>2. d # e \/ y.id # x.id
    BY <1>3, <2>1 DEF TodoInv
  <2> QED
    BY <1>1, <1>3, <1>4, <2>1, <2>2 DEF TodoInv, RangesLive
<1> QED
  BY <1>6, <1>7, <1>8

\* The end of a range, a panic and the end of the context touch no entry.
LEMMA QuietInv ==
  ASSUME WInv, UNCHANGED <<table, watch, got, audience>>,
         ended' \in BOOLEAN, aborted' \in BOOLEAN,
         \/ senders' = senders
         \/ \E e \in Events : senders[e].pc = "ranging"
                              /\ senders' = [senders EXCEPT ![e].pc = "done"]
  PROVE  WInv'
<1> USE DEF WInv
<1>1. \A d \in Events :
        /\ senders[d] \in Sender /\ senders'[d] \in Sender
        /\ senders'[d].todo = senders[d].todo /\ senders'[d].live = senders[d].live
        /\ senders'[d].pc = senders[d].pc
           \/ (senders[d].pc = "ranging" /\ senders'[d].pc = "done")
  BY DEF WatchersTypeOK, Sender
<1>2. WatchersTypeOK'
  <2>1. senders' \in [Events -> Sender]
    BY <1>1 DEF WatchersTypeOK
  <2> QED
    BY <2>1 DEF WatchersTypeOK
<1>3. TableInv' /\ GotInv'
  BY <1>1 DEF TableInv, GotInv
<1>4. TodoInv'
  BY <1>1 DEF TodoInv, RangesLive
<1> QED
  BY <1>2, <1>3, <1>4

\* RemoveWatcher leaves one of the others, under the removed key.
LEMMA RemoveInv ==
  ASSUME WInv, NEW id \in Watches, RemoveWatcher(id)
  PROVE  WInv'
<1> USE DEF WInv
<1>1. /\ watch[id] = "registered" /\ watch' = [watch EXCEPT ![id] = "removed"]
      /\ senders' = Detached /\ UNCHANGED <<ended, aborted, got, audience>>
  BY DEF RemoveWatcher
<1>2. PICK last \in Watches \cup {None} :
        /\ table' = [k \in Watches |-> IF k = id THEN last ELSE None]
        /\ last # None => last # id /\ watch[last] = "registered"
  <2> DEFINE others == {table[k] : k \in Watches} \ {None, id}
  <2>1. PICK last \in IF others = {} THEN {None} ELSE others :
          table' = [k \in Watches |-> IF k = id THEN last ELSE None]
    BY DEF RemoveWatcher
  <2>2. \A o \in others : o \in Watches /\ o # id /\ watch[o] = "registered"
    BY DEF TableInv, WatchersTypeOK
  <2>3. last = None \/ last \in others
    BY <2>1
  <2> HIDE DEF others
  <2> QED
    BY <2>1, <2>2, <2>3
<1>3. /\ watch'[id] = "removed" /\ \A k \in Watches \ {id} : watch'[k] = watch[k]
      /\ watch' \in [Watches -> WatchPC]
  BY <1>1 DEF WatchersTypeOK, WatchPC
<1>4. \A e \in Events : /\ senders[e] \in Sender /\ senders'[e] \in Sender
                        /\ senders'[e].pc = senders[e].pc /\ senders'[e].live = FALSE
                        /\ senders'[e].todo = senders[e].todo
  BY <1>1 DEF Detached, WatchersTypeOK, Sender
<1>5. WatchersTypeOK'
  <2>1. senders' \in [Events -> Sender]
    BY <1>1, <1>4 DEF Detached
  <2>2. table' \in [Watches -> Watches \cup {None}]
    BY <1>2
  <2> QED
    BY <1>1, <1>3, <2>1, <2>2 DEF WatchersTypeOK
<1>6. TableInv'
  BY <1>2, <1>3 DEF TableInv
<1>7. TodoInv'
  <2>1. \A e \in Events : \A x \in senders[e].todo : x.id \in Watches
    BY DEF WatchersTypeOK, Sender, Entry
  <2> QED
    BY <1>1, <1>3, <1>4, <2>1 DEF TodoInv, RangesLive
<1>8. GotInv'
  BY <1>1, <1>3, <1>4 DEF GotInv
<1> QED
  BY <1>5, <1>6, <1>7, <1>8

\* The channel that is closed is in no map and no live range.
LEMMA CloseInv ==
  ASSUME WInv, NEW id \in Watches, CloseChannel(id)
  PROVE  WInv'
<1> USE DEF WInv
<1>1. /\ watch[id] = "removed" /\ watch' = [watch EXCEPT ![id] = "closed"]
      /\ UNCHANGED <<table, senders, ended, aborted, got, audience>>
  BY DEF CloseChannel
<1>2. /\ watch'[id] = "closed" /\ \A k \in Watches \ {id} : watch'[k] = watch[k]
      /\ watch' \in [Watches -> WatchPC]
  BY <1>1 DEF WatchersTypeOK, WatchPC
<1>3. WatchersTypeOK' /\ GotInv'
  BY <1>1, <1>2 DEF WatchersTypeOK, GotInv
<1>4. TableInv'
  BY <1>1, <1>2 DEF TableInv, WatchersTypeOK
<1>5. TodoInv'
  <2>1. \A e \in Events : \A x \in senders[e].todo : x.id \in Watches
    BY DEF WatchersTypeOK, Sender, Entry
  <2> QED
    BY <1>1, <1>2, <2>1 DEF TodoInv, RangesLive
<1> QED
  BY <1>3, <1>4, <1>5

\* Every step of the registry keeps the invariant.
LEMMA WatchersNextInv == WInv /\ [WatchersNext]_watchersVars => WInv'
<1> SUFFICES ASSUME WInv, [WatchersNext]_watchersVars PROVE WInv'
  OBVIOUS
<1>1. ASSUME NEW e \in Events, SenderNext(e) PROVE WInv'
  <2>1. CASE BeginRange(e)
    BY <2>1, SendInv
  <2>2. CASE EndRange(e)
    <3>1. ended' \in BOOLEAN /\ aborted' \in BOOLEAN
      BY <2>2 DEF EndRange, WInv, WatchersTypeOK
    <3> QED
      BY <2>2, <3>1, QuietInv DEF EndRange
  <2>3. ASSUME NEW x \in senders[e].todo, Deliver(e, x) PROVE WInv'
    BY <2>3, DeliverInv
  <2>4. ASSUME NEW x \in senders[e].todo, SendPanics(e, x) PROVE WInv'
    <3>1. ended' \in BOOLEAN /\ aborted' \in BOOLEAN
      BY <2>4 DEF SendPanics, WInv, WatchersTypeOK
    <3> QED
      BY <2>4, <3>1, QuietInv DEF SendPanics
  <2> QED
    BY <1>1, <2>1, <2>2, <2>3, <2>4 DEF SenderNext
<1>2. ASSUME NEW id \in Watches, RegistryNext(id) PROVE WInv'
  BY <1>2, WatchInv, RemoveInv, CloseInv DEF RegistryNext
<1>3. CASE ContextEnds
  <2>1. ended' \in BOOLEAN /\ aborted' \in BOOLEAN
    BY <1>3 DEF ContextEnds, WInv, WatchersTypeOK
  <2> QED
    BY <1>3, <2>1, QuietInv DEF ContextEnds
<1>4. CASE UNCHANGED watchersVars
  <2>1. ended' \in BOOLEAN /\ aborted' \in BOOLEAN
    BY <1>4 DEF watchersVars, WInv, WatchersTypeOK
  <2> QED
    BY <1>4, <2>1, QuietInv DEF watchersVars
<1> QED
  BY <1>1, <1>2, <1>3, <1>4, SendInv DEF WatchersNext, WatchersIdle

(***************************************************************************)
(* Only a sender that had begun before RemoveWatcher can meet the closed   *)
(* channel of that watch.                                                  *)
(***************************************************************************)
THEOREM PanicsAreInFlight == WatchersSpec => []PanicOnlyInFlight
<1>1. WInv => PanicOnlyInFlight
  <2> SUFFICES ASSUME WInv PROVE PanicOnlyInFlight
    OBVIOUS
  <2>1. \A x \in Entries : watch[x.id] = "registered"
    BY EntriesFacts DEF WInv, TableInv, Entry
  <2> QED
    BY <2>1 DEF WInv, TodoInv, PanicOnlyInFlight
<1> QED
  BY <1>1, WatchersInitInv, WatchersNextInv, PTL DEF WatchersSpec

(***************************************************************************)
(* Send hands an event to a watch at most once, also after RemoveWatcher   *)
(* has moved the watch to another key and while others register.           *)
(***************************************************************************)
THEOREM DeliveredAtMostOnce == WatchersSpec => []AtMostOnce
<1>1. WInv => AtMostOnce
  BY DEF WInv, GotInv, AtMostOnce
<1> QED
  BY <1>1, WatchersInitInv, WatchersNextInv, PTL DEF WatchersSpec
=============================================================================
