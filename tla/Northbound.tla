----------------------------- MODULE Northbound -----------------------------
(***************************************************************************)
(* The northbound service (pkg/northbound) beside the handover loop.       *)
(* GetUes and GetCells call Entries of the metric store, which hands every *)
(* entry to a goroutine of the request over an unbuffered channel while it *)
(* holds the store's mutex.  As long as it does, the calls of Get,         *)
(* HasEntry and Put in the monitors, the controller and the southbound     *)
(* watchers wait; their writes to the State field of a value do not.       *)
(***************************************************************************)
EXTENDS MHO

CONSTANTS
  UeReqs,     \* clients that call GetUes
  CellReqs,   \* clients that call GetCells
  NgapIDs,    \* AMF UE NGAP IDs
  NgapOf      \* the AMF UE NGAP ID in the key of a UE

Reqs == UeReqs \cup CellReqs

ASSUME NorthboundAssumption ==
  /\ None \notin Reqs
  /\ UeReqs \cap CellReqs = {}
  /\ NgapOf \in [UEs -> NgapIDs]

VARIABLES
  mu,     \* who holds the store's mutex in Entries
  nb      \* the requests

northVars == <<vars, mu, nb>>

(***************************************************************************)
(* pc "called": waiting for the mutex; "range": in Entries; "wait": Entries*)
(* has returned, wg.Wait.  left are the keys Entries has yet to visit, cur *)
(* the value that the request's goroutine has received and not yet read,   *)
(* out the answer so far.  snap is history: the store at the Lock.         *)
(***************************************************************************)
Row == [ue : NgapIDs, state : MHOState, cgi : Cells]
NbPC == {"off", "called", "range", "wait", "answered"}

NorthboundTypeOK ==
  /\ mu \in Reqs \cup {None}
  /\ nb = [r \in Reqs |-> nb[r]]
  /\ \A r \in Reqs :
       /\ nb[r] \in [pc : NbPC, left : SUBSET UEs, cur : Calls \cup {None},
                     out : {nb[r].out}, snap : [UEs -> Calls \cup {None}]]
       /\ IsABag(nb[r].out)
       /\ BagToSet(nb[r].out) \subseteq IF r \in UeReqs THEN Row ELSE Cells

NbAt(pc) == [pc |-> pc, left |-> {}, cur |-> None, out |-> EmptyBag,
             snap |-> [u \in UEs |-> None]]

NorthboundInit == mu = None /\ nb = [r \in Reqs |-> NbAt("off")]

-----------------------------------------------------------------------------
\* GetUes or GetCells starts its goroutine and calls Entries
CallEntries(r) ==
  /\ nb[r].pc \in {"off", "answered"}
  /\ nb' = [nb EXCEPT ![r] = NbAt("called")]
  /\ UNCHANGED mu

\* Mutant: the mutex is given back before the entries are sent.
LockBriefly(r) ==
  /\ nb[r].pc = "called" /\ mu = None
  /\ nb' = [nb EXCEPT ![r] = [NbAt("range") EXCEPT
              !.left = {u \in UEs : HasEntry(u)}, !.snap = records]]
  /\ UNCHANGED mu

\* Entries has the mutex and begins to range over the records
LockEntries(r) ==
  /\ nb[r].pc = "called" /\ mu = None
  /\ mu' = r
  /\ nb' = [nb EXCEPT ![r] = [NbAt("range") EXCEPT
              !.left = {u \in UEs : HasEntry(u)}, !.snap = records]]

\* Mutant: the key is sent in place of the value.
SendEntryKey(r) ==
  /\ nb[r].pc = "range" /\ nb[r].cur = None
  /\ \E u \in nb[r].left : nb' = [nb EXCEPT ![r].left = @ \ {u}, ![r].cur = u]
  /\ UNCHANGED mu

\* ch <- entry, received by the request's goroutine
SendEntry(r) ==
  /\ nb[r].pc = "range" /\ nb[r].cur = None
  /\ \E u \in nb[r].left :
       nb' = [nb EXCEPT ![r].left = @ \ {u}, ![r].cur = Get(u)]
  /\ UNCHANGED mu

\* What the goroutine takes from a value: GetUes a row, GetCells the cell
RowOf(r, v) ==
  IF r \in UeReqs THEN [ue |-> NgapOf[v.ue], state |-> v.state, cgi |-> v.tgt]
  ELSE v.tgt

(***************************************************************************)
(* The goroutine reads the value, without the mutex: for the last entry    *)
(* this may be after Entries has returned.  Every value in the store is of *)
(* a gNB UE, so none is skipped.                                           *)
(***************************************************************************)
ReadRow(r) ==
  /\ nb[r].cur # None
  /\ nb' = [nb EXCEPT ![r].out = BX!BagAdd(@, RowOf(r, heap[nb[r].cur])),
                      ![r].cur = None]
  /\ UNCHANGED mu

\* Mutant: the range starts over, with the mutex held, for entries that came in.
UnlockFollowing(r) ==
  /\ nb[r].pc = "range" /\ nb[r].left = {}
  /\ nb' = [nb EXCEPT ![r].left = {u \in UEs : HasEntry(u)}, ![r].out = EmptyBag]
  /\ UNCHANGED mu

\* close(ch), and Entries returns
UnlockEntries(r) ==
  /\ nb[r].pc = "range" /\ nb[r].left = {}
  /\ mu' = None
  /\ nb' = [nb EXCEPT ![r].pc = "wait"]

\* Mutant: the channel is not closed, the goroutine ranges over it for ever.
AnswerUnclosed(r) ==
  /\ nb[r].pc = "wait" /\ nb[r].cur = None /\ nb[r].out = EmptyBag
  /\ nb' = [nb EXCEPT ![r].pc = "answered"]
  /\ UNCHANGED mu

\* wg.Wait returns and the answer is sent
Answer(r) ==
  /\ nb[r].pc = "wait" /\ nb[r].cur = None
  /\ nb' = [nb EXCEPT ![r].pc = "answered"]
  /\ UNCHANGED mu

Serve(r) == LockEntries(r) \/ SendEntry(r) \/ ReadRow(r) \/ UnlockEntries(r) \/ Answer(r)

-----------------------------------------------------------------------------
(***************************************************************************)
(* The steps of the loop that call the store under its mutex, and the      *)
(* others.  A crash ends the requests with the process.                    *)
(***************************************************************************)
MonitorStoreNext(c) ==
  /\ RecvIndication(c) \/ ApplyIndication(c)
  /\ UNCHANGED <<ctl, southboundVars, crashes>>

ControllerStoreNext ==
  /\ PutApproved \/ \E s \in BagToSet(sends) : ReceiveEvent(s)
  /\ UNCHANGED <<monitorVars, southboundVars, crashes>>

WatcherStoreNext(c) ==
  /\ PutDone(c) \/ \E s \in BagToSet(sends) : ReceiveChange(c, s)
  /\ UNCHANGED <<ctl, crashes>>

MonitorFreeNext(c) ==
  /\ RejectIndication(c)
  /\ UNCHANGED <<ctl, southboundVars, crashes>>

ControllerFreeNext ==
  /\ WatchStore \/ Approve
  /\ UNCHANGED <<monitorVars, southboundVars, crashes>>

WatcherFreeNext(c) ==
  /\ WatchMHOChanges(c) \/ SendControl(c) \/ MarkDone(c)
  /\ UNCHANGED <<ctl, crashes>>

ConnectionNext(c) ==
  /\ Connect(c) \/ CreateSubscription(c) \/ FailSubscription(c)
  /\ UNCHANGED <<ctl, crashes>>

Locked(action) == mu = None /\ action /\ UNCHANGED <<mu, nb>>
Unlocked(action) == action /\ UNCHANGED <<mu, nb>>

NorthCrash == Crash /\ mu' = None /\ nb' = [r \in Reqs |-> NbAt("off")]

NorthNext ==
  \/ \E r \in Reqs : (CallEntries(r) \/ Serve(r)) /\ UNCHANGED vars
  \/ \E c \in Conns :
       \/ Locked(MonitorStoreNext(c)) \/ Locked(WatcherStoreNext(c))
       \/ Unlocked(MonitorFreeNext(c)) \/ Unlocked(WatcherFreeNext(c))
       \/ Unlocked(ConnectionNext(c))
  \/ Locked(ControllerStoreNext) \/ Unlocked(ControllerFreeNext)
  \/ NorthCrash \/ Unlocked(Idle)

NorthSpec == Init /\ NorthboundInit /\ [][NorthNext]_northVars

\* As in MHO, startup is over
NorthStarted == Started /\ NorthboundInit
NorthStartedSpec == NorthStarted /\ [][NorthNext]_northVars

(***************************************************************************)
(* As in MHO, and whoever waits for the mutex gets it in the end: a        *)
(* sync.RWMutex serves its waiters in turn, however often clients call.    *)
(***************************************************************************)
NorthFairness ==
  /\ SF_northVars(Locked(ControllerStoreNext))
  /\ WF_northVars(Unlocked(ControllerFreeNext))
  /\ \A c \in Conns :
       /\ SF_northVars(Locked(WatcherStoreNext(c)))
       /\ WF_northVars(Unlocked(WatcherFreeNext(c)))
       /\ SF_northVars(Locked(ApplyNext(c)))
  /\ \A r \in Reqs :
       /\ SF_northVars(LockEntries(r) /\ UNCHANGED vars)
       /\ WF_northVars(Serve(r) /\ UNCHANGED vars)

NorthFairSpec == NorthStartedSpec /\ NorthFairness

-----------------------------------------------------------------------------
\* The target cell in a row of an answer.
CellIn(r, row) == IF r \in UeReqs THEN row.cgi ELSE row

(***************************************************************************)
(* An answer is a picture of the store at one moment of the call: every UE *)
(* the store had when Entries got the mutex is counted once, under the     *)
(* target cell it had then, although the values are read while indications *)
(* replace them.                                                           *)
(***************************************************************************)
AnswersAreSnapshots ==
  \A r \in Reqs, t \in Cells : nb[r].pc = "answered" =>
    LET rows == {x \in Copies(nb[r].out) : CellIn(r, x[1]) = t}
        inCell == {u \in UEs : nb[r].snap[u] # None /\ heap[nb[r].snap[u]].tgt = t}
    IN  Cardinality(rows) = Cardinality(inCell)

(***************************************************************************)
(* A client that reads Done for a UE can rely on it: the control message   *)
(* to that target cell was attempted, although the State field is read     *)
(* without a lock and the value may have been replaced.                    *)
(***************************************************************************)
ReportedDoneAttempted ==
  \A r \in UeReqs : \A row \in BagToSet(nb[r].out) : row.state = "Done" =>
    \E m \in BagToSet(controls) : NgapOf[m.ue] = row.ue /\ m.tgt = row.cgi

(***************************************************************************)
(* Entries blocks on its channel while it holds the mutex that the whole   *)
(* loop needs, yet every request is answered ...                           *)
(***************************************************************************)
EveryCallAnswered ==
  \A r \in Reqs : nb[r].pc = "called" ~> nb[r].pc \in {"answered", "off"}

(***************************************************************************)
(* ... and however often clients call, the handover requests are settled.  *)
(***************************************************************************)
SettledUnderLoad == RequestsSettle
=============================================================================
