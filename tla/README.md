# A TLA+ model of onos-mho

onos-mho is an xApp for the µONOS RIC.  E2 nodes report that a UE should be
handed over to another cell; the application records the request, decides on it
(today it approves everything) and sends the node a control message.  The parts
that do this run as independent goroutines that communicate only through an
in-memory store and its change events.  That loop, and the stream that feeds
it, are what this project models, checks with TLC and proves with TLAPS.

## 1. Inventory

| Part (source) | State | Operations | Talks to |
|---|---|---|---|
| Metric store (`pkg/store`) | `records`: UE key to entry, pointing to a `MetricValue`; `watchers`; one goroutine per event being sent | `Put`, `Get`, `HasEntry`, `Watch`, `Entries`, `Delete` (never called), `Watchers.Send/AddWatcher/RemoveWatcher` | everyone |
| Indication monitor (`pkg/monitoring`) | one receive loop per subscription, `errCh` | `Start`, `processInsertIndicationHeader2Message5` | stream, store |
| MHO controller (`pkg/controller`) | one event loop | `controlHandover` | store |
| E2 manager (`pkg/southbound/e2`) | two goroutines and a pump per E2 connection | `watchE2Connections`, `createSubscription`, `sendIndicationOnStream`, `watchMHOChanges` | topology, E2 nodes, broker, store |
| Buffered stream (`pkg/broker/stream.go`) | `buffer`, `closed`, `cond`, channel `ch`, goroutine `drain` | `Send`, `Recv`, `Close` | pump, monitor |
| Stream broker (`pkg/broker/broker.go`) | `subs`, `streams`, `streamID`, one mutex | `OpenReader`, `CloseStream`, `GetWriter`, `ChannelIDs`, `Close` | E2 manager, streams, E2 nodes |
| Northbound service (`pkg/northbound`) | one goroutine per call | `GetUes`, `GetCells` over `Entries` | store |
| R-NIB client (`pkg/rnib`) | none; reads the topology | `HasRcRANFunction`, `GetE2NodeAspects`, `GetCells`, `WatchE2Connections` | topology service |
| Payload helpers (`pkg/utils`) | none | UE keys, RAN parameters, PDU builders | monitor, E2 manager |
| Configuration, options, command line | none the application reads | getters, builders | |

What makes the loop hard:

* `Get` returns the pointer.  The controller and the southbound watchers write
  `nv.State` in place, without the mutex, on objects others hold as well.
* Read-modify-write is not atomic: monitor, controller and watcher each read an
  entry, work (the watcher even waits for `node.Control`), and put back what
  they had read.
* Every `Put` starts a goroutine that hands its event to all watchers over
  unbuffered channels.  Two events for one UE can arrive in either order.
* A handler tests the state carried by the *event* and acts on the value the
  *store* holds by then.
* Watchers register concurrently with the first indications; events are not
  repeated.
* A node that is announced again gets a second monitor and a second watcher.
* Nothing is persistent.

And around it:

* `OpenReader` looks up and inserts in two critical sections, and the pump
  looks the stream up again; `CloseStream` calls the node with the mutex held.
* The E2 manager's loop ends on a REMOVED event of a node without cells, and
  with it the context of everything it ever started.
* A monitor's loop reports errors on an unbuffered channel that is read once.
* `Send` ranges over a map that `AddWatcher` writes to, `RemoveWatcher`
  replaces and stores wrongly, and whose channels are closed at the end.
* `Entries` blocks on a client's channel while it holds the store's mutex.

Correctness, per part: the loop must not forget a request, must not send a
node a control message it did not ask for, must not call a request done that
nothing was sent for, and must not feed itself.  The stream must be a FIFO
queue, must not lose a wakeup, and must drain before it reports its end.  The
broker must bring a connection's monitor and pump together and must not drop a
stream whose subscription goes on.  The manager must deal with every
connection, and what it started must come to rest when it ends.  The registry
must deliver an event once to those who watch.  The northbound service must
answer with one picture of the store and must not stop the loop.  Keys and
parameters must name the UE and the cell that the indication names.
`PROJECT.json` lists the individual hazards with their lines.

## 2. Modules

| Module | Models | Notes |
|---|---|---|
| `Store` | `pkg/store` | `records`, `heap` (the `MetricValue` objects), `watchers`, `sends` (bag of running `Send` goroutines) |
| `Monitor` | `pkg/monitoring` | extends `Store`; actions `RecvIndication`, `ApplyIndication`, `RejectIndication`, `StartMonitor` |
| `Controller` | `pkg/controller` | extends `Store`; `WatchStore`, `ReceiveEvent`, `Approve`, `PutApproved` |
| `Southbound` | `pkg/southbound/e2` | extends `Monitor`; `Connect`, `CreateSubscription`, `FailSubscription`, `WatchMHOChanges`, `ReceiveChange`, `SendControl`, `MarkDone`, `PutDone` |
| `MHO` | the loop as `Manager.start` wires it | composes the four; `Crash`, fairness, properties |
| `MHOProofs` | | the inductive invariant and the theorems about `MHO` |
| `Stream` | `pkg/broker/stream.go`, `sendIndicationOnStream` | `Send`, `SendRefused`, `NextFront`, `NextWait`, `NextClosed`, `Recv`, `RecvRefused`, `RecvEOF`, `RecvCanceled`, `StartCanceled`, `Close`, `Cancel` |
| `Mailbox` | what a stream promises | abstract bounded FIFO queue |
| `StreamProofs` | | invariant, refinement of `Mailbox` |
| `Handover` | what the loop promises about one request | abstract: asked, open or dropped, done; messages |
| `Contract`, `ContractProofs` | | the loop as an implementation of `Handover`, and its proof; why there is no control storm |
| `Northbound` | `pkg/northbound`, `Entries`, the store's mutex | extends `MHO`: the loop's steps that call the store are `Locked`, the others are not |
| `NorthboundProofs` | | the loop is undisturbed; what answers mean |
| `Watchers`, `WatchersProofs` | `watcher.go`, the end of a `Watch` | the map with its keys, one sender per event, `RemoveWatcher`, `close(ch)`, runtime aborts |
| `Broker`, `BrokerProofs` | `broker.go` | `OpenLookup`, `OpenInsert`, `GetWriter`, `CloseStream`, `CloseUnsubscribed`, `CloseFailed`, `CloseBroker` |
| `Rnib` | `pkg/rnib`, `getRanFunction` | reads of the topology, which may fail |
| `Lifecycle`, `LifecycleProofs` | `watchE2Connections`, `createSubscription`, `Monitor.Start` | extends `Broker` and `Rnib`; the topology service is its environment |
| `RanParam` | target cell in indication and control message, `GetRanParameterValue` | pure; nested parameters as a function of their paths |
| `UeKey` | `pkg/utils/id` | pure; the loop over octets as a recursive function |
| `PayloadProofs` | | what the search finds, what the answer names, why keys differ |
| `MCMHO`, `MCNorthbound`, `MCStream`, `MCBroker`, `MCLifecycle`, `MCWatchers`, `MCPayload` | | instances for TLC |

How state and steps correspond to the code:

* A `MetricValue` object is named by the call process ID of the indication it
  was made from; every indication is taken to carry its own ID.  `ue` stands for
  `RawUEID` and for the store key made from it.  `records[u]` is the object the
  entry of `u` points to.
* One action is one critical section or one unlocked write.  `pc` fields name
  the program points in between: the controller is at `write` between `Get` and
  `nv.State = Approved`, and at `put` between that and `Put`; a watcher is at
  `control`, `mark` and `put` before `node.Control`, `nv.State = Done` and `Put`.
* `HasEntry` and `Get` of a monitor are one step, since entries are never
  deleted.  The rendezvous on a watcher's channel and the watcher's `Get` are one
  step, since the sender serves its watchers in no particular order anyway.
* An event that its receiver throws away is not kept in `sends`.  Both handlers
  look at the event's type and state only, and dropping an event changes nothing.
* `Send` ranges over the live map after releasing the lock: it serves all
  watchers that are registered and possibly (`late`) some that register while it
  runs.
* `node.Control` has three outcomes: acknowledged, received but reported as an
  error, failed.  A header or payload that could not be built is sent empty,
  which is a failed one.
* `audience`, `inds` and `controls` are history: who was registered at the last
  `Put` of a key, what was received, what was sent.
* The abstraction levels fit together.  `MHO` takes the registry as it is while
  the manager runs (`Watchers` has its end), a subscription as two outcomes
  (`Lifecycle` has its steps), and the stream as a source of indications
  (`Stream` and `Broker`).  `Northbound` contains `MHO` unchanged.
* `Lifecycle` keeps per connection the points of `createSubscription` (`sub`),
  of the receive loop (`monitor`) and of the `select` in `Start` (`start`).  A
  loop in `errCh <- err` whose `Start` has returned is `Stuck`.  After a failed
  `Recv` the code goes on with the zero indication, and so does the model.
* `Stream` keeps of a monitor what its receive loop does to the stream: `listening`
  is `Start` waiting on `errCh`.  It takes one error, of a refused indication or of a
  failed `Recv`, and returns; a monitor that refuses another indication is `stuck` in
  `errCh <- err` with its context alive.
* A stream is named by the connection whose `OpenReader` made it.  `closing` is
  the mutex held during `Unsubscribe`; all other operations are one step.
* In `Watchers` a sender that ranges over the current map is `live`.  A
  concurrent `AddWatcher` may be seen or not, and may make the Go runtime stop
  the process (`aborted`); so does a send on a closed channel.
* In `Northbound` the value an `Entries` call has handed over (`cur`) is read in
  a later step, for the last one after the mutex was released.
* In `RanParam` a list of nested parameters is a function from paths to parameters:
  `<<1, 2>>` is the second parameter in the structure that is the first one.  The
  search is a recursive function of the path that it has come to, one application
  per call of `GetRanParameterValue`.  The monitor reads the first parameter of four
  levels whatever its ID; a list that ends before it stops the process (`ReadPanics`),
  and a cell that cannot be encoded gives an empty payload (`BuildFails`).
* Definitions introduced by "Mutant:" are faulty variants of the definition that
  follows them.  No specification uses them; each one shows that a property
  notices the fault.

## 3. Runs

| Run | Instance | Question | Result |
|---|---|---|---|
| `startup` | fair, from `Init`; 2 nodes, 1 UE, 2 cells, 2 indications, 1 crash, refused indications on one connection, controls may fail | are requests in somebody's hands, whatever registers and fails when; do controls answer indications of their node; was what is Done attempted; is the contract `Handover` kept; is every request settled | yes, the last one except for requests announced to nobody |
| `reconnect` | fair, after startup; 1 node with two connections, 2 indications, a client that calls `GetCells` for ever | is anything forgotten, can the loop feed itself, can a client stop the loop or wait for ever | no; the controls for a UE are at most its indications times the connections |
| `north_answers` | from `Init`; 1 node, 2 UEs with the same NGAP ID, 2 indications, 1 crash, a `GetUes` and a `GetCells` client | are answers a picture of the store at one moment, and is a reported Done true | yes |
| `stream` | fair; 5 indications of which monitors refuse 4, 2 pumps, 2 monitors, buffer of 2 | is the stream a mailbox; lost wakeups; EOF before the end; is what was accepted received | it is; none; no; yes, as long as one monitor receives: they are not all canceled or stuck on a second refused indication |
| `broker` | fair; 2 nodes with two connections each, `CloseStream` and `Close` at any time, `Unsubscribe` may fail | do monitor and pump meet, are subscriptions leaked, does every open return | they do, none is, it does |
| `lifecycle` | fair; 2 nodes, each whole, without cells or misnamed, one change, reads may fail, refused indications on one connection | are connections dealt with, do monitors get their pump, of their own node, and survive an error; does everything rest after the end | yes |
| `watchers` | fair; the controller and 3 watches whose context ends, 1 event | who can run into a closed channel, is an event received twice or not at all | only senders that were under way; no; not while the context lasts |
| `payload` | 8758 requests, with the IDs of NR, E-UTRA and other parameters, or cut off; 256 UE IDs | does the answer carry what was read by position, and is that the NR CGI of the request; does the search find the first hit; do two UEs share a key | yes, and yes unless another parameter is at that place or an outer one has the ID; it does; no |

Four runs end in a counterexample on purpose.  Each states what a comment or the
README of the repository says, and shows that the code does something else:

| Run | Documented | What happens |
|---|---|---|
| `lost_decision` | a decision is followed by a control message (`README.md:16`) | approved before the node's watcher registered: never sent |
| `lost_update` | another target leads to StateCreated, when an indication brings it (`types.go:89`) | the controller's `Put` of an older, Approved value replaces a newer request (`mho.go:58`) |
| `unsubscribed` | nodes that support the service model are subscribed to (`README.md:16`) | a removed node without cells ends the manager for all |
| `lost_watchers` | `Send` serves all registered watchers (`watcher.go:35`) | `RemoveWatcher` keeps one of the remaining watchers at random |

Further divergences of the same kind, which the modules state and which can be
reproduced with the configuration named, but which are easier to see in the
code or concern operations the application does not call:

| Configuration (module) | Documented | What happens |
|---|---|---|
| `FailedControl` (`MCMHO`) | Done when the control message "is successfully sent" (`types.go:87`) | the error of `node.Control` is logged and the value is Done |
| `UndecidedControl` (`MCMHO`) | controls are sent from Approved (`types.go:82`) | an old Approved event sends the control of a newer, undecided request |
| `ReopenedDone` (`MCMHO`) | Done is left for StateCreated only (`types.go:88-89`) | a second event makes the controller approve the value again |
| `StreamClosed` (`MCStream`) | `Recv` returns EOF on a closed stream (`stream.go:28`) | `Close` does not signal, `drain` waits for ever |
| `DuplicateStream` (`MCBroker`) | `OpenReader` returns the stream that exists (`broker.go:35`) | two calls both find none and create two |
| `WrongCell` (`MCPayload`) | parameter 4 is an NR CGI, an E-UTRA CGI is parameter 6 (`def.go:14`, `def.go:18`) | a handover to an E-UTRA cell is answered with that cell as parameter 4 |
| `ChannelList` (`MCBroker`) | `ChannelIDs` returns the channel IDs (`broker.go:49`) | and as many empty ones |

**Bounds.**  Two cells give requests that differ and requests that repeat.  Two
connections give two nodes, or one node connected twice.  Two indications are
enough for a value to be read and replaced while its reader still works on it;
what more of them could do is left to the proofs, which have no bounds.
`MaxCrashes` bounds the restarts and `Calls` the indications; every queue and
history is finite because `Calls` is.  The buffer of two (`bufferMaxSize` is
10000 in the code) can be empty, partly filled and full; with four `Refused`
indications of five both monitors can get stuck while the fifth is queued.  `MaxStreams` is the
number of connections, so no open fails for want of an ID.  `MaxChanges` = 1
lets a node lose its cells or its service model between any two reads.  Three
scoped watches and the controller's let `RemoveWatcher` choose and choose again
among what it left; one event suffices, since senders share only the map.
`MaxItems` = 2 and `MaxDepth` = 4 let one parameter, or one structure with a
cell of its own, follow the target at each of the three levels where one can
mislead the search.  `Requests` are all such lists with the `Ways` to the target: an
NR cell, an E-UTRA cell, IDs the code does not name, and a structure with the ID of
the cell; and those that are `CutOff` at each level.  `PlainRequests` are the ones
without anything that follows.  Octets of one bit keep
the four fields of a UE ID at their standard widths of 3, 1, 2 and 1 octets
within reach.  `StartedSpec` and `NorthFairSpec` begin where startup is over;
`startup` and `north_answers` cover what happens before.  Symmetry of indications
and cells is used in `north_answers` only, which has no liveness property.
Deadlock is checked in all runs but `payload`, a computation that ends: `Idle` is
the step of a process that waits for its environment.

**Fairness.**  Weak fairness of the controller, of each southbound watcher and
of a monitor that holds an indication: the Go scheduler runs what can run, a
sender blocked on a channel is served in turn, and `node.Control` returns.
Nothing is assumed of the E2 nodes, the topology or the northbound clients, but
that a client's own goroutine reads what `Entries` sends, which is code of
`pkg/northbound` and does nothing else.  Where goroutines compete for a mutex
that others keep taking (`Broker`, `Northbound`) the assumption is strong
fairness: a Go mutex hands itself over to a waiter that has starved.  The stream
assumes that `drain` and monitors in `Recv` run, and that nobody has to send or
close; the broker that `Unsubscribe` returns; the registry that senders run and
watchers come back for their next event.

`NoForgottenRequest` and `RequestsSettle` except requests that are `Unheard`:
those whose event was sent when no watcher that would act on it was registered.
That exception is real, it is what `lost_decision` shows.

## 4. Proofs

All proofs are checked by TLAPS for arbitrary sets of UEs, cells, nodes,
connections, indications, pumps and monitors.  The assumptions are the named
`ASSUME`s: absent values differ from present ones, the controller's watcher is
not a southbound one, `NodeOf` maps connections to nodes, `ControlOutcomes` are
outcomes, and the bounds are naturals.  `Conns` is finite, because it is counted
(`NoControlStorm`) and the watch begins with a list of what there is
(`Lifecycle`); UEs, cells and indications may be infinite, and proofs that count
them first show that only finitely many were received.  `UeKey` assumes that
`Power` holds the powers of `Base` and that no field of a UE ID has more octets
than a word, which the standard widths and the eight octets of a `uint64` satisfy.
`RanParam` assumes of `Requests` that they are well-formed lists, with any IDs and
any depth; `MaxItems` and `MaxDepth` may be any numbers that leave room for the
answer's four levels.

**`MHOProofs`**: `Spec => []P` for `TypeOK`, `NoForgottenRequest`,
`ControlAnswersIndication` and `DoneMeansAttempted`, and the last three for
`StartedSpec`.  None but the first is inductive.  `IInv` adds:

* `RecordsInv`, `HeapInv`: an entry points to an object of its UE, an object is
  what its indication asked for, and only StateCreated, Approved and Done occur
  (so the branch of the monitor for Denied is dead);
* `SendsInv`, `MonInv`, `CtlInv`, `WatInv`: what each goroutine holds between two
  steps; a watcher holds an object of its own node and has attempted its control
  message before it writes Done;
* `RedoInv`, the heart of `NoForgottenRequest`: when a watcher is about to put
  back an object that it marked Done and that is not Done any more, then the
  controller approved it again and is about to announce it, or has announced it
  and the watcher has yet to receive that event.  Without it `PutDone` could
  restore an unfinished request that nobody works on.

There is one lemma per action, resting on `SendFacts`/`PutFacts` (a `Put` loses
no event and reaches the registered watchers that handle it) and
`ReceiveFacts`/`ReceiveKeeps` (a delivery takes an event from its receiver only).

**`StreamProofs`**: `TypeOK`, `NoLostWakeup`, `GracefulClose`, and that `Stream`
implements `Mailbox` with the queue being the indication `drain` holds followed
by the buffer.  `SInv` adds that `drain` ends only when the stream is closed and
empty.

**`ContractProofs`**: `Spec => KeepsContract`, the refinement of `Handover`.  The
mapping makes a request open or done while its object exists, asked while a
monitor holds its indication, dropped otherwise.  It rests on `IInv` (an object
is what its indication asked for; a watcher has sent before it marks) and on
`OffInv`: a connection's monitor does not run before its watcher was started, so
that `StartMonitor` takes no indication away from anyone.

The same module proves `NoControlStorm` (`NoStorm`), which counts history against
history and says nothing of the steps between.  `StormInv` supplies them: every
indication brings one *right* to send a control message per connection, and there
is a function `own` that says who holds each right.  The rights of an indication
pass from its monitor to the event of the `Put`, from there to the controller, to
the event of `PutApproved`, and then one by one to the watchers and the control
messages.  Each monitor at `apply`, event, controller at work, watcher at
`control` and message ever sent holds the rights it needs, and since `own` is a
function no right serves two messages.  A `Put` that writes back an old value
passes on the rights of the goroutine that did it, which is why the loop cannot
feed itself; Done is announced without rights, for nobody handles it.  At the end
the messages to a node about a UE have an injection into the indications of the
UE times the connections of the node.  `own` is not a variable of the model:
the invariant says that one exists (`RightsInv`), and each action's lemma gives
the next one (`Give`).

**`NorthboundProofs`**: `NorthSpec => Spec` (the mutex and the clients only delay
the loop), so that the theorems of `MHOProofs` hold beside the northbound service;
`NorthboundTypeOK`; `ReportedDoneAttempted`; and `OneStorePerRange`, which says
that the store does not change while a request is in `Entries`.  `NorthInv` adds
that a value handed to a client exists (a crash ends the request with it) and who
is in `Entries` when the mutex is held.

`Snapshots` is `AnswersAreSnapshots` for any number of UEs and clients.  Its
invariant `PictureInv` follows a request through its range: there is a bijection
between the UEs already counted and the rows written so far, copies included, that
maps each UE to a row with the target of its value.  Reading a row extends the
bijection by one pair; a step of the loop beside it changes neither side, since
`ValuesStay`: a value in the store keeps its UE and its target for good, and only
its State is written in place.  `LoopSafeUnderLoad` is `NoForgottenRequest` and
`NoControlStorm` for `NorthStartedSpec`, the specification that `reconnect` adds
fairness to.

**`BrokerProofs`**: `PumpMeetsReader` and `NoLeakedSubscription`.  `BInv` adds
`MapsInv` (the maps point to created streams, each under its own channel and ID),
`IDsInv` (no ID is given twice), `ListedInv` (a created stream is found under its
ID until it was unsubscribed) and `ClientInv`.

**`WatchersProofs`**: `PanicOnlyInFlight` and `AtMostOnce`.  `WInv` adds `TableInv`
(the map holds registered watchers, each under one key, whatever key
`RemoveWatcher` chose), `TodoInv` (a sender visits a watcher once) and `GotInv`.

**`LifecycleProofs`**: `LifecycleSpec => BrokerSpec` (`ManagerUsesBroker`), so that
`BInv` and the theorems of `BrokerProofs` hold while the manager runs;
`LifecycleTypeOK`, `FirstErrorSurvived` and `FedByOwnNode`.  `LInv` adds

* `EventsInv`: a connection is announced at most once in the queue, and only before
  it was handled, so no goroutine is started over one that runs;
* `RunInv`: how many indications a monitor has refused at each point of its loop
  and of `Start`; while `Start` waits, at most the one it is about to hear of;
* `WriterInv`: only a pump has a writer.

`FedByOwnNode` then follows from `BInv`: a pump's writer is a stream of the
channel of its own connection, and a channel belongs to one node.

**`PayloadProofs`**: `AnswersNameCell` and `SearchCorrect` for requests of any
breadth and nesting, and `KeyNamesOneUE` for fields of any width up to a word.  The
two recursive functions call for induction over data.  The library's induction
theorems take an operator as a parameter, which the provers cannot instantiate; the
module takes the least-element property of the naturals instead (`Least`, from
`WFMin`) and derives an `Induction` lemma over *sets* of numbers, which they can.

* A recursive function is a `CHOOSE`, so first of all one must exist.
  `SearchExists` builds it level by level from the deepest one up, each call reading
  the levels below only (`CallLocal`); `LoopExists` does the same octet by octet.
* `SearchFinds` says what a call returns: the value of the first hit below its path,
  or `NotFound` if there is none.  It goes by induction on the levels left.  In the
  step (`CallFinds`) the hits below a path are those at or below its items; the first
  item that has any is the one the loop stops at, and the first hit there is written
  before all others.
* The paths to the target come before whatever else a list holds.  If the target has
  the ID of an NR CGI and no outer parameter has it, the target is therefore the first
  hit (`TargetFound`).  The answer is such a list for every cell (`AnswerInPlace`), a
  request is one unless it is `Misplaced`, which is the exception that
  `AnswerNamesRequestedCell` makes and `WrongCell` shows to be real.
* `LoopResult`: after n octets the number is below `Power[n]`, so the modulus never
  takes effect.  `OneNotation`: two octet strings of one length with the same number
  are equal, since the last octet is a remainder and the rest a quotient.

With these, every invariant and every safety property of steps that a passing run
checks is a theorem.  Model-checked only are the liveness properties
(`RequestsSettle`, `SettledUnderLoad`, `EveryCallAnswered`, `Delivered`,
`OpenReturns`, `EveryMonitorFed`, `ConnectionHandled`, `EndComesToRest`,
`EventReachesWatchers`), which are out of the prover's reach.

## 5. Not modelled, and possible extensions

Not modelled for good: the configuration getters (the application never reads a
value), options, command line, logging, and the protobuf encoding.  `Delete`,
`NumWatchers` and `E2NodeIDs` are never called (`E2NodeIDs` fills its result the
way `ChannelIDs` does).  The builders of event trigger and actions take constants
and have one result.  An indication without the levels the monitor
indexes (`monitor.go:82`) stops the process: that is `ReadPanics` in `RanParam` and a
`Crash` of `MHO`, whose indications have a target.

What could be added:

1. `Broker` composed with `Stream`, so that a stream closed by the broker is the
   stream that `drain` empties.
2. `Lifecycle` with two connections of one node on one channel; TLC needs more
   than the time of a run for it with fairness, and the proofs cover it already.
