------------------------------- MODULE Broker -------------------------------
(***************************************************************************)
(* The stream broker (pkg/broker/broker.go).  Every createSubscription     *)
(* goroutine, one per E2 connection, asks it for the stream of its         *)
(* subscription channel, and a pump goroutine started next asks for the    *)
(* same stream again by its ID.                                            *)
(*                                                                         *)
(* A stream object is named by the connection whose OpenReader call        *)
(* allocated it; what happens inside a stream is the subject of Stream.    *)
(***************************************************************************)
EXTENDS Integers, FiniteSets, SequencesExt

CONSTANTS
  Conns,       \* E2 connections, one OpenReader call each
  Channels,    \* subscription channel IDs
  ChannelOf,   \* the channel ID that Subscribe returned to a connection
  MaxStreams,  \* bound on the stream IDs given out
  None         \* no stream, no channel

ASSUME BrokerAssumption ==
  /\ ChannelOf \in [Conns -> Channels]
  /\ MaxStreams \in Nat
  /\ None \notin Conns \cup Channels

StreamIDs == 1 .. MaxStreams

VARIABLES
  subs,          \* channel ID |-> stream
  streams,       \* stream ID |-> stream
  streamID,      \* the last stream ID given out
  idOf,          \* the ID a stream was created with, 0 before
  closed,        \* the streams that were closed
  unsubscribed,  \* history: streams whose subscription was ended at the node
  closing,       \* the channel CloseStream works on while it holds the mutex
  client         \* the goroutines of each connection

brokerVars == <<subs, streams, streamID, idOf, closed, unsubscribed, closing, client>>

(***************************************************************************)
(* pc "start": OpenReader not called; "insert": it found no stream and has *)
(* released the read lock; "opened": it returned reader, the pump has not  *)
(* called GetWriter; "pumping": the pump writes to writer; "refused":      *)
(* GetWriter found no stream and the pump has ended.                       *)
(***************************************************************************)
ClientPC == {"start", "insert", "opened", "pumping", "refused"}
ClientAt(pc) == [pc |-> pc, reader |-> None, writer |-> None]

BrokerTypeOK ==
  /\ subs \in [Channels -> Conns \cup {None}]
  /\ streams \in [StreamIDs -> Conns \cup {None}]
  /\ streamID \in 0 .. MaxStreams
  /\ idOf \in [Conns -> 0 .. MaxStreams]
  /\ closed \in SUBSET Conns
  /\ unsubscribed \in SUBSET Conns
  /\ closing \in Channels \cup {None}
  /\ client \in [Conns -> [pc : ClientPC, reader : Conns \cup {None},
                           writer : Conns \cup {None}]]

\* NewBroker
BrokerInit ==
  /\ subs = [ch \in Channels |-> None]
  /\ streams = [id \in StreamIDs |-> None]
  /\ streamID = 0
  /\ idOf = [c \in Conns |-> 0]
  /\ closed = {}
  /\ unsubscribed = {}
  /\ closing = None
  /\ client = [c \in Conns |-> ClientAt("start")]

\* Only CloseStream keeps the mutex for more than one step.
Unlocked == closing = None

-----------------------------------------------------------------------------
\* Mutant: streams are looked up by subscription name, which all nodes share.
OpenLookupByName(c) ==
  /\ client[c].pc = "start" /\ Unlocked
  /\ client' = [client EXCEPT ![c] =
       IF \E ch \in Channels : subs[ch] # None
       THEN [pc |-> "opened", writer |-> None,
             reader |-> CHOOSE s \in Conns : \E ch \in Channels : subs[ch] = s]
       ELSE ClientAt("insert")]
  /\ UNCHANGED <<subs, streams, streamID, idOf, closed, unsubscribed, closing>>

\* Mutant: a stream that was closed is waited for until it is gone.
OpenLookupWaits(c) ==
  LET stream == subs[ChannelOf[c]] IN
  /\ client[c].pc = "start" /\ Unlocked /\ stream \notin closed
  /\ client' = [client EXCEPT ![c] =
       IF stream # None THEN [pc |-> "opened", reader |-> stream, writer |-> None]
       ELSE ClientAt("insert")]
  /\ UNCHANGED <<subs, streams, streamID, idOf, closed, unsubscribed, closing>>

\* OpenReader looks the channel up under the read lock
OpenLookup(c) ==
  LET stream == subs[ChannelOf[c]] IN
  /\ client[c].pc = "start" /\ Unlocked
  /\ client' = [client EXCEPT ![c] =
       IF stream # None THEN [pc |-> "opened", reader |-> stream, writer |-> None]
       ELSE ClientAt("insert")]
  /\ UNCHANGED <<subs, streams, streamID, idOf, closed, unsubscribed, closing>>

\* Mutant: the stream is not registered under its ID.
OpenInsertUnlisted(c) ==
  /\ client[c].pc = "insert" /\ Unlocked
  /\ streamID < MaxStreams
  /\ streamID' = streamID + 1
  /\ idOf' = [idOf EXCEPT ![c] = streamID']
  /\ subs' = [subs EXCEPT ![ChannelOf[c]] = c]
  /\ client' = [client EXCEPT ![c] = [pc |-> "opened", reader |-> c, writer |-> None]]
  /\ UNCHANGED <<streams, closed, unsubscribed, closing>>

(***************************************************************************)
(* OpenReader takes the write lock and inserts a new stream.  It does not  *)
(* look again: a stream inserted since the lookup is replaced in subs.     *)
(***************************************************************************)
OpenInsert(c) ==
  /\ client[c].pc = "insert" /\ Unlocked
  /\ streamID < MaxStreams
  /\ streamID' = streamID + 1
  /\ idOf' = [idOf EXCEPT ![c] = streamID']
  /\ subs' = [subs EXCEPT ![ChannelOf[c]] = c]
  /\ streams' = [streams EXCEPT ![streamID'] = c]
  /\ client' = [client EXCEPT ![c] = [pc |-> "opened", reader |-> c, writer |-> None]]
  /\ UNCHANGED <<closed, unsubscribed, closing>>

\* sendIndicationOnStream begins with GetWriter(streamReader.StreamID())
GetWriter(c) ==
  LET stream == streams[idOf[client[c].reader]] IN
  /\ client[c].pc = "opened" /\ Unlocked
  /\ client' = [client EXCEPT ![c].pc = IF stream # None THEN "pumping" ELSE "refused",
                              ![c].writer = stream]
  /\ UNCHANGED <<subs, streams, streamID, idOf, closed, unsubscribed, closing>>

-----------------------------------------------------------------------------
(***************************************************************************)
(* CloseStream finds the stream and calls Unsubscribe with the mutex held. *)
(* A channel without a stream is NotFound and changes nothing.             *)
(***************************************************************************)
CloseStream(ch) ==
  /\ Unlocked /\ subs[ch] # None
  /\ closing' = ch
  /\ UNCHANGED <<subs, streams, streamID, idOf, closed, unsubscribed, client>>

\* Unsubscribe succeeded: the stream leaves both maps and is closed
CloseUnsubscribed ==
  LET stream == subs[closing] IN
  /\ ~Unlocked
  /\ unsubscribed' = unsubscribed \cup {stream}
  /\ subs' = [subs EXCEPT ![ChannelOf[stream]] = None]
  /\ streams' = [streams EXCEPT ![idOf[stream]] = None]
  /\ closed' = closed \cup {stream}
  /\ closing' = None
  /\ UNCHANGED <<streamID, idOf, client>>

\* Mutant: the stream is dropped although its subscription goes on.
CloseFailedDropped ==
  LET stream == subs[closing] IN
  /\ ~Unlocked
  /\ subs' = [subs EXCEPT ![ChannelOf[stream]] = None]
  /\ streams' = [streams EXCEPT ![idOf[stream]] = None]
  /\ closed' = closed \cup {stream}
  /\ closing' = None
  /\ UNCHANGED <<streamID, idOf, unsubscribed, client>>

\* Unsubscribe failed: CloseStream returns the error and changes nothing
CloseFailed ==
  /\ ~Unlocked
  /\ closing' = None
  /\ UNCHANGED <<subs, streams, streamID, idOf, closed, unsubscribed, client>>

\* Close closes every stream and leaves them all in the maps
CloseBroker ==
  /\ Unlocked
  /\ closed' = closed \cup {c \in Conns : \E id \in StreamIDs : streams[id] = c}
  /\ UNCHANGED <<subs, streams, streamID, idOf, unsubscribed, closing, client>>

(***************************************************************************)
(* ChannelIDs makes a slice of len(subs) empty IDs and appends the channel *)
(* IDs to it.                                                              *)
(***************************************************************************)
ChannelIDs ==
  LET known == {ch \in Channels : subs[ch] # None} IN
  [i \in 1 .. Cardinality(known) |-> None] \o SetToSeq(known)

-----------------------------------------------------------------------------
ConnNext(c) == OpenLookup(c) \/ OpenInsert(c) \/ GetWriter(c)

CloseNext == CloseUnsubscribed \/ CloseFailed

BrokerNext ==
  \/ \E c \in Conns : ConnNext(c)
  \/ \E ch \in Channels : CloseStream(ch)
  \/ CloseNext
  \/ CloseBroker

BrokerSpec == BrokerInit /\ [][BrokerNext]_brokerVars

(***************************************************************************)
(* Goroutines that can run do run, and Unsubscribe returns.  A goroutine   *)
(* that waits for the mutex gets it even when others keep taking it: the   *)
(* Go mutex hands itself over to a waiter that has starved.                *)
(***************************************************************************)
BrokerFairSpec ==
  /\ BrokerSpec
  /\ WF_brokerVars(CloseNext)
  /\ \A c \in Conns : SF_brokerVars(ConnNext(c))

-----------------------------------------------------------------------------
Created(c) == idOf[c] # 0
Registered(c) == \E id \in StreamIDs : streams[id] = c

(***************************************************************************)
(* A connection's monitor and its pump meet on one stream, and the stream  *)
(* belongs to the connection's channel, so that a monitor gets indications *)
(* of its own node only: however lookups, inserts, GetWriter calls and     *)
(* closes interleave, a pump never writes to another stream than the one   *)
(* its monitor reads, and gives up only when that stream was closed.       *)
(***************************************************************************)
PumpMeetsReader ==
  \A c \in Conns :
    /\ client[c].reader # None => ChannelOf[client[c].reader] = ChannelOf[c]
    /\ client[c].pc = "pumping" => client[c].writer = client[c].reader
    /\ client[c].pc = "refused" => client[c].reader \in closed

(***************************************************************************)
(* A stream is dropped by the broker only when its subscription was ended  *)
(* at the node, also when Unsubscribe fails: no node goes on sending       *)
(* indications for a stream nobody can find.                               *)
(***************************************************************************)
NoLeakedSubscription ==
  \A c \in Conns : Created(c) => Registered(c) \/ c \in unsubscribed \cap closed

(***************************************************************************)
(* Every OpenReader call returns and its pump learns its writer, although  *)
(* CloseStream holds the mutex during a call to the node.                  *)
(***************************************************************************)
OpenReturns == \A c \in Conns : <>(client[c].pc \in {"pumping", "refused"})

-----------------------------------------------------------------------------
(* What comments of the code say and the code does not do.                 *)

(***************************************************************************)
(* OpenReader: "If a stream already exists for the subscription, the       *)
(* existing stream will be returned": a channel has one open stream.       *)
(***************************************************************************)
OneStreamPerChannel ==
  \A c, d \in Conns :
    /\ Created(c) /\ Created(d) /\ ChannelOf[c] = ChannelOf[d]
    /\ c \notin closed /\ d \notin closed
    => c = d

(***************************************************************************)
(* ChannelIDs: "get all of subscription channel IDs", and nothing else.    *)
(***************************************************************************)
ChannelIDsExact == Range(ChannelIDs) = {ch \in Channels : subs[ch] # None}
=============================================================================
