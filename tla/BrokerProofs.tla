---------------------------- MODULE BrokerProofs ----------------------------
(***************************************************************************)
(* Proofs about the stream broker for any number of connections, channels  *)
(* and streams.                                                            *)
(***************************************************************************)
EXTENDS Broker, TLAPS

\* The two maps point to created streams, each under its own channel and ID.
MapsInv ==
  /\ \A ch \in Channels : subs[ch] # None =>
       idOf[subs[ch]] # 0 /\ ChannelOf[subs[ch]] = ch
  /\ \A id \in StreamIDs : streams[id] # None => idOf[streams[id]] = id
  /\ closing # None => subs[closing] # None

\* No ID is given to two streams.
IDsInv ==
  \A c \in Conns :
    /\ idOf[c] <= streamID
    /\ idOf[c] # 0 => \A d \in Conns : idOf[d] = idOf[c] => d = c

\* A stream that was created is found under its ID until it is unsubscribed.
ListedInv ==
  \A c \in Conns : idOf[c] # 0 =>
    streams[idOf[c]] = c \/ c \in unsubscribed \cap closed

\* A connection creates at most its own stream and reads one that was created.
ClientInv ==
  \A c \in Conns :
    /\ client[c].pc \in {"start", "insert"} => idOf[c] = 0 /\ client[c].reader = None
    /\ client[c].pc \notin {"start", "insert"} => client[c].reader # None
    /\ client[c].reader # None => idOf[client[c].reader] # 0

BInv ==
  BrokerTypeOK /\ MapsInv /\ IDsInv /\ ListedInv /\ ClientInv /\ PumpMeetsReader

\* The new broker.
LEMMA BrokerInitInv == BrokerInit => BInv
<1> SUFFICES ASSUME BrokerInit PROVE BInv
  OBVIOUS
<1>1. BrokerTypeOK
  BY BrokerAssumption DEF BrokerInit, BrokerTypeOK, ClientAt, ClientPC
<1>2. MapsInv /\ IDsInv /\ ListedInv
  BY DEF BrokerInit, MapsInv, IDsInv, ListedInv
<1>3. ClientInv /\ PumpMeetsReader
  BY DEF BrokerInit, ClientInv, PumpMeetsReader, ClientAt
<1> QED
  BY <1>1, <1>2, <1>3 DEF BInv

(***************************************************************************)
(* A step that gives connection c a new record of its goroutines and       *)
(* leaves the streams alone.                                               *)
(***************************************************************************)
LEMMA ClientStep ==
  ASSUME BInv, NEW c \in Conns,
         NEW q \in [pc : ClientPC, reader : Conns \cup {None}, writer : Conns \cup {None}],
         client' = [client EXCEPT ![c] = q],
         UNCHANGED <<subs, streams, streamID, idOf, closed, unsubscribed, closing>>,
         q.pc \in {"start", "insert"} => idOf[c] = 0 /\ q.reader = None,
         q.pc \notin {"start", "insert"} => q.reader # None,
         q.reader # None => idOf[q.reader] # 0 /\ ChannelOf[q.reader] = ChannelOf[c],
         q.pc = "pumping" => q.writer = q.reader,
         q.pc = "refused" => q.reader \in closed
  PROVE  BInv'
<1> USE DEF BInv
<1>1. client'[c] = q /\ \A d \in Conns \ {c} : client'[d] = client[d]
  BY DEF BrokerTypeOK
<1>2. BrokerTypeOK'
  BY DEF BrokerTypeOK
<1>3. MapsInv' /\ IDsInv' /\ ListedInv'
  BY DEF MapsInv, IDsInv, ListedInv
<1>4. ClientInv' /\ PumpMeetsReader'
  BY <1>1 DEF ClientInv, PumpMeetsReader
<1> QED
  BY <1>2, <1>3, <1>4

\* OpenReader finds the stream of its channel, or goes on to insert one.
LEMMA OpenLookupInv ==
  ASSUME BInv, NEW c \in Conns, OpenLookup(c)
  PROVE  BInv'
<1> DEFINE stream == subs[ChannelOf[c]]
           q == IF stream # None THEN [pc |-> "opened", reader |-> stream, writer |-> None]
                ELSE ClientAt("insert")
<1>1. stream \in Conns \cup {None}
  BY BrokerAssumption DEF BInv, BrokerTypeOK
<1>2. stream # None => idOf[stream] # 0 /\ ChannelOf[stream] = ChannelOf[c]
  BY BrokerAssumption DEF BInv, MapsInv
<1>3. idOf[c] = 0
  BY DEF BInv, ClientInv, OpenLookup
<1>4. /\ client' = [client EXCEPT ![c] = q]
      /\ UNCHANGED <<subs, streams, streamID, idOf, closed, unsubscribed, closing>>
  BY DEF OpenLookup
<1> HIDE DEF stream
<1>5. /\ q \in [pc : ClientPC, reader : Conns \cup {None}, writer : Conns \cup {None}]
      /\ q.pc \in {"opened", "insert"} /\ q.reader = stream
      /\ q.pc = "insert" <=> stream = None
  BY <1>1 DEF ClientAt, ClientPC
<1> HIDE DEF q
<1> QED
  BY <1>2, <1>3, <1>4, <1>5, ClientStep

\* The pump finds the stream its monitor reads, or none once that was closed.
LEMMA GetWriterInv ==
  ASSUME BInv, NEW c \in Conns, GetWriter(c)
  PROVE  BInv'
<1> DEFINE reader == client[c].reader
           stream == streams[idOf[reader]]
           q == [client[c] EXCEPT !.pc = IF stream # None THEN "pumping" ELSE "refused",
                                  !.writer = stream]
<1>1. client[c].pc = "opened" /\ reader # None /\ idOf[reader] # 0
      /\ client[c] \in [pc : ClientPC, reader : Conns \cup {None},
                        writer : Conns \cup {None}]
  BY DEF GetWriter, BInv, ClientInv, BrokerTypeOK
<1>2. reader \in Conns /\ idOf[reader] \in StreamIDs
  BY <1>1 DEF BInv, BrokerTypeOK, StreamIDs
<1>3. stream \in Conns \cup {None}
  BY <1>2 DEF BInv, BrokerTypeOK
<1>4. stream # None => stream = reader
  BY <1>1, <1>2, <1>3 DEF BInv, MapsInv, IDsInv
<1>5. stream = None => reader \in closed
  BY <1>1, <1>2 DEF BInv, ListedInv
<1>6. ChannelOf[reader] = ChannelOf[c]
  BY <1>1 DEF BInv, PumpMeetsReader
<1>7. client' = [client EXCEPT ![c] = q]
      /\ UNCHANGED <<subs, streams, streamID, idOf, closed, unsubscribed, closing>>
  BY DEF GetWriter, BInv, BrokerTypeOK
<1> HIDE DEF stream
<1>8. /\ q \in [pc : ClientPC, reader : Conns \cup {None}, writer : Conns \cup {None}]
      /\ q.pc = IF stream # None THEN "pumping" ELSE "refused"
      /\ q.reader = reader /\ q.writer = stream
  BY <1>1, <1>3 DEF ClientPC
<1> HIDE DEF q, reader
<1> QED
  BY <1>1, <1>4, <1>5, <1>6, <1>7, <1>8, ClientStep

\* A new stream gets a new ID; the stream it replaces in subs stays listed.
LEMMA OpenInsertInv ==
  ASSUME BInv, NEW c \in Conns, OpenInsert(c)
  PROVE  BInv'
<1> USE DEF BInv
<1> DEFINE q == [pc |-> "opened", reader |-> c, writer |-> None]
           id == streamID + 1
<1>1. /\ idOf[c] = 0 /\ client[c].reader = None /\ client[c].pc = "insert"
      /\ closing = None /\ closing' = None
      /\ streamID \in Nat /\ streamID < MaxStreams /\ c # None
  BY BrokerAssumption DEF OpenInsert, ClientInv, Unlocked, BrokerTypeOK
<1>2. id \in StreamIDs /\ id # 0 /\ streamID' = id /\ id \in 0 .. MaxStreams
  BY <1>1, BrokerAssumption DEF OpenInsert, StreamIDs
<1>3. /\ idOf' = [idOf EXCEPT ![c] = id] /\ subs' = [subs EXCEPT ![ChannelOf[c]] = c]
      /\ streams' = [streams EXCEPT ![id] = c] /\ client' = [client EXCEPT ![c] = q]
      /\ UNCHANGED <<closed, unsubscribed>>
  BY <1>2 DEF OpenInsert
<1>4. /\ idOf'[c] = id /\ \A d \in Conns \ {c} : idOf'[d] = idOf[d]
      /\ client'[c] = q /\ \A d \in Conns \ {c} : client'[d] = client[d]
      /\ streams'[id] = c /\ \A i \in StreamIDs \ {id} : streams'[i] = streams[i]
      /\ subs'[ChannelOf[c]] = c
      /\ \A ch \in Channels \ {ChannelOf[c]} : subs'[ch] = subs[ch]
  BY <1>2, <1>3, BrokerAssumption DEF BrokerTypeOK
<1>5. \A d \in Conns : idOf[d] \in Nat /\ idOf[d] < id
  BY <1>1 DEF IDsInv, BrokerTypeOK
<1> HIDE DEF id
<1>6. BrokerTypeOK'
  <2>1. q \in [pc : ClientPC, reader : Conns \cup {None}, writer : Conns \cup {None}]
    BY DEF ClientPC
  <2> HIDE DEF q
  <2> QED
    BY <1>1, <1>2, <1>3, <2>1 DEF BrokerTypeOK
<1>7. MapsInv'
  <2>1. \A ch \in Channels : subs'[ch] # None =>
          idOf'[subs'[ch]] # 0 /\ ChannelOf[subs'[ch]] = ch
    BY <1>1, <1>2, <1>4 DEF MapsInv, BrokerTypeOK
  <2>2. \A i \in StreamIDs : streams'[i] # None => idOf'[streams'[i]] = i
    BY <1>1, <1>2, <1>4 DEF MapsInv, BrokerTypeOK, StreamIDs
  <2> QED
    BY <1>1, <2>1, <2>2 DEF MapsInv
<1>8. IDsInv'
  BY <1>2, <1>4, <1>5 DEF IDsInv, id
<1>9. ListedInv'
  <2> SUFFICES ASSUME NEW d \in Conns, idOf'[d] # 0
               PROVE  streams'[idOf'[d]] = d \/ d \in (unsubscribed \cap closed)'
    BY DEF ListedInv
  <2>1. CASE d = c
    BY <1>4, <2>1
  <2>2. CASE d # c
    <3>1. idOf'[d] = idOf[d] /\ idOf[d] \in StreamIDs /\ idOf[d] # id
      BY <1>4, <1>5, <2>2 DEF BrokerTypeOK, StreamIDs
    <3> QED
      BY <1>3, <1>4, <3>1 DEF ListedInv
  <2> QED
    BY <2>1, <2>2
<1>10. ClientInv' /\ PumpMeetsReader'
  <2>1. \A d \in Conns \ {c} : client[d].reader # None =>
          client[d].reader \in Conns /\ client[d].reader # c
    BY <1>1 DEF ClientInv, BrokerTypeOK
  <2>2. ClientInv'
    BY <1>1, <1>2, <1>4, <2>1 DEF ClientInv
  <2>3. PumpMeetsReader'
    BY <1>3, <1>4 DEF PumpMeetsReader
  <2> QED
    BY <2>2, <2>3
<1> QED
  BY <1>6, <1>7, <1>8, <1>9, <1>10

\* CloseStream begins, or ends with an error, or Close marks streams closed.
LEMMA CloseQuietInv ==
  ASSUME BInv, UNCHANGED <<subs, streams, streamID, idOf, unsubscribed, client>>,
         closed \subseteq closed', closed' \in SUBSET Conns,
         closing' \in Channels \cup {None}, closing' # None => subs[closing'] # None
  PROVE  BInv'
<1> USE DEF BInv
<1>1. BrokerTypeOK'
  BY DEF BrokerTypeOK
<1>2. MapsInv' /\ IDsInv' /\ ListedInv'
  BY DEF MapsInv, IDsInv, ListedInv
<1>3. ClientInv' /\ PumpMeetsReader'
  BY DEF ClientInv, PumpMeetsReader
<1> QED
  BY <1>1, <1>2, <1>3

\* A stream leaves the maps after its subscription has ended.
LEMMA CloseUnsubscribedInv ==
  ASSUME BInv, CloseUnsubscribed
  PROVE  BInv'
<1> USE DEF BInv
<1>1. PICK s \in Conns :
        /\ s = subs[closing] /\ idOf[s] \in StreamIDs /\ ChannelOf[s] \in Channels
        /\ idOf[s] # 0
  BY BrokerAssumption
  DEF CloseUnsubscribed, Unlocked, MapsInv, BrokerTypeOK, StreamIDs
<1>2. /\ unsubscribed' = unsubscribed \cup {s} /\ closed' = closed \cup {s}
      /\ subs' = [subs EXCEPT ![ChannelOf[s]] = None]
      /\ streams' = [streams EXCEPT ![idOf[s]] = None]
      /\ closing' = None /\ UNCHANGED <<streamID, idOf, client>>
  BY <1>1 DEF CloseUnsubscribed
<1>3. BrokerTypeOK'
  BY <1>2 DEF BrokerTypeOK
<1>4. MapsInv' /\ IDsInv'
  BY <1>1, <1>2 DEF MapsInv, IDsInv, BrokerTypeOK
<1>5. ListedInv'
  <2> SUFFICES ASSUME NEW d \in Conns, idOf[d] # 0, d # s
               PROVE  streams'[idOf[d]] = d \/ d \in (unsubscribed \cap closed)'
    BY <1>2 DEF ListedInv
  <2>1. idOf[d] # idOf[s] /\ idOf[d] \in StreamIDs
    BY <1>1 DEF IDsInv, BrokerTypeOK, StreamIDs
  <2> QED
    BY <1>2, <2>1 DEF ListedInv, BrokerTypeOK
<1>6. ClientInv' /\ PumpMeetsReader'
  BY <1>2 DEF ClientInv, PumpMeetsReader
<1> QED
  BY <1>3, <1>4, <1>5, <1>6

\* Every step of the broker keeps the invariant.
LEMMA BrokerNextInv == BInv /\ [BrokerNext]_brokerVars => BInv'
<1> SUFFICES ASSUME BInv, [BrokerNext]_brokerVars PROVE BInv'
  OBVIOUS
<1>1. ASSUME NEW c \in Conns, ConnNext(c) PROVE BInv'
  BY <1>1, OpenLookupInv, OpenInsertInv, GetWriterInv DEF ConnNext
<1>2. ASSUME NEW ch \in Channels, CloseStream(ch) PROVE BInv'
  <2>1. closed \in SUBSET Conns
    BY DEF BInv, BrokerTypeOK
  <2> QED
    BY <1>2, <2>1, CloseQuietInv DEF CloseStream
<1>3. CASE CloseNext
  <2>1. closed \in SUBSET Conns
    BY DEF BInv, BrokerTypeOK
  <2>2. CASE CloseFailed
    BY <2>1, <2>2, CloseQuietInv DEF CloseFailed
  <2> QED
    BY <1>3, <2>2, CloseUnsubscribedInv DEF CloseNext
<1>4. CASE CloseBroker
  <2>1. closing \in Channels \cup {None} /\ (closing # None => subs[closing] # None)
    BY DEF BInv, BrokerTypeOK, MapsInv
  <2>2. closed \subseteq closed' /\ closed' \in SUBSET Conns
    BY <1>4 DEF CloseBroker, BInv, BrokerTypeOK
  <2> QED
    BY <1>4, <2>1, <2>2, CloseQuietInv DEF CloseBroker
<1>5. CASE UNCHANGED brokerVars
  <2>1. /\ closing \in Channels \cup {None} /\ (closing # None => subs[closing] # None)
        /\ closed \in SUBSET Conns
    BY DEF BInv, BrokerTypeOK, MapsInv
  <2> QED
    BY <1>5, <2>1, CloseQuietInv DEF brokerVars
<1> QED
  BY <1>1, <1>2, <1>3, <1>4, <1>5 DEF BrokerNext

(***************************************************************************)
(* The pump and the monitor of a connection meet on one stream, of the     *)
(* connection's own channel, although OpenReader looks up and inserts in   *)
(* two critical sections and CloseStream may come between.                 *)
(***************************************************************************)
THEOREM PumpsMeetReaders == BrokerSpec => []PumpMeetsReader
<1>1. BInv => PumpMeetsReader
  BY DEF BInv
<1> QED
  BY <1>1, BrokerInitInv, BrokerNextInv, PTL DEF BrokerSpec

(***************************************************************************)
(* The broker drops no stream whose subscription goes on at the node.      *)
(***************************************************************************)
THEOREM SubscriptionsNotLeaked == BrokerSpec => []NoLeakedSubscription
<1>1. BInv => NoLeakedSubscription
  <2> SUFFICES ASSUME BInv, NEW c \in Conns, idOf[c] # 0
               PROVE  Registered(c) \/ c \in unsubscribed \cap closed
    BY DEF NoLeakedSubscription, Created
  <2>1. idOf[c] \in StreamIDs
    BY DEF BInv, BrokerTypeOK, StreamIDs
  <2> QED
    BY <2>1 DEF BInv, ListedInv, Registered
<1> QED
  BY <1>1, BrokerInitInv, BrokerNextInv, PTL DEF BrokerSpec
=============================================================================
