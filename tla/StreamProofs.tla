---------------------------- MODULE StreamProofs ----------------------------
(***************************************************************************)
(* Proofs that the buffered stream is a mailbox, for any buffer size and   *)
(* any number of indications, pumps and monitors.                          *)
(***************************************************************************)
EXTENDS Stream, TLAPS

(***************************************************************************)
(* The inductive invariant.  drain only ends when the stream is closed and *)
(* empty, and a monitor sees EOF only when drain has ended.                *)
(***************************************************************************)
SInv ==
  /\ TypeOK
  /\ Len(buffer) <= bufferMaxSize
  /\ drain.pc = "sending" => drain.ind \in Inds
  /\ drain.pc = "ended" => closed /\ buffer = <<>>
  /\ \A r \in Readers : reader[r] = "eof" => drain.pc = "ended"
  /\ NoLostWakeup

\* A new stream satisfies the invariant.
LEMMA InitSInv == Init => SInv
<1> SUFFICES ASSUME Init PROVE SInv
  OBVIOUS
<1> USE StreamAssumption DEF Init, DrainAt
<1>1. closed \in BOOLEAN /\ canceled \in BOOLEAN
  BY Zenon
<1>2. buffer \in Seq(Inds) /\ Len(buffer) <= bufferMaxSize
  OBVIOUS
<1>3. drain \in [pc : DrainPC, ind : Inds \cup {NoInd}]
  BY DEF DrainPC
<1>4. listening \in [Readers -> BOOLEAN]
  BY Zenon
<1> QED
  BY <1>1, <1>2, <1>3, <1>4 DEF SInv, TypeOK, NoLostWakeup

\* When one Start returns, it is known of all monitors whether theirs still waits.
LEMMA HangUp ==
  ASSUME NEW f \in [Readers -> BOOLEAN], NEW r \in Readers
  PROVE  [f EXCEPT ![r] = FALSE] \in [Readers -> BOOLEAN]
  BY Zenon

\* Every step of the stream, its pumps and its monitors keeps the invariant.
LEMMA NextSInv == SInv /\ [Next]_vars => SInv'
<1> SUFFICES ASSUME SInv, [Next]_vars PROVE SInv'
  OBVIOUS
<1> USE StreamAssumption DEF SInv, DrainAt, DrainPC
<1>1. ASSUME NEW p \in Pumps, Send(p) PROVE SInv'
  BY <1>1 DEF Send, TypeOK, NoLostWakeup
<1>2. ASSUME NEW p \in Pumps, SendRefused(p) PROVE SInv'
  BY <1>2 DEF SendRefused, TypeOK, NoLostWakeup
<1>3. ASSUME NextFront PROVE SInv'
  BY <1>3 DEF NextFront, TypeOK, NoLostWakeup
<1>4. ASSUME NextWait PROVE SInv'
  BY <1>4 DEF NextWait, TypeOK, NoLostWakeup
<1>5. ASSUME NextClosed PROVE SInv'
  BY <1>5 DEF NextClosed, TypeOK, NoLostWakeup
<1>6. ASSUME NEW r \in Readers, Recv(r) PROVE SInv'
  BY <1>6 DEF Recv, TypeOK, NoLostWakeup
<1>7. ASSUME NEW r \in Readers, RecvRefused(r) PROVE SInv'
  <2>1. listening' \in [Readers -> BOOLEAN]
    BY <1>7, HangUp DEF RecvRefused, TypeOK
  <2> QED
    BY <1>7, <2>1 DEF RecvRefused, TypeOK, NoLostWakeup
<1>8. ASSUME NEW r \in Readers, RecvEOF(r) \/ RecvCanceled(r) PROVE SInv'
  <2>1. listening' \in [Readers -> BOOLEAN]
    BY <1>8, HangUp DEF RecvEOF, RecvCanceled, RecvFails, TypeOK
  <2> QED
    BY <1>8, <2>1 DEF RecvEOF, RecvCanceled, RecvFails, TypeOK, NoLostWakeup
<1>9. ASSUME Close PROVE SInv'
  <2>1. closed' \in BOOLEAN
    BY <1>9, Zenon DEF Close
  <2> QED
    BY <1>9, <2>1 DEF Close, TypeOK, NoLostWakeup
<1>10. ASSUME Cancel PROVE SInv'
  <2>1. canceled' \in BOOLEAN
    BY <1>10, Zenon DEF Cancel
  <2> QED
    BY <1>10, <2>1 DEF Cancel, TypeOK, NoLostWakeup
<1>11. ASSUME UNCHANGED vars PROVE SInv'
  BY <1>11 DEF vars, TypeOK, NoLostWakeup
<1>12. ASSUME NEW r \in Readers, StartCanceled(r) PROVE SInv'
  <2>1. listening' \in [Readers -> BOOLEAN]
    BY <1>12, HangUp DEF StartCanceled, TypeOK
  <2> QED
    BY <1>12, <2>1 DEF StartCanceled, TypeOK, NoLostWakeup
<1> QED
  BY <1>1, <1>2, <1>3, <1>4, <1>5, <1>6, <1>7, <1>8, <1>9, <1>10, <1>11, <1>12
  DEF Next, DrainNext, ReaderNext

\* Sequences: taking the front off, putting it back, and adding at the end.
LEMMA FrontFacts ==
  ASSUME NEW S, NEW b \in Seq(S), NEW x \in S, NEW y \in S
  PROVE  /\ <<>> \o b = b
         /\ <<x>> \o b # <<>> /\ Tail(<<x>> \o b) = b
         /\ b # <<>> => <<Head(b)>> \o Tail(b) = b
         /\ Append(<<x>> \o b, y) = <<x>> \o Append(b, y)
         /\ Len(<<x>> \o b) = Len(b) + 1
  OBVIOUS

\* Every step of the stream is a step of the mailbox or leaves it alone.
LEMMA StepSimulation == SInv /\ [Next]_vars => [M!Next]_<<Held, ~closed>>
<1> SUFFICES ASSUME SInv, [Next]_vars PROVE M!Next \/ UNCHANGED <<Held, ~closed>>
  OBVIOUS
<1> USE StreamAssumption DEF SInv, TypeOK
<1>1. ASSUME NEW p \in Pumps, Send(p) PROVE M!Next
  <2>1. PICK x \in Inds : buffer' = Append(buffer, x)
    BY <1>1 DEF Send
  <2>2. ~closed /\ closed' = closed /\ Len(buffer) < bufferMaxSize
    BY <1>1 DEF Send
  <2>3. CASE drain.pc = "sending"
    <3>1. Held = <<drain.ind>> \o buffer /\ Held' = <<drain.ind>> \o buffer'
      BY <1>1, <2>3 DEF Held, Send
    <3>2. Held' = Append(Held, x) /\ Len(Held) < bufferMaxSize + 1
      BY <2>1, <2>2, <2>3, <3>1, FrontFacts
    <3> QED
      BY <2>2, <3>2 DEF M!Next, M!Send
  <2>4. CASE drain.pc # "sending"
    <3>1. Held = buffer /\ Held' = buffer'
      BY <1>1, <2>1, <2>4, FrontFacts DEF Held, Send, DrainAt
    <3> QED
      BY <2>1, <2>2, <3>1 DEF M!Next, M!Send
  <2> QED
    BY <2>3, <2>4
<1>2. ASSUME NextFront PROVE UNCHANGED <<Held, ~closed>>
  <2>1. Held = buffer /\ Held' = <<Head(buffer)>> \o Tail(buffer)
    BY <1>2 DEF Held, NextFront
  <2> QED
    BY <1>2, <2>1 DEF NextFront
<1>3. ASSUME NextWait \/ NextClosed PROVE UNCHANGED <<Held, ~closed>>
  BY <1>3 DEF Held, NextWait, NextClosed, DrainAt
<1>4. ASSUME NEW r \in Readers, Recv(r) \/ RecvRefused(r) PROVE M!Next
  <2>1. Held = <<drain.ind>> \o buffer /\ Held' = buffer /\ drain.ind \in Inds
    BY <1>4 DEF Held, Recv, RecvRefused, DrainAt
  <2>2. Held # <<>> /\ Held' = Tail(Held)
    BY <2>1, FrontFacts
  <2> QED
    BY <1>4, <2>2 DEF Recv, RecvRefused, M!Next, M!Recv
<1>5. ASSUME Close PROVE M!Next
  BY <1>5 DEF Close, Held, M!Next, M!Close
<1>6. ASSUME \/ \E p \in Pumps : SendRefused(p)
             \/ \E r \in Readers : RecvEOF(r) \/ RecvCanceled(r) \/ StartCanceled(r)
             \/ Cancel \/ UNCHANGED vars
      PROVE  UNCHANGED <<Held, ~closed>>
  BY <1>6 DEF SendRefused, RecvEOF, RecvCanceled, RecvFails, StartCanceled, Cancel, vars, Held
<1> QED
  BY <1>1, <1>2, <1>3, <1>4, <1>5, <1>6 DEF Next, DrainNext, ReaderNext

(***************************************************************************)
(* The stream keeps its types: what is queued and what drain hands to the  *)
(* monitors are indications that arrived.                                  *)
(***************************************************************************)
THEOREM StreamTypeCorrect == Spec => []TypeOK
<1>1. SInv => TypeOK
  BY DEF SInv
<1> QED
  BY <1>1, InitSInv, NextSInv, PTL DEF Spec

(***************************************************************************)
(* The buffer, the drain goroutine and the channel together are a bounded  *)
(* FIFO queue that Close shuts for senders only.                           *)
(***************************************************************************)
THEOREM StreamIsMailbox == Spec => ImplementsMailbox
<1>1. Init => M!Init
  BY DEF Init, DrainAt, Held, M!Init
<1> QED
  BY <1>1, InitSInv, NextSInv, StepSimulation, PTL DEF Spec, ImplementsMailbox, M!Spec

(***************************************************************************)
(* The drain goroutine never waits on cond while the buffer has something. *)
(***************************************************************************)
THEOREM WakeupsKept == Spec => []NoLostWakeup
<1>1. SInv => NoLostWakeup
  BY DEF SInv
<1> QED
  BY <1>1, InitSInv, NextSInv, PTL DEF Spec

(***************************************************************************)
(* A monitor gets EOF only from a closed stream that has been drained.     *)
(***************************************************************************)
THEOREM ClosesGracefully == Spec => []GracefulClose
<1>1. SInv => GracefulClose
  BY DEF SInv, TypeOK, GracefulClose, Held
<1> QED
  BY <1>1, InitSInv, NextSInv, PTL DEF Spec
=============================================================================
