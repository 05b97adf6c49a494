------------------------------- MODULE Stream -------------------------------
(***************************************************************************)
(* The buffered stream (pkg/broker/stream.go) between the goroutines that  *)
(* pump the indications of a subscription into it (sendIndicationOnStream) *)
(* and the monitors that receive from it.  Send and Close run on the       *)
(* caller's goroutine under the mutex of cond; drain is a goroutine of the *)
(* stream's own that moves indications from the buffer to the unbuffered   *)
(* channel ch.                                                             *)
(***************************************************************************)
EXTENDS Integers, Sequences, SequencesExt

CONSTANTS
  Inds,            \* the indications that arrive, each once
  Refused,         \* the ones that processIndication returns an error for
  Pumps,           \* sendIndicationOnStream goroutines that write to the stream
  Readers,         \* monitors that receive from it
  bufferMaxSize,
  NoInd            \* no indication

ASSUME StreamAssumption ==
  bufferMaxSize \in Nat \ {0} /\ NoInd \notin Inds /\ Refused \subseteq Inds

VARIABLES
  arriving,   \* indications that no pump has taken from its subscription yet
  pump,       \* the pumps
  buffer,     \* the list of queued indications
  closed,     \* the closed flag of the writer
  drain,      \* the drain goroutine
  reader,     \* the receive loop of each monitor
  listening,  \* whether Monitor.Start still waits for an error of that loop
  canceled    \* the context of the monitors is canceled

vars == <<arriving, pump, buffer, closed, drain, reader, listening, canceled>>

(***************************************************************************)
(* drain: "next" is about to lock the mutex in next, "waiting" in          *)
(* cond.Wait, "sending" in ch <- ind, "ended" after close(ch).             *)
(***************************************************************************)
DrainPC == {"next", "waiting", "sending", "ended"}
DrainAt(pc) == [pc |-> pc, ind |-> NoInd]

TypeOK ==
  /\ arriving \in SUBSET Inds
  /\ pump \in [Pumps -> {"range", "ended"}]
  /\ buffer \in Seq(Inds)
  /\ closed \in BOOLEAN
  /\ drain \in [pc : DrainPC, ind : Inds \cup {NoInd}]
  /\ reader \in [Readers -> {"recv", "eof", "canceled", "stuck"}]
  /\ listening \in [Readers -> BOOLEAN]
  /\ canceled \in BOOLEAN

\* newBufferedStream: the buffer is empty and drain has been started
Init ==
  /\ arriving = Inds
  /\ pump = [p \in Pumps |-> "range"]
  /\ buffer = <<>>
  /\ closed = FALSE
  /\ drain = DrainAt("next")
  /\ reader = [r \in Readers |-> "recv"]
  /\ listening = [r \in Readers |-> TRUE]
  /\ canceled = FALSE

-----------------------------------------------------------------------------
\* Mutant: the zero Indication is queued instead of the one that was received.
SendZero(p) ==
  /\ pump[p] = "range" /\ ~closed /\ Len(buffer) # bufferMaxSize
  /\ \E ind \in arriving : arriving' = arriving \ {ind}
  /\ buffer' = Append(buffer, NoInd)
  /\ drain' = IF drain.pc = "waiting" THEN DrainAt("next") ELSE drain
  /\ UNCHANGED <<pump, closed, reader, listening, canceled>>

\* Mutant: Signal is forgotten.
SendUnsignalled(p) ==
  /\ pump[p] = "range" /\ ~closed /\ Len(buffer) # bufferMaxSize
  /\ \E ind \in arriving :
       /\ arriving' = arriving \ {ind}
       /\ buffer' = Append(buffer, ind)
  /\ UNCHANGED <<drain, pump, closed, reader, listening, canceled>>

\* Mutant: the newest indication overtakes the others.
SendPushFront(p) ==
  /\ pump[p] = "range" /\ ~closed /\ Len(buffer) # bufferMaxSize
  /\ \E ind \in arriving :
       /\ arriving' = arriving \ {ind}
       /\ buffer' = <<ind>> \o buffer
  /\ drain' = IF drain.pc = "waiting" THEN DrainAt("next") ELSE drain
  /\ UNCHANGED <<pump, closed, reader, listening, canceled>>

(***************************************************************************)
(* A pump takes an indication from its subscription and Send appends it to *)
(* the buffer.  Signal wakes drain if it waits.                            *)
(***************************************************************************)
Send(p) ==
  /\ pump[p] = "range" /\ ~closed /\ Len(buffer) # bufferMaxSize
  /\ \E ind \in arriving :
       /\ arriving' = arriving \ {ind}
       /\ buffer' = Append(buffer, ind)
  /\ drain' = IF drain.pc = "waiting" THEN DrainAt("next") ELSE drain
  /\ UNCHANGED <<pump, closed, reader, listening, canceled>>

(***************************************************************************)
(* Send returns an error: the stream is closed or the buffer is full.  The *)
(* indication is lost, and so are all later ones: the pump returns.        *)
(***************************************************************************)
SendRefused(p) ==
  /\ pump[p] = "range" /\ (closed \/ Len(buffer) = bufferMaxSize)
  /\ \E ind \in arriving : arriving' = arriving \ {ind}
  /\ pump' = [pump EXCEPT ![p] = "ended"]
  /\ UNCHANGED <<buffer, closed, drain, reader, listening, canceled>>

\* Close sets the flag and signals nobody.
Close ==
  /\ closed' = TRUE
  /\ UNCHANGED <<arriving, pump, buffer, drain, reader, listening, canceled>>

-----------------------------------------------------------------------------
\* next returns the front of the buffer
NextFront ==
  /\ drain.pc = "next" /\ buffer # <<>>
  /\ drain' = [pc |-> "sending", ind |-> Head(buffer)]
  /\ buffer' = Tail(buffer)
  /\ UNCHANGED <<arriving, pump, closed, reader, listening, canceled>>

\* next finds the buffer empty and the stream open, and waits
NextWait ==
  /\ drain.pc = "next" /\ buffer = <<>> /\ ~closed
  /\ drain' = DrainAt("waiting")
  /\ UNCHANGED <<arriving, pump, buffer, closed, reader, listening, canceled>>

\* Mutant: a closed stream is given up with indications in its buffer.
NextClosedEarly ==
  /\ drain.pc = "next" /\ closed
  /\ drain' = DrainAt("ended")
  /\ UNCHANGED <<arriving, pump, buffer, closed, reader, listening, canceled>>

\* next finds the buffer empty and the stream closed: drain closes ch
NextClosed ==
  /\ drain.pc = "next" /\ buffer = <<>> /\ closed
  /\ drain' = DrainAt("ended")
  /\ UNCHANGED <<arriving, pump, buffer, closed, reader, listening, canceled>>

-----------------------------------------------------------------------------
\* Mutant: drain does not come back for the next indication.
RecvOnce(r) ==
  /\ reader[r] = "recv" /\ drain.pc = "sending" /\ drain.ind \notin Refused
  /\ drain' = DrainAt("waiting")
  /\ UNCHANGED <<arriving, pump, buffer, closed, reader, listening, canceled>>

(***************************************************************************)
(* Recv returns the indication that drain is sending, the monitor accepts  *)
(* it (see Monitor for what it does) and receives again.                   *)
(***************************************************************************)
Recv(r) ==
  /\ reader[r] = "recv" /\ drain.pc = "sending" /\ drain.ind \notin Refused
  /\ drain' = DrainAt("next")
  /\ UNCHANGED <<arriving, pump, buffer, closed, reader, listening, canceled>>

(***************************************************************************)
(* The indication is refused.  If Start is still waiting, it receives the  *)
(* error and returns, and the loop goes on; otherwise the loop is stuck in *)
(* errCh <- err for good, whatever else is queued.                         *)
(***************************************************************************)
RecvRefused(r) ==
  /\ reader[r] = "recv" /\ drain.pc = "sending" /\ drain.ind \in Refused
  /\ drain' = DrainAt("next")
  /\ reader' = [reader EXCEPT ![r] = IF listening[r] THEN "recv" ELSE "stuck"]
  /\ listening' = [listening EXCEPT ![r] = FALSE]
  /\ UNCHANGED <<arriving, pump, buffer, closed, canceled>>

(***************************************************************************)
(* Recv fails: the channel is closed, or the context canceled.  Start gets *)
(* the error if it waits for one.  Without a receiver the loop is stuck,   *)
(* if not with this error then with that of the zero Indication.           *)
(***************************************************************************)
RecvFails(r, how) ==
  /\ reader[r] = "recv"
  /\ reader' = [reader EXCEPT ![r] = how]
  /\ listening' = [listening EXCEPT ![r] = FALSE]
  /\ UNCHANGED <<arriving, pump, buffer, closed, drain, canceled>>

RecvEOF(r) == drain.pc = "ended" /\ RecvFails(r, "eof")
RecvCanceled(r) == canceled /\ RecvFails(r, "canceled")

\* Start sees the end of the context first and returns
StartCanceled(r) ==
  /\ canceled /\ listening[r]
  /\ listening' = [listening EXCEPT ![r] = FALSE]
  /\ UNCHANGED <<arriving, pump, buffer, closed, drain, reader, canceled>>

\* The owner of the monitors' context cancels it
Cancel ==
  /\ canceled' = TRUE
  /\ UNCHANGED <<arriving, pump, buffer, closed, drain, reader, listening>>

-----------------------------------------------------------------------------
DrainNext == NextFront \/ NextWait \/ NextClosed
ReaderNext(r) == Recv(r) \/ RecvRefused(r) \/ RecvEOF(r) \/ RecvCanceled(r)

Next ==
  \/ \E p \in Pumps : Send(p) \/ SendRefused(p)
  \/ DrainNext
  \/ \E r \in Readers : ReaderNext(r) \/ StartCanceled(r)
  \/ Close \/ Cancel

Spec == Init /\ [][Next]_vars

(***************************************************************************)
(* The drain goroutine runs when it can, and a monitor that is in Recv     *)
(* takes what it is offered.  Nobody has to send, to close or to cancel.   *)
(***************************************************************************)
FairSpec == Spec /\ WF_vars(DrainNext) /\ \A r \in Readers : WF_vars(ReaderNext(r))

-----------------------------------------------------------------------------
(***************************************************************************)
(* The indications the stream holds, oldest first: the one drain has taken *)
(* from the buffer and the buffer.                                         *)
(***************************************************************************)
Held == (IF drain.pc = "sending" THEN <<drain.ind>> ELSE <<>>) \o buffer

(***************************************************************************)
(* The stream is a mailbox: whatever way the pumps, the drain goroutine,   *)
(* the monitors and Close interleave, nothing it accepted is lost,         *)
(* duplicated or overtaken, nothing is accepted after Close, and it holds  *)
(* one indication more than bufferMaxSize at most.                         *)
(***************************************************************************)
M == INSTANCE Mailbox WITH Items <- Inds, Capacity <- bufferMaxSize + 1,
                           queue <- Held, open <- ~closed
ImplementsMailbox == M!Spec

(***************************************************************************)
(* No wakeup of drain is lost: it never waits in cond.Wait while there is  *)
(* something in the buffer.                                                *)
(***************************************************************************)
NoLostWakeup == drain.pc = "waiting" => buffer = <<>>

(***************************************************************************)
(* CloseStream: "the reader will continue receiving pending indications    *)
(* until the buffer is empty".  A monitor sees EOF only when the stream is *)
(* closed and all that it had accepted has been received.                  *)
(***************************************************************************)
GracefulClose == \A r \in Readers : reader[r] = "eof" => closed /\ Held = <<>>

(***************************************************************************)
(* What the stream accepted is received, also after Close, for as long as  *)
(* one of its monitors receives: not all of them have been canceled or are *)
(* stuck on an indication that they refused.                               *)
(***************************************************************************)
Delivered ==
  \A x \in Inds :
    Contains(Held, x) ~> (~Contains(Held, x) \/ \A r \in Readers : reader[r] # "recv")

(***************************************************************************)
(* Recv: "If the stream has been closed, an io.EOF error will be returned" *)
(* instead of blocking for ever.                                           *)
(***************************************************************************)
CloseEndsRecv == \A r \in Readers : closed ~> reader[r] # "recv"
=============================================================================
