------------------------------- MODULE Mailbox -------------------------------
(***************************************************************************)
(* What a stream promises (the comments of StreamReader, StreamWriter and  *)
(* CloseStream): a bounded first-in first-out queue.  Closing it stops the *)
(* sending and leaves what is queued to be received.                       *)
(***************************************************************************)
EXTENDS Integers, Sequences

CONSTANTS Items, Capacity

VARIABLES queue, open

Init == queue = <<>> /\ open = TRUE

Send(x) ==
  /\ open /\ Len(queue) < Capacity
  /\ queue' = Append(queue, x)
  /\ UNCHANGED open

Recv ==
  /\ queue # <<>>
  /\ queue' = Tail(queue)
  /\ UNCHANGED open

Close == open' = FALSE /\ UNCHANGED queue

Next == (\E x \in Items : Send(x)) \/ Recv \/ Close

Spec == Init /\ [][Next]_<<queue, open>>
=============================================================================
