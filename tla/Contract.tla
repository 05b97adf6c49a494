------------------------------ MODULE Contract ------------------------------
(***************************************************************************)
(* The handover loop implements the contract Handover.  A request is open  *)
(* or done while its MetricValue exists, asked while a monitor works on    *)
(* its indication, and dropped when neither is the case any more.          *)
(***************************************************************************)
EXTENDS MHO

PhaseOf(i) ==
  CASE heap[i] # None -> IF heap[i].state = "Done" THEN "done" ELSE "open"
    [] heap[i] = None /\ inds[i] = None -> "unasked"
    [] OTHER -> IF \E c \in Conns : mon[c].pc = "apply" /\ mon[c].call = i
                THEN "asked" ELSE "dropped"

H == INSTANCE Handover WITH asked <- inds,
                            phase <- [i \in Calls |-> PhaseOf(i)],
                            sent <- BagToSet(controls)

(***************************************************************************)
(* Monitors, controller and watchers together keep the contract: whatever  *)
(* the interleaving of events, stale write-backs and crashes, no request   *)
(* is adopted twice or after it was dropped, no message is sent for a      *)
(* request nobody adopted, and none is done before its message.            *)
(***************************************************************************)
KeepsContract == H!HandoverSpec
=============================================================================
