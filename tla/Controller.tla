----------------------------- MODULE Controller -----------------------------
(***************************************************************************)
(* The MHO controller (pkg/controller): one goroutine that watches the     *)
(* store and approves every request that is announced as new or denied.    *)
(***************************************************************************)
EXTENDS Store

VARIABLE ctl     \* the controlHandover goroutine

(***************************************************************************)
(* pc "starting": Watch has not been called yet; "idle": in range ch;      *)
(* "write": val was obtained by Get(key) and is to be approved; "put":     *)
(* its State field has been written, Put is next.                          *)
(***************************************************************************)
CtlPC == {"starting", "idle", "write", "put"}

ControllerTypeOK ==
  ctl \in [pc : CtlPC, key : UEs \cup {None}, val : Calls \cup {None}]

CtlAt(pc) == [pc |-> pc, key |-> None, val |-> None]

ControllerInit == ctl = CtlAt("starting")

\* controlHandover calls Watch
WatchStore ==
  /\ ctl.pc = "starting"
  /\ ctl' = CtlAt("idle")
  /\ Watch(Ctl)

(***************************************************************************)
(* The controller takes an event that it handles and reads the entry of    *)
(* its key, which may be newer than the event.  The rendezvous and Get are *)
(* one step: delaying the rendezvous until Get changes nothing for the     *)
(* sender, which serves its watchers in any order.                         *)
(***************************************************************************)
ReceiveEvent(s) ==
  /\ ctl.pc = "idle"
  /\ Receive(Ctl, s)
  /\ ctl' = [pc |-> "write", key |-> s.ev.key, val |-> Get(s.ev.key)]
  /\ UNCHANGED <<records, heap, watchers, audience>>

\* nv.State = Approved, in place and without a lock
Approve ==
  /\ ctl.pc = "write"
  /\ heap' = [heap EXCEPT ![ctl.val].state = "Approved"]
  /\ ctl' = [ctl EXCEPT !.pc = "put"]
  /\ UNCHANGED <<records, watchers, sends, audience>>

\* Mutant: the approval is announced with the state that asks for one.
PutApprovedAsCreated ==
  /\ ctl.pc = "put"
  /\ Put(ctl.key, ctl.val, "StateCreated")
  /\ ctl' = CtlAt("idle")
  /\ UNCHANGED heap

\* Put(ctx, key, nv, Approved)
PutApproved ==
  /\ ctl.pc = "put"
  /\ Put(ctl.key, ctl.val, "Approved")
  /\ ctl' = CtlAt("idle")
  /\ UNCHANGED heap
=============================================================================
