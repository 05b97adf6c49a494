------------------------------ MODULE Handover ------------------------------
(***************************************************************************)
(* What onos-mho promises about one handover request, whatever goroutines, *)
(* events and values are behind it.  A request is an indication; it is     *)
(* adopted or dropped, once; a control message is sent only for a request  *)
(* that was adopted, to the node that asked and for the UE and cell it     *)
(* asked for; and a request is done only when its message was attempted.   *)
(* A request that is done may be taken up again.  A restart drops all.     *)
(***************************************************************************)
CONSTANTS Calls, UEs, Cells, Nodes, Outcome, None

VARIABLES
  asked,   \* the requests: UE, target cell and node by call process ID
  phase,   \* how far each has come
  sent     \* the control messages that were attempted

handoverVars == <<asked, phase, sent>>

HandoverInit ==
  /\ asked = [i \in Calls |-> None]
  /\ phase = [i \in Calls |-> "unasked"]
  /\ sent = {}

\* An indication is received
Ask(i) ==
  /\ phase[i] = "unasked"
  /\ phase' = [phase EXCEPT ![i] = "asked"]
  /\ \E u \in UEs, t \in Cells, n \in Nodes :
       asked' = [asked EXCEPT ![i] = [ue |-> u, tgt |-> t, node |-> n]]
  /\ UNCHANGED sent

\* It becomes the value of its UE, or is dropped
Decide(i) ==
  /\ phase[i] = "asked"
  /\ \E p \in {"open", "dropped"} : phase' = [phase EXCEPT ![i] = p]
  /\ UNCHANGED <<asked, sent>>

\* A control message is attempted
Control(i) ==
  /\ phase[i] \in {"open", "done"}
  /\ \E o \in Outcome :
       sent' = sent \cup {[to |-> asked[i].node, ue |-> asked[i].ue, tgt |-> asked[i].tgt,
                           call |-> i, outcome |-> o]}
  /\ UNCHANGED <<asked, phase>>

\* The value is marked Done
Settle(i) ==
  /\ phase[i] \in {"open", "done"}
  /\ \E m \in sent : m.call = i
  /\ phase' = [phase EXCEPT ![i] = "done"]
  /\ UNCHANGED <<asked, sent>>

\* A value that is Done is approved again
Reopen(i) ==
  /\ phase[i] = "done"
  /\ phase' = [phase EXCEPT ![i] = "open"]
  /\ UNCHANGED <<asked, sent>>

Restart ==
  /\ phase' = [i \in Calls |-> IF phase[i] = "unasked" THEN "unasked" ELSE "dropped"]
  /\ UNCHANGED <<asked, sent>>

HandoverNext ==
  \/ \E i \in Calls : Ask(i) \/ Decide(i) \/ Control(i) \/ Settle(i) \/ Reopen(i)
  \/ Restart

HandoverSpec == HandoverInit /\ [][HandoverNext]_handoverVars
=============================================================================
