----------------------------- MODULE WriteAhead -----------------------------
(***************************************************************************)
(* What the audit trail promises, with no database, lock or process in it: *)
(* a write is declared before it can touch Proxmox, its record is closed   *)
(* once and for good, nothing is sent after that, and a record leaves the  *)
(* live trail only when it is closed.  AuditLog and CallOutcome implement  *)
(* it.                                                                     *)
(***************************************************************************)
CONSTANTS Calls,     \* governed tool calls, each made once
          Trusted    \* the writes whose "ok" is a confirmation by the node

VARIABLES record,    \* record[c]: what the trail says of call c
          effect,    \* effect[c]: what became of c's mutating request
          retired    \* calls whose record was moved out of the live trail

vars == <<record, effect, retired>>

Verdicts == {"ok", "error", "unknown", "budget_exceeded"}
Effects  == {"none", "sent", "applied", "rejected"}

Init ==
    /\ record  = [c \in Calls |-> "none"]
    /\ effect  = [c \in Calls |-> "none"]
    /\ retired = {}

Declare(c) ==
    /\ record[c] = "none" /\ effect[c] = "none"
    /\ record' = [record EXCEPT ![c] = "pending"]
    /\ UNCHANGED <<effect, retired>>

Perform(c) ==
    /\ record[c] = "pending" /\ effect[c] = "none"
    /\ effect' = [effect EXCEPT ![c] = "sent"]
    /\ UNCHANGED <<record, retired>>

\* The node decides; it may do so after the caller has given up waiting.
Settle(c) ==
    /\ effect[c] = "sent"
    /\ \E e \in {"applied", "rejected"} : effect' = [effect EXCEPT ![c] = e]
    /\ UNCHANGED <<record, retired>>

Close(c, v) ==
    /\ record[c] \in {"none", "pending"}
    /\ record[c] = "none" => effect[c] = "none"
    /\ c \in Trusted /\ v = "ok" => effect[c] = "applied"
    /\ record' = [record EXCEPT ![c] = v]
    /\ UNCHANGED <<effect, retired>>

Retire(S) ==
    /\ \A c \in S : record[c] \in Verdicts
    /\ retired' = retired \cup S
    /\ UNCHANGED <<record, effect>>

Next ==
    \/ \E c \in Calls : Declare(c) \/ Perform(c) \/ Settle(c)
    \/ \E c \in Calls, v \in Verdicts : Close(c, v)
    \/ \E S \in SUBSET Calls : Retire(S)

Spec == Init /\ [][Next]_vars
=============================================================================
