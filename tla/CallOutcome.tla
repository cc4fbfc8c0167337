----------------------------- MODULE CallOutcome -----------------------------
(***************************************************************************)
(* One write, from the command line to the node and back: the request, the *)
(* node's asynchronous task, the bounded wait of ops/_task.py, the payload *)
(* of tool_errors, the undo token and the verdict of the wrapper, and the  *)
(* exit code of cli/_common.py.  A script makes the write and repeats it   *)
(* as long as the command reports a plain failure.                         *)
(***************************************************************************)
EXTENDS Integers, FiniteSets

CONSTANTS MaxAttempts,   \* times the script makes the write
          WaitBudget,    \* polls that fit in PROXMOX_TASK_WAIT_SECONDS
          Faults         \* extra faults: "cut" (connection), "audit" (storage),
                         \* "warn" (a task that changes the guest and does not end OK)

ASSUME OutcomeAssumption ==
    /\ MaxAttempts \in Nat \ {0}
    /\ WaitBudget \in Nat
    /\ Faults \subseteq {"cut", "audit", "warn"}

VARIABLES faults,   \* the extra faults that happen to this script
          mode,     \* "write" or "preview" (dry_run), the same for all attempts
          pc,       \* pc[c]: where attempt c stands
          left,     \* left[c]: polls left before the deadline
          task,     \* task[c]: the node's answer to the request, and its task
          effect,   \* effect[c]: what became of the mutating request
          payload,  \* payload[c]: the error and outcomeUnknown keys returned
          token,    \* token[c]: the undo token recorded
          row,      \* row[c]: status of the audit row
          exit      \* exit[c]: exit code of the command, -1 until it ends

client == <<faults, mode, pc, left, payload, token, row, exit>>
node   == <<task, effect>>
vars   == <<client, node>>

Calls == 1 .. MaxAttempts

Payloads == [error : BOOLEAN, unknown : BOOLEAN]
Done     == [error |-> FALSE, unknown |-> FALSE]
Failed   == [error |-> TRUE,  unknown |-> FALSE]
LostReply == [error |-> TRUE,  unknown |-> TRUE]
Unsettled == [error |-> FALSE, unknown |-> TRUE]

Answers == {"refused", "sync", "running", "ok", "failed", "silent"}

TypeOK ==
    /\ faults \subseteq Faults
    /\ mode \in {"write", "preview"}
    /\ pc \in [Calls -> {"idle", "body", "sent", "polling", "returned",
                         "final", "closed", "done"}]
    /\ left \in [Calls -> 0 .. WaitBudget]
    /\ task \in [Calls -> Answers \cup {"none"}]
    /\ effect \in [Calls -> {"none", "sent", "applied", "rejected"}]
    /\ payload \in [Calls -> Payloads]
    /\ token \in [Calls -> {"none", "verified"}]
    /\ row \in [Calls -> {"none", "pending", "ok", "error", "unknown", "budget_exceeded"}]
    /\ exit \in [Calls -> {-1, 0, 1, 2}]

Init ==
    /\ faults \in SUBSET Faults
    /\ mode \in {"write", "preview"}
    /\ pc = [c \in Calls |-> "idle"]
    /\ left = [c \in Calls |-> 0]
    /\ task = [c \in Calls |-> "none"]
    /\ effect = [c \in Calls |-> "none"]
    /\ payload = [c \in Calls |-> Done]
    /\ token = [c \in Calls |-> "none"]
    /\ row = [c \in Calls |-> "none"]
    /\ exit = [c \in Calls |-> -1]

Set(f, c, v) == [f EXCEPT ![c] = v]

\* The tool body ends with payload p (tool_errors turns exceptions into one).
Return(c, p) ==
    /\ payload' = Set(payload, c, p)
    /\ pc' = Set(pc, c, "returned")

-----------------------------------------------------------------------------
(* The command and the body of the governed tool                           *)

\* The script's first attempt, or the next one after a plain failure.
Due(c) == pc[c] = "idle" /\ \A d \in 1 .. c - 1 : exit[d] = 1

\* The only row of a call without an intent: audit.log is not strict here, and
\* a row that cannot be appended is dropped with a warning.
AppendRow(c, v) ==
    \/ row' = Set(row, c, v)
    \/ "audit" \in faults /\ UNCHANGED row

\* _pre_check passes and, for a write, the intent is committed.
StartCall(c) ==
    /\ Due(c)
    /\ pc' = Set(pc, c, "body")
    /\ row' = Set(row, c, IF mode = "write" THEN "pending" ELSE "none")
    /\ UNCHANGED <<faults, mode, left, payload, token, exit, node>>

\* BudgetExceeded passes the body by and reaches cli_errors.
TripBudget(c) ==
    /\ Due(c)
    /\ pc' = Set(pc, c, "done")
    /\ AppendRow(c, "budget_exceeded")
    /\ exit' = Set(exit, c, 1)
    /\ UNCHANGED <<faults, mode, left, payload, token, node>>

\* begin_write cannot commit the intent: AuditUnavailable leaves the wrapper
\* before the body, and no handler of the command knows it.
RefuseIntent(c) ==
    /\ "audit" \in faults
    /\ Due(c) /\ mode = "write"
    /\ pc' = Set(pc, c, "done")
    /\ AppendRow(c, "error")
    /\ exit' = Set(exit, c, 1)
    /\ UNCHANGED <<faults, mode, left, payload, token, node>>

\* A guard refuses, the connection is never made, or the answer to one of the
\* reads an operation starts with is lost: nothing was sent.
FailBeforeSend(c) ==
    /\ pc[c] = "body"
    /\ \E p \in {Failed, LostReply} : Return(c, p)
    /\ UNCHANGED <<faults, mode, left, token, row, exit, node>>

ReturnPreview(c) ==
    /\ pc[c] = "body" /\ mode = "preview"
    /\ Return(c, Done)
    /\ UNCHANGED <<faults, mode, left, token, row, exit, node>>

SendRequest(c) ==
    /\ pc[c] = "body" /\ mode = "write"
    /\ effect' = Set(effect, c, "sent")
    /\ pc' = Set(pc, c, "sent")
    /\ UNCHANGED <<faults, mode, left, payload, token, row, exit, task>>

\* Faulty: the UPID is taken for the outcome.
GetAnswerTrusted(c) ==
    /\ pc[c] = "sent" /\ task[c] # "none"
    /\ Return(c, IF task[c] = "refused" THEN Failed ELSE Done)
    /\ UNCHANGED <<faults, mode, left, token, row, exit, node>>

\* The head of settle(): no UPID means the change was applied synchronously.
GetAnswer(c) ==
    /\ pc[c] = "sent"
    /\ \/ task[c] = "refused" /\ Return(c, Failed) /\ UNCHANGED left
       \/ task[c] = "sync" /\ Return(c, Done) /\ UNCHANGED left
       \/ /\ task[c] \in {"running", "ok", "failed", "silent"}
          /\ pc' = Set(pc, c, "polling")
          /\ left' = Set(left, c, WaitBudget)
          /\ UNCHANGED payload
    /\ UNCHANGED <<faults, mode, token, row, exit, node>>

\* Faulty: a lost answer is an error like any other.
LoseAnswerAsError(c) ==
    /\ pc[c] = "sent"
    /\ Return(c, Failed)
    /\ UNCHANGED <<faults, mode, left, token, row, exit, node>>

\* ReadTimeout or ChunkedEncodingError while the answer is awaited.
LoseAnswer(c) ==
    /\ pc[c] = "sent"
    /\ Return(c, LostReply)
    /\ UNCHANGED <<faults, mode, left, token, row, exit, node>>

\* The peer closes the connection on a request it has read: a requests
\* ConnectionError, the type of a connection that was never made.
CutConnection(c) ==
    /\ "cut" \in faults
    /\ pc[c] = "sent"
    /\ Return(c, Failed)
    /\ UNCHANGED <<faults, mode, left, token, row, exit, node>>

-----------------------------------------------------------------------------
(* wait_for_task                                                           *)

\* A probe that finds the task stopped ends the wait with its exitstatus: any
\* but OK is TaskFailed ("Nothing was changed by this call").
PollStopped(c) ==
    /\ pc[c] = "polling"
    /\ \/ task[c] = "ok" /\ Return(c, Done)
       \/ task[c] = "failed" /\ Return(c, Failed)
       \/ task[c] = "silent" /\ Return(c, Unsettled)
    /\ UNCHANGED <<faults, mode, left, token, row, exit, node>>

\* Faulty: a wait without a deadline.
PollAgainForever(c) ==
    /\ pc[c] = "polling"
    /\ UNCHANGED vars

\* A probe that fails, or finds the task running, waits on to the deadline.
PollAgain(c) ==
    /\ pc[c] = "polling"
    /\ IF left[c] = 0
       THEN Return(c, Unsettled) /\ UNCHANGED left
       ELSE /\ \E l \in 0 .. left[c] - 1 : left' = Set(left, c, l)
            /\ UNCHANGED <<pc, payload>>
    /\ UNCHANGED <<faults, mode, token, row, exit, node>>

-----------------------------------------------------------------------------
(* The wrapper's end and the command's                                     *)

\* Faulty: a preview's descriptor is recorded like a write's.
RecordUndoPreview(c) ==
    /\ pc[c] = "returned"
    /\ \E t \in {"none"} \cup (IF payload[c] = Done THEN {"verified"} ELSE {}) :
          token' = Set(token, c, t)
    /\ pc' = Set(pc, c, "final")
    /\ UNCHANGED <<faults, mode, left, payload, row, exit, node>>

\* _record_undo: nothing for a preview or an error; nothing for an unknown
\* outcome either, since no operation calls capture_prior_state; otherwise a
\* token, unless there is no inverse or the store fails.
RecordUndo(c) ==
    /\ pc[c] = "returned"
    /\ \E t \in {"none"} \cup
                (IF mode = "write" /\ payload[c] = Done THEN {"verified"} ELSE {}) :
          token' = Set(token, c, t)
    /\ pc' = Set(pc, c, "final")
    /\ UNCHANGED <<faults, mode, left, payload, row, exit, node>>

\* Faulty: only an error payload is asked whether its outcome is unknown.
StatusOfErrors(p) ==
    IF p.error THEN (IF p.unknown THEN "unknown" ELSE "error") ELSE "ok"

\* The status _finalize derives from the payload: unknown before error.
Status(p) ==
    IF p.unknown THEN "unknown" ELSE IF p.error THEN "error" ELSE "ok"

\* A write closes its intent, a preview appends its row.
Finalize(c) ==
    /\ pc[c] = "final"
    /\ IF mode = "write" THEN row' = Set(row, c, Status(payload[c]))
                         ELSE AppendRow(c, Status(payload[c]))
    /\ pc' = Set(pc, c, "closed")
    /\ UNCHANGED <<faults, mode, left, payload, token, exit, node>>

\* finish_write fails: AuditUnavailable replaces the result and no handler of
\* the command knows it, so Python ends the process.
FinalizeFails(c) ==
    /\ "audit" \in faults
    /\ pc[c] = "final" /\ mode = "write"
    /\ exit' = Set(exit, c, 1)
    /\ pc' = Set(pc, c, "done")
    /\ UNCHANGED <<faults, mode, left, payload, token, row, node>>

\* Faulty: the error key is judged before outcomeUnknown.
ExitCodeErrorFirst(p) == IF p.error THEN 1 ELSE IF p.unknown THEN 2 ELSE 0

\* checked(); a preview is rendered by dry_run_preview, which sees "error" only.
ExitCode(p) ==
    IF mode = "write" /\ p.unknown THEN 2 ELSE IF p.error THEN 1 ELSE 0

Report(c) ==
    /\ pc[c] = "closed"
    /\ exit' = Set(exit, c, ExitCode(payload[c]))
    /\ pc' = Set(pc, c, "done")
    /\ UNCHANGED <<faults, mode, left, payload, token, row, node>>

-----------------------------------------------------------------------------
(* The node                                                                *)

\* The request arrives, even if nobody waits for the answer any more: it is
\* refused, applied at once, or queued as a task.
NodeAccepts(c) ==
    /\ effect[c] = "sent" /\ task[c] = "none"
    /\ \/ task' = Set(task, c, "refused") /\ effect' = Set(effect, c, "rejected")
       \/ task' = Set(task, c, "sync") /\ effect' = Set(effect, c, "applied")
       \/ task' = Set(task, c, "running") /\ UNCHANGED effect
    /\ UNCHANGED client

\* The task stops; it may not say how.  One that ends with warnings has an
\* exitstatus of its own and has changed the guest all the same.
NodeFinishes(c) ==
    /\ task[c] = "running"
    /\ \/ task' = Set(task, c, "ok") /\ effect' = Set(effect, c, "applied")
       \/ task' = Set(task, c, "failed") /\ effect' = Set(effect, c, "rejected")
       \/ /\ "warn" \in faults
          /\ task' = Set(task, c, "failed") /\ effect' = Set(effect, c, "applied")
       \/ /\ task' = Set(task, c, "silent")
          /\ \E e \in {"applied", "rejected"} : effect' = Set(effect, c, e)
    /\ UNCHANGED client

-----------------------------------------------------------------------------
Client(c) ==
    \/ StartCall(c) \/ TripBudget(c) \/ RefuseIntent(c)
    \/ FailBeforeSend(c) \/ ReturnPreview(c) \/ SendRequest(c)
    \/ GetAnswer(c) \/ LoseAnswer(c) \/ CutConnection(c)
    \/ PollStopped(c) \/ PollAgain(c)
    \/ RecordUndo(c) \/ Finalize(c) \/ FinalizeFails(c) \/ Report(c)

Next == \E c \in Calls : Client(c) \/ NodeAccepts(c) \/ NodeFinishes(c)

Spec == Init /\ [][Next]_vars

\* The command keeps running: requests have a timeout of 30 s and sleeps end.
\* The node may never answer and a task may never stop.
FairSpec == Spec /\ \A c \in Calls : WF_vars(Client(c))

-----------------------------------------------------------------------------
(* Properties                                                              *)

\* The faults after which an error says less than what happened.
Misreporting == faults \cap {"cut", "warn"} # {}

\* The audit row tells what happened on the node, however late it happens: a
\* write audited ok was applied, and one audited as failed, or stopped by the
\* budget, never is, not even by a task still running (wait_for_task, settle,
\* _finalize: "unknown" is a verdict of its own).
\* The exceptions are a connection cut after the request was sent, and a task
\* that changed the guest and ended with a status other than OK.
RowTellsTruth ==
    \A c \in Calls : mode = "write" =>
        /\ row[c] = "ok" => effect[c] = "applied"
        /\ row[c] \in {"error", "budget_exceeded"} =>
               effect[c] \in {"none", "rejected"} \/ Misreporting

\* A token advertised as verified inverts a change that is really there, and
\* goes with a row that says ok: none for a preview, a failure or an outcome
\* nobody knows (_record_undo).
TokenTellsTruth ==
    \A c \in Calls : token[c] = "verified" =>
        /\ mode = "write"
        /\ effect[c] = "applied"
        /\ row[c] \in {"pending", "ok"}

\* The preview's row could not be appended.
Dropped(c) == mode = "preview" /\ row[c] = "none" /\ "audit" \in faults

\* A script and the audit trail are told the same thing: a success is a row of
\* ok, and a write whose outcome nobody knows is never told as a failure
\* (checked).  Where the change is made or may still be, a plain failure is
\* told only if the row could not be closed and stays pending (finish_write),
\* or the failure was misreported.  A preview may succeed without a row.
ExitAgreesWithRow ==
    \A c \in Calls :
        /\ exit[c] = 0 => row[c] = "ok" \/ Dropped(c)
        /\ exit[c] = 2 => row[c] = "unknown"
        /\ exit[c] = 1 /\ row[c] = "unknown" => mode = "preview"
        /\ exit[c] = 1 /\ effect[c] \in {"sent", "applied"} =>
               row[c] = "pending" \/ Misreporting

AppliedOnce ==
    \A c, d \in Calls : effect[c] = "applied" /\ effect[d] = "applied" => c = d

\* A script that repeats a write only when it is told that it failed applies
\* it at most once, whatever answers and probes are lost and however late the
\* node's task ends, if no connection is cut and storage works (checked).
NoDoubleApply == faults = {} => AppliedOnce

\* The same with every fault: what checked() promises to a script.
NoDoubleApplyAlways == AppliedOnce

\* The end-to-end call keeps the same write-ahead promise as the audit trail:
\* it is declared before it is sent, its record is closed once and for good,
\* and closed as ok only after the node has applied it.
WA == INSTANCE WriteAhead WITH
          Trusted <- Calls,
          record  <- [c \in Calls |-> IF mode = "write" THEN row[c] ELSE "none"],
          retired <- {}

KeepsPromise == WA!Spec

\* Every command ends, though the node may never answer, the task may never
\* stop and every probe may fail.
CallReturns == \A c \in Calls : pc[c] = "body" ~> pc[c] = "done"
=============================================================================
