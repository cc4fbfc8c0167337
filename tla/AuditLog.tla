------------------------------ MODULE AuditLog ------------------------------
(***************************************************************************)
(* The audit trail of governance/audit.py and the governed call of         *)
(* governance/decorators.py that writes to it.                             *)
(*                                                                         *)
(* Several processes (MCP servers, CLI commands) share one SQLite file.  A *)
(* governed write commits a "pending" row before its request may leave     *)
(* and resolves that row afterwards; a read or a preview appends one row   *)
(* when it is over.  Appending runs under a lock shared by all processes   *)
(* and may first rotate the file away; resolving does not take the lock.   *)
(* Storage may fail at any step, a process may crash at any step, and a    *)
(* call made from a terminal may be interrupted.                           *)
(*                                                                         *)
(* The lock is modelled for POSIX, where it spans processes.  A call with  *)
(* verdict "none" that appends is inserting its intent (strict mode); one  *)
(* with a verdict is inserting its final row.                              *)
(***************************************************************************)
EXTENDS Naturals, FiniteSets

CONSTANTS Calls,          \* governed tool calls, each made once
          Procs,          \* operating system processes
          ProcOf,         \* ProcOf[c]: the process that makes call c
          Writes,         \* calls with a risk level above low and no dry_run
          Interruptible,  \* calls a terminal's Ctrl-C can reach
          Crashable,      \* processes that may die in the middle of a call
          RotateAt,       \* rows at which the file is "over 100 MB"
          MaxArchives,    \* archives kept
          NoCall          \* the holder of a free lock

ASSUME ConstantsAssumption ==
    /\ ProcOf \in [Calls -> Procs]
    /\ Writes \subseteq Calls
    /\ Interruptible \subseteq Calls
    /\ Crashable \subseteq Procs
    /\ RotateAt \in Nat \ {0}
    /\ MaxArchives \in Nat
    /\ NoCall \notin Calls

VARIABLES pc,        \* pc[c]: where call c stands in the wrapper
          verdict,   \* verdict[c]: state.status once it is decided
          effect,    \* effect[c]: what became of c's mutating request
          status,    \* status[c]: the status column of c's row
          segment,   \* segment[c]: the database file c's row is in
          rowId,     \* rowId[c]: the id of c's row in that file
          live,      \* number of the file at the audit.db path
          rows,      \* rows inserted in that file (AUTOINCREMENT)
          table,     \* whether that file holds the audit_log table
          retained,  \* archived files not yet deleted
          guard,     \* holder of the rotation guard
          up,        \* up[p]: process p runs
          ok,        \* ok[p]: p's engine initialised (_ok)
          blocked    \* blocked[p]: _write_blocked

callVars == <<pc, verdict, effect>>
rowVars  == <<status, segment, rowId>>
fileVars == <<live, rows, table, retained>>
procVars == <<up, ok, blocked>>
vars     == <<callVars, rowVars, fileVars, guard, procVars>>

Verdicts == {"ok", "error", "unknown", "budget_exceeded"}

\* Points of a call inside the section the rotation guard protects.
Guarded == {"rotating", "renaming", "renamed", "inserting"}

\* Points of a call from its start to the end of its finally block.
Running == Guarded \cup {"begun", "locking", "body", "sent", "final"}

Trusted == Writes \ Interruptible

TypeOK ==
    /\ pc \in [Calls -> Running \cup {"idle", "done", "stuck", "dead"}]
    /\ verdict \in [Calls -> Verdicts \cup {"none"}]
    /\ effect \in [Calls -> {"none", "sent", "applied", "rejected"}]
    /\ status \in [Calls -> Verdicts \cup {"none", "pending"}]
    /\ segment \in [Calls -> Nat]
    /\ rowId \in [Calls -> Nat]
    /\ live \in Nat
    /\ rows \in Nat
    /\ table \in BOOLEAN
    /\ retained \subseteq {s \in Nat : s < live}
    /\ guard \in Calls \cup {NoCall}
    /\ up \in [Procs -> BOOLEAN]
    /\ ok \in [Procs -> BOOLEAN]
    /\ blocked \in [Procs -> BOOLEAN]

\* Nothing runs yet and there is no database.
Init ==
    /\ pc = [c \in Calls |-> "idle"]
    /\ verdict = [c \in Calls |-> "none"]
    /\ effect = [c \in Calls |-> "none"]
    /\ status = [c \in Calls |-> "none"]
    /\ segment = [c \in Calls |-> 0]
    /\ rowId = [c \in Calls |-> 0]
    /\ live = 0 /\ rows = 0 /\ table = FALSE /\ retained = {}
    /\ guard = NoCall
    /\ up = [p \in Procs |-> FALSE]
    /\ ok = [p \in Procs |-> FALSE]
    /\ blocked = [p \in Procs |-> FALSE]

Goto(c, l) == pc' = [pc EXCEPT ![c] = l]

Decide(c, v) ==
    /\ verdict' = [verdict EXCEPT ![c] = v]
    /\ Goto(c, "final")

-----------------------------------------------------------------------------
(* Processes                                                               *)

\* AuditEngine.__init__: create the table if it is missing; never raises.
StartProcess(p) ==
    /\ ~up[p]
    /\ up' = [up EXCEPT ![p] = TRUE]
    /\ blocked' = [blocked EXCEPT ![p] = FALSE]
    /\ \E initialised \in BOOLEAN :
          /\ ok' = [ok EXCEPT ![p] = initialised]
          /\ table' = (table \/ initialised)
    /\ UNCHANGED <<callVars, rowVars, live, rows, retained, guard>>

\* The process dies; the operating system drops its file lock.  A request
\* already on its way is not recalled.
CrashProcess(p) ==
    /\ up[p] /\ p \in Crashable
    /\ up' = [up EXCEPT ![p] = FALSE]
    /\ pc' = [c \in Calls |-> IF ProcOf[c] = p /\ pc[c] \in Running \cup {"stuck"}
                              THEN "dead" ELSE pc[c]]
    /\ guard' = IF guard \in Calls /\ ProcOf[guard] = p THEN NoCall ELSE guard
    /\ UNCHANGED <<verdict, effect, rowVars, fileVars, ok, blocked>>

-----------------------------------------------------------------------------
(* The governed call up to its body                                        *)

\* _pre_check: the budget may trip, which skips intent and body.
PreCheck(c) ==
    /\ pc[c] = "idle" /\ up[ProcOf[c]]
    /\ \/ Goto(c, "begun") /\ UNCHANGED verdict
       \/ Decide(c, "budget_exceeded")
    /\ UNCHANGED <<effect, rowVars, fileVars, guard, procVars>>

BeginRead(c) ==
    /\ pc[c] = "begun" /\ c \notin Writes
    /\ Goto(c, "body")
    /\ UNCHANGED <<verdict, effect, rowVars, fileVars, guard, procVars>>

\* begin_write and the head of log(strict=True): refuse, or go for the lock.
BeginWrite(c) ==
    LET p == ProcOf[c] IN
    /\ pc[c] = "begun" /\ c \in Writes
    /\ IF blocked[p] \/ ~ok[p]
       THEN /\ Decide(c, "error")
            /\ blocked' = [blocked EXCEPT ![p] = TRUE]
       ELSE Goto(c, "locking") /\ UNCHANGED <<verdict, blocked>>
    /\ UNCHANGED <<effect, rowVars, fileVars, guard, up, ok>>

-----------------------------------------------------------------------------
(* log(): rotation and insertion under the guard                           *)

\* Faulty: a lock that holds back the threads of one process only.
AcquireGuardPerProcess(c) ==
    /\ pc[c] = "locking" /\ (guard \in Calls => ProcOf[guard] # ProcOf[c])
    /\ guard' = c
    /\ Goto(c, "rotating")
    /\ UNCHANGED <<verdict, effect, rowVars, fileVars, procVars>>

AcquireGuard(c) ==
    /\ pc[c] = "locking" /\ guard = NoCall
    /\ guard' = c
    /\ Goto(c, "rotating")
    /\ UNCHANGED <<verdict, effect, rowVars, fileVars, procVars>>

\* A row of the live file that still awaits its outcome.
PendingInLive(c) == status[c] = "pending" /\ segment[c] = live

\* Faulty: rotation by size alone.
DecideRotationBySize(c) ==
    /\ pc[c] = "rotating"
    /\ \/ Goto(c, "inserting")
       \/ table /\ rows >= RotateAt /\ Goto(c, "renaming")
    /\ UNCHANGED <<verdict, effect, rowVars, fileVars, guard, procVars>>

\* The size test and the test that no intent is open; a failing probe or
\* checkpoint abandons the rotation and the row is appended all the same.
DecideRotation(c) ==
    /\ pc[c] = "rotating"
    /\ \/ Goto(c, "inserting")
       \/ /\ table /\ rows >= RotateAt
          /\ ~\E d \in Calls : PendingInLive(d)
          /\ Goto(c, "renaming")
    /\ UNCHANGED <<verdict, effect, rowVars, fileVars, guard, procVars>>

\* The file takes its archive name: nothing is left at the audit.db path.
RenameLive(c) ==
    /\ pc[c] = "renaming"
    /\ retained' = retained \cup {live}
    /\ live' = live + 1 /\ rows' = 0 /\ table' = FALSE
    /\ Goto(c, "renamed")
    /\ UNCHANGED <<verdict, effect, rowVars, guard, procVars>>

\* _init_db, then the oldest archives go.  A failure skips both, is logged
\* and swallowed.
InitLive(c) ==
    /\ pc[c] = "renamed"
    /\ \/ /\ table' = TRUE
          /\ retained' = {s \in retained : s + MaxArchives >= live}
       \/ UNCHANGED <<table, retained>>
    /\ Goto(c, "inserting")
    /\ UNCHANGED <<verdict, effect, rowVars, live, rows, guard, procVars>>

Strict(c) == verdict[c] = "none"

\* The commit that makes the row durable ends the guarded section.
InsertRow(c) ==
    /\ pc[c] = "inserting" /\ table
    /\ rows' = rows + 1
    /\ segment' = [segment EXCEPT ![c] = live]
    /\ rowId' = [rowId EXCEPT ![c] = rows + 1]
    /\ status' = [status EXCEPT ![c] = IF Strict(c) THEN "pending" ELSE verdict[c]]
    /\ Goto(c, IF Strict(c) THEN "body" ELSE "done")
    /\ guard' = NoCall
    /\ UNCHANGED <<verdict, effect, live, table, retained, procVars>>

\* Faulty variants of the actions below, used to test the properties.
InsertFailsIgnored(c) ==     \* the write goes ahead without its intent
    /\ pc[c] = "inserting"
    /\ guard' = NoCall
    /\ Goto(c, IF Strict(c) THEN "body" ELSE "done")
    /\ UNCHANGED <<verdict, effect, rowVars, fileVars, procVars>>

InsertFailsLocked(c) ==      \* the guard is not released on the error path
    /\ pc[c] = "inserting"
    /\ IF Strict(c)
       THEN /\ Decide(c, "error")
            /\ blocked' = [blocked EXCEPT ![ProcOf[c]] = TRUE]
       ELSE Goto(c, "done") /\ UNCHANGED <<verdict, blocked>>
    /\ UNCHANGED <<effect, rowVars, fileVars, guard, up, ok>>

\* No row.  In strict mode the process stops writing and the call ends with
\* AuditUnavailable, which _capture_error turns into an error verdict.
InsertFails(c) ==
    /\ pc[c] = "inserting"
    /\ guard' = NoCall
    /\ IF Strict(c)
       THEN /\ Decide(c, "error")
            /\ blocked' = [blocked EXCEPT ![ProcOf[c]] = TRUE]
       ELSE Goto(c, "done") /\ UNCHANGED <<verdict, blocked>>
    /\ UNCHANGED <<effect, rowVars, fileVars, up, ok>>

-----------------------------------------------------------------------------
(* The body of the call, and the node it talks to                          *)

\* A read or a preview ends, well or badly, with no intent behind it.
ReadBody(c) ==
    /\ pc[c] = "body" /\ c \notin Writes
    /\ \E v \in {"ok", "error", "unknown"} : Decide(c, v)
    /\ UNCHANGED <<effect, rowVars, fileVars, guard, procVars>>

\* A write ends before its mutating request: refused by a guard of the
\* operation, or a read it depends on failed or timed out.
RefuseBody(c) ==
    /\ pc[c] = "body" /\ c \in Writes
    /\ \E v \in {"error", "unknown"} : Decide(c, v)
    /\ UNCHANGED <<effect, rowVars, fileVars, guard, procVars>>

SendRequest(c) ==
    /\ pc[c] = "body" /\ c \in Writes
    /\ effect' = [effect EXCEPT ![c] = "sent"]
    /\ Goto(c, "sent")
    /\ UNCHANGED <<verdict, rowVars, fileVars, guard, procVars>>

\* The node applies the request or refuses it, whether or not the caller is
\* still there to hear of it.
NodeDecides(c) ==
    /\ effect[c] = "sent"
    /\ \E e \in {"applied", "rejected"} : effect' = [effect EXCEPT ![c] = e]
    /\ UNCHANGED <<pc, verdict, rowVars, fileVars, guard, procVars>>

\* Faulty: the task id the node answers with is taken for success.
ConclusionsFromUpid(c) == {"unknown", "error", "ok"}

\* What the wrapper concludes: the node's answer; "unknown" when the answer
\* was lost or the task did not finish in time; and "error" when the
\* connection was cut, which tool_errors does not tell from one never made.
Conclusions(c) ==
    {"unknown", "error"} \cup (IF effect[c] = "applied" THEN {"ok"} ELSE {})

Conclude(c) ==
    /\ pc[c] = "sent"
    /\ \E v \in Conclusions(c) : Decide(c, v)
    /\ UNCHANGED <<effect, rowVars, fileVars, guard, procVars>>

\* KeyboardInterrupt passes "except Exception": state.status is still the
\* "ok" it was created with when the finally block reads it.
Interrupt(c) ==
    /\ c \in Interruptible
    /\ pc[c] \in Running /\ verdict[c] = "none"
    /\ Decide(c, "ok")
    /\ guard' = IF guard = c THEN NoCall ELSE guard
    /\ UNCHANGED <<effect, rowVars, fileVars, procVars>>

-----------------------------------------------------------------------------
(* _finalize                                                               *)

\* The rows UPDATE ... WHERE id = ? AND status = 'pending' selects.
Selected(c) == {d \in Calls : PendingInLive(d) /\ rowId[d] = rowId[c]}

HasIntent(c) == status[c] # "none"

FinishWrite(c) ==
    /\ pc[c] = "final" /\ HasIntent(c)
    /\ table /\ Selected(c) # {}
    /\ status' = [d \in Calls |-> IF d \in Selected(c) THEN verdict[c] ELSE status[d]]
    /\ Goto(c, "done")
    /\ UNCHANGED <<verdict, effect, segment, rowId, fileVars, guard, procVars>>

\* Faulty: a failed resolution leaves the process writing.
FinishFailsQuietly(c) ==
    /\ pc[c] = "final" /\ HasIntent(c)
    /\ Goto(c, "stuck")
    /\ UNCHANGED <<verdict, effect, rowVars, fileVars, guard, procVars>>

\* The row stays as it is, the process writes no more, AuditUnavailable.
FinishFails(c) ==
    /\ pc[c] = "final" /\ HasIntent(c)
    /\ blocked' = [blocked EXCEPT ![ProcOf[c]] = TRUE]
    /\ Goto(c, "stuck")
    /\ UNCHANGED <<verdict, effect, rowVars, fileVars, guard, up, ok>>

\* A call with no intent appends its only row, if the engine has a file.
LogFinal(c) ==
    /\ pc[c] = "final" /\ ~HasIntent(c)
    /\ Goto(c, IF ok[ProcOf[c]] THEN "locking" ELSE "done")
    /\ UNCHANGED <<verdict, effect, rowVars, fileVars, guard, procVars>>

\* Faulty: reconciliation of whatever is pending, its call running or not.
ReconcileAny(c) ==
    /\ table /\ PendingInLive(c)
    /\ status' = [status EXCEPT ![c] = "unknown"]
    /\ UNCHANGED <<callVars, segment, rowId, fileVars, guard, procVars>>

\* reconcile_pending: an operator who has made sure that the call is over
\* and its request can no longer be sent closes the row it left open.
Reconcile(c) ==
    /\ pc[c] \in {"stuck", "dead"}
    /\ table /\ PendingInLive(c)
    /\ status' = [status EXCEPT ![c] = "unknown"]
    /\ UNCHANGED <<callVars, segment, rowId, fileVars, guard, procVars>>

-----------------------------------------------------------------------------
\* The steps of the process that makes call c.
Progress(c) ==
    \/ BeginRead(c) \/ BeginWrite(c)
    \/ AcquireGuard(c) \/ DecideRotation(c) \/ RenameLive(c) \/ InitLive(c)
    \/ InsertRow(c) \/ InsertFails(c)
    \/ ReadBody(c) \/ RefuseBody(c) \/ SendRequest(c) \/ Conclude(c)
    \/ FinishWrite(c) \/ FinishFails(c) \/ LogFinal(c)

Next ==
    \/ \E p \in Procs : StartProcess(p) \/ CrashProcess(p)
    \/ \E c \in Calls : PreCheck(c) \/ NodeDecides(c) \/ Interrupt(c) \/ Reconcile(c)
    \/ \E c \in Calls : Progress(c)

Spec == Init /\ [][Next]_vars

\* A process that runs keeps running its code.  Nothing is assumed of the
\* node, of crashes and restarts, of the operator or of the keyboard.
FairSpec == Spec /\ \A c \in Calls : WF_vars(Progress(c))

-----------------------------------------------------------------------------
(* Properties                                                              *)

\* health()["available"] for a process that runs.
Available(p) == ok[p] /\ table /\ ~blocked[p]

\* No request leaves before a committed row says it may: however insertion,
\* rotation, faults and crashes interleave, a call whose mutating request was
\* sent has a row (begin_write precedes the body).
IntentPrecedesEffect ==
    \A c \in Calls : effect[c] # "none" => c \in Writes /\ status[c] # "none"

\* An open intent is never rotated out of sight: its row is in the file at
\* the audit.db path, where finish_write, health and the operator look for
\* it (_maybe_rotate against begin_write and finish_write of other processes).
PendingStaysLive ==
    \A c \in Calls : status[c] = "pending" => table /\ PendingInLive(c)

\* A resolved row states the verdict of the call that opened it, never that
\* of another call that found the same id in a new file; the one exception is
\* the operator's "unknown" on a call that ended without resolving its row.
RowsAreOwn ==
    \A c \in Calls : status[c] \in Verdicts =>
        \/ status[c] = verdict[c]
        \/ status[c] = "unknown" /\ pc[c] \in {"stuck", "dead"}

\* An intent whose call is over is never silent: the call crashed or failed to
\* resolve it, the row is counted by health(), and a process that failed to
\* resolve it and still runs reports itself unavailable.
OrphansAreAlarmed ==
    \A c \in Calls : status[c] = "pending" /\ pc[c] \notin Running =>
        /\ pc[c] \in {"stuck", "dead"}
        /\ PendingInLive(c)
        /\ pc[c] = "stuck" => ~Available(ProcOf[c])

\* The trail claims success only for what the node applied, for every write
\* that no interrupt can reach (_task.py: a UPID is not success).
OkMeansApplied ==
    \A c \in Trusted : status[c] = "ok" => effect[c] = "applied"

\* The same for every write that sent its request: a call that did not fail or
\* time out, and that a Ctrl-C cut short while its task ran, is not audited as a
\* success.
OkMeansAppliedAlways ==
    \A c \in Writes : status[c] = "ok" /\ effect[c] # "none" => effect[c] = "applied"

\* The database, its rotation and the lock implement the write-ahead promise:
\* a row is declared, closed once and only then moved out of the live file,
\* and no request leaves once its row is closed.
WA == INSTANCE WriteAhead WITH
          record  <- status,
          retired <- {c \in Calls : status[c] # "none" /\ segment[c] # live}

WriteAheadSpec == WA!Spec

\* Every call ends, or its process does: nothing waits for the guard forever,
\* whatever storage does to the one that holds it.
CallsEnd ==
    \A c \in Calls : pc[c] = "begun" ~> pc[c] \in {"done", "stuck", "dead"}
=============================================================================
