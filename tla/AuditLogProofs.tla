--------------------------- MODULE AuditLogProofs ---------------------------
(***************************************************************************)
(* Proofs about AuditLog for any number of calls, processes and rows.      *)
(***************************************************************************)
EXTENDS AuditLog, TLAPS

\* The guard is held exactly while its holder is inside the section.
GuardInv == \A c \in Calls : pc[c] \in Guarded <=> guard = c

\* A row's place: in a file that exists, under an id that file has given out.
PlaceInv ==
    \A c \in Calls : status[c] # "none" =>
        /\ segment[c] <= live
        /\ segment[c] = live => rowId[c] <= rows

\* Two rows of one file have two ids.
IdInv ==
    \A c, d \in Calls :
        status[c] # "none" /\ status[d] # "none" /\ segment[c] = segment[d]
            /\ rowId[c] = rowId[d] => c = d

\* No rotation is past its point of no return while an intent is open.
RotationInv ==
    (\E c \in Calls : status[c] = "pending") =>
        \A d \in Calls : pc[d] \notin {"renaming", "renamed"}

\* How far a call is, and what that says of its verdict, request and row.
StageInv(c) ==
    /\ pc[c] \in {"idle", "begun"} => verdict[c] = "none" /\ status[c] = "none"
    /\ pc[c] \in Guarded \cup {"locking"} =>
          status[c] = "none" /\ (verdict[c] = "none" => c \in Writes)
    /\ pc[c] = "body" =>
          verdict[c] = "none" /\ effect[c] = "none"
            /\ status[c] = (IF c \in Writes THEN "pending" ELSE "none")
    /\ pc[c] = "sent" => verdict[c] = "none" /\ c \in Writes /\ status[c] = "pending"
    /\ pc[c] = "final" => verdict[c] # "none" /\ status[c] \in {"none", "pending"}
    /\ status[c] = "pending" =>
          pc[c] \in {"body", "sent", "final", "stuck", "dead"}
    /\ pc[c] \in Running \cup {"stuck"} => up[ProcOf[c]]
    /\ pc[c] = "stuck" => blocked[ProcOf[c]]
    /\ c \in Trusted /\ verdict[c] = "ok" => effect[c] = "applied"
    /\ c \in Trusted /\ status[c] = "ok" => effect[c] = "applied"

StagesInv == \A c \in Calls : StageInv(c)

IInv ==
    /\ TypeOK
    /\ GuardInv
    /\ PlaceInv
    /\ IdInv
    /\ RotationInv
    /\ StagesInv
    /\ IntentPrecedesEffect
    /\ PendingStaysLive
    /\ RowsAreOwn

-----------------------------------------------------------------------------
USE DEF Verdicts, Guarded, Running, Trusted

LEMMA InitInv == Init => IInv
<1> SUFFICES ASSUME Init PROVE IInv
  OBVIOUS
<1>1. TypeOK
  BY ConstantsAssumption DEF Init, TypeOK
<1>2. GuardInv /\ StagesInv
  BY ConstantsAssumption DEF Init, GuardInv, StagesInv, StageInv
<1>3. PlaceInv /\ IdInv /\ RotationInv
  BY DEF Init, PlaceInv, IdInv, RotationInv
<1>4. IntentPrecedesEffect /\ PendingStaysLive /\ RowsAreOwn
  BY DEF Init, IntentPrecedesEffect, PendingStaysLive, RowsAreOwn
<1>5. QED
  BY <1>1, <1>2, <1>3, <1>4 DEF IInv

LEMMA BeginWriteInv == ASSUME IInv, NEW c \in Calls, BeginWrite(c) PROVE IInv'
<1> USE ConstantsAssumption DEF BeginWrite, Goto, Decide, callVars, rowVars, fileVars, procVars, IInv
<1>1. TypeOK'
  BY DEF TypeOK
<1>2. GuardInv'
  BY DEF TypeOK, GuardInv
<1>3. PlaceInv' /\ IdInv'
  BY DEF TypeOK, PlaceInv, IdInv
<1>4. RotationInv'
  BY DEF TypeOK, GuardInv, RotationInv, StagesInv, StageInv
<1>5. StagesInv'
  BY DEF TypeOK, StagesInv, StageInv, Strict, HasIntent
<1>6. IntentPrecedesEffect' /\ PendingStaysLive' /\ RowsAreOwn'
  BY DEF TypeOK, GuardInv, RotationInv, StagesInv, StageInv, IntentPrecedesEffect,
         PendingStaysLive, RowsAreOwn, PendingInLive, Strict, HasIntent
<1>7. QED
  BY <1>1, <1>2, <1>3, <1>4, <1>5, <1>6

LEMMA RenameLiveInv == ASSUME IInv, NEW c \in Calls, RenameLive(c) PROVE IInv'
<1> USE ConstantsAssumption DEF RenameLive, Goto, Decide, callVars, rowVars, fileVars, procVars, IInv
<1>1. TypeOK'
  <2>0. live \in Nat /\ retained \subseteq {s \in Nat : s < live}
    BY DEF TypeOK
  <2>1. retained' \subseteq {s \in Nat : s < live'}
    BY <2>0
  <2>2. live' \in Nat /\ rows' \in Nat
    BY <2>0
  <2>3. pc' \in [Calls -> Running \cup {"idle", "done", "stuck", "dead"}]
    BY DEF TypeOK
  <2>4. QED
    BY <2>1, <2>2, <2>3 DEF TypeOK
<1>2. GuardInv'
  BY DEF TypeOK, GuardInv
<1>3. PlaceInv' /\ IdInv'
  BY DEF TypeOK, PlaceInv, IdInv
<1>4. RotationInv'
  BY DEF TypeOK, GuardInv, RotationInv, StagesInv, StageInv
<1>5. StagesInv'
  BY DEF TypeOK, StagesInv, StageInv, Strict, HasIntent
<1>6. IntentPrecedesEffect' /\ PendingStaysLive' /\ RowsAreOwn'
  BY DEF TypeOK, GuardInv, RotationInv, StagesInv, StageInv, IntentPrecedesEffect,
         PendingStaysLive, RowsAreOwn, PendingInLive, Strict, HasIntent
<1>7. QED
  BY <1>1, <1>2, <1>3, <1>4, <1>5, <1>6

LEMMA InitLiveInv == ASSUME IInv, NEW c \in Calls, InitLive(c) PROVE IInv'
<1> USE ConstantsAssumption DEF InitLive, Goto, Decide, callVars, rowVars, fileVars, procVars, IInv
<1>1. TypeOK'
  BY DEF TypeOK
<1>2. GuardInv'
  BY DEF TypeOK, GuardInv
<1>3. PlaceInv' /\ IdInv'
  BY DEF TypeOK, PlaceInv, IdInv
<1>4. RotationInv'
  BY DEF TypeOK, GuardInv, RotationInv, StagesInv, StageInv
<1>5. StagesInv'
  BY DEF TypeOK, StagesInv, StageInv, Strict, HasIntent
<1>6. IntentPrecedesEffect' /\ PendingStaysLive' /\ RowsAreOwn'
  BY DEF TypeOK, GuardInv, RotationInv, StagesInv, StageInv, IntentPrecedesEffect,
         PendingStaysLive, RowsAreOwn, PendingInLive, Strict, HasIntent
<1>7. QED
  BY <1>1, <1>2, <1>3, <1>4, <1>5, <1>6

LEMMA InsertFailsInv == ASSUME IInv, NEW c \in Calls, InsertFails(c) PROVE IInv'
<1> USE ConstantsAssumption DEF InsertFails, Goto, Decide, callVars, rowVars, fileVars, procVars, IInv
<1>1. TypeOK'
  BY DEF TypeOK
<1>2. GuardInv'
  BY DEF TypeOK, GuardInv
<1>3. PlaceInv' /\ IdInv'
  BY DEF TypeOK, PlaceInv, IdInv
<1>4. RotationInv'
  BY DEF TypeOK, GuardInv, RotationInv, StagesInv, StageInv
<1>5. StagesInv'
  BY DEF TypeOK, StagesInv, StageInv, Strict, HasIntent
<1>6. IntentPrecedesEffect' /\ PendingStaysLive' /\ RowsAreOwn'
  BY DEF TypeOK, GuardInv, RotationInv, StagesInv, StageInv, IntentPrecedesEffect,
         PendingStaysLive, RowsAreOwn, PendingInLive, Strict, HasIntent
<1>7. QED
  BY <1>1, <1>2, <1>3, <1>4, <1>5, <1>6

LEMMA FinishFailsInv == ASSUME IInv, NEW c \in Calls, FinishFails(c) PROVE IInv'
<1> USE ConstantsAssumption DEF FinishFails, Goto, Decide, callVars, rowVars, fileVars, procVars, IInv
<1>1. TypeOK'
  BY DEF TypeOK
<1>2. GuardInv'
  BY DEF TypeOK, GuardInv
<1>3. PlaceInv' /\ IdInv'
  BY DEF TypeOK, PlaceInv, IdInv
<1>4. RotationInv'
  BY DEF TypeOK, GuardInv, RotationInv, StagesInv, StageInv
<1>5. StagesInv'
  BY DEF TypeOK, StagesInv, StageInv, Strict, HasIntent
<1>6. IntentPrecedesEffect' /\ PendingStaysLive' /\ RowsAreOwn'
  BY DEF TypeOK, GuardInv, RotationInv, StagesInv, StageInv, IntentPrecedesEffect,
         PendingStaysLive, RowsAreOwn, PendingInLive, Strict, HasIntent
<1>7. QED
  BY <1>1, <1>2, <1>3, <1>4, <1>5, <1>6

LEMMA StartProcessInv == ASSUME IInv, NEW p \in Procs, StartProcess(p) PROVE IInv'
BY ConstantsAssumption
   DEF StartProcess, Goto, Decide, IInv, TypeOK, GuardInv, PlaceInv, IdInv, RotationInv, StagesInv, StageInv,
       IntentPrecedesEffect, PendingStaysLive, RowsAreOwn, PendingInLive, Strict, HasIntent, Selected, Conclusions,
       callVars, rowVars, fileVars, procVars

LEMMA CrashProcessInv == ASSUME IInv, NEW p \in Procs, CrashProcess(p) PROVE IInv'
BY ConstantsAssumption
   DEF CrashProcess, Goto, Decide, IInv, TypeOK, GuardInv, PlaceInv, IdInv, RotationInv, StagesInv, StageInv,
       IntentPrecedesEffect, PendingStaysLive, RowsAreOwn, PendingInLive, Strict, HasIntent, Selected, Conclusions,
       callVars, rowVars, fileVars, procVars

LEMMA PreCheckInv == ASSUME IInv, NEW c \in Calls, PreCheck(c) PROVE IInv'
BY ConstantsAssumption
   DEF PreCheck, Goto, Decide, IInv, TypeOK, GuardInv, PlaceInv, IdInv, RotationInv, StagesInv, StageInv,
       IntentPrecedesEffect, PendingStaysLive, RowsAreOwn, PendingInLive, Strict, HasIntent, Selected, Conclusions,
       callVars, rowVars, fileVars, procVars

LEMMA NodeDecidesInv == ASSUME IInv, NEW c \in Calls, NodeDecides(c) PROVE IInv'
BY ConstantsAssumption
   DEF NodeDecides, Goto, Decide, IInv, TypeOK, GuardInv, PlaceInv, IdInv, RotationInv, StagesInv, StageInv,
       IntentPrecedesEffect, PendingStaysLive, RowsAreOwn, PendingInLive, Strict, HasIntent, Selected, Conclusions,
       callVars, rowVars, fileVars, procVars

LEMMA InterruptInv == ASSUME IInv, NEW c \in Calls, Interrupt(c) PROVE IInv'
BY ConstantsAssumption
   DEF Interrupt, Goto, Decide, IInv, TypeOK, GuardInv, PlaceInv, IdInv, RotationInv, StagesInv, StageInv,
       IntentPrecedesEffect, PendingStaysLive, RowsAreOwn, PendingInLive, Strict, HasIntent, Selected, Conclusions,
       callVars, rowVars, fileVars, procVars

LEMMA ReconcileInv == ASSUME IInv, NEW c \in Calls, Reconcile(c) PROVE IInv'
BY ConstantsAssumption
   DEF Reconcile, Goto, Decide, IInv, TypeOK, GuardInv, PlaceInv, IdInv, RotationInv, StagesInv, StageInv,
       IntentPrecedesEffect, PendingStaysLive, RowsAreOwn, PendingInLive, Strict, HasIntent, Selected, Conclusions,
       callVars, rowVars, fileVars, procVars

LEMMA BeginReadInv == ASSUME IInv, NEW c \in Calls, BeginRead(c) PROVE IInv'
BY ConstantsAssumption
   DEF BeginRead, Goto, Decide, callVars, rowVars, fileVars, procVars,
       IInv, TypeOK, GuardInv, PlaceInv, IdInv, RotationInv, StagesInv, StageInv,
       IntentPrecedesEffect, PendingStaysLive, RowsAreOwn, PendingInLive

LEMMA AcquireGuardInv == ASSUME IInv, NEW c \in Calls, AcquireGuard(c) PROVE IInv'
BY ConstantsAssumption
   DEF AcquireGuard, Goto, Decide, callVars, rowVars, fileVars, procVars,
       IInv, TypeOK, GuardInv, PlaceInv, IdInv, RotationInv, StagesInv, StageInv,
       IntentPrecedesEffect, PendingStaysLive, RowsAreOwn, PendingInLive

LEMMA DecideRotationInv == ASSUME IInv, NEW c \in Calls, DecideRotation(c) PROVE IInv'
BY ConstantsAssumption
   DEF DecideRotation, Goto, Decide, callVars, rowVars, fileVars, procVars,
       IInv, TypeOK, GuardInv, PlaceInv, IdInv, RotationInv, StagesInv, StageInv,
       IntentPrecedesEffect, PendingStaysLive, RowsAreOwn, PendingInLive

LEMMA InsertRowInv == ASSUME IInv, NEW c \in Calls, InsertRow(c) PROVE IInv'
BY ConstantsAssumption
   DEF InsertRow, Goto, Decide, Strict, callVars, rowVars, fileVars, procVars,
       IInv, TypeOK, GuardInv, PlaceInv, IdInv, RotationInv, StagesInv, StageInv,
       IntentPrecedesEffect, PendingStaysLive, RowsAreOwn, PendingInLive

LEMMA ReadBodyInv == ASSUME IInv, NEW c \in Calls, ReadBody(c) PROVE IInv'
BY ConstantsAssumption
   DEF ReadBody, Goto, Decide, callVars, rowVars, fileVars, procVars,
       IInv, TypeOK, GuardInv, PlaceInv, IdInv, RotationInv, StagesInv, StageInv,
       IntentPrecedesEffect, PendingStaysLive, RowsAreOwn, PendingInLive

LEMMA RefuseBodyInv == ASSUME IInv, NEW c \in Calls, RefuseBody(c) PROVE IInv'
BY ConstantsAssumption
   DEF RefuseBody, Goto, Decide, callVars, rowVars, fileVars, procVars,
       IInv, TypeOK, GuardInv, PlaceInv, IdInv, RotationInv, StagesInv, StageInv,
       IntentPrecedesEffect, PendingStaysLive, RowsAreOwn, PendingInLive

LEMMA SendRequestInv == ASSUME IInv, NEW c \in Calls, SendRequest(c) PROVE IInv'
BY ConstantsAssumption
   DEF SendRequest, Goto, Decide, callVars, rowVars, fileVars, procVars,
       IInv, TypeOK, GuardInv, PlaceInv, IdInv, RotationInv, StagesInv, StageInv,
       IntentPrecedesEffect, PendingStaysLive, RowsAreOwn, PendingInLive

LEMMA ConcludeInv == ASSUME IInv, NEW c \in Calls, Conclude(c) PROVE IInv'
BY ConstantsAssumption
   DEF Conclude, Goto, Decide, Conclusions, callVars, rowVars, fileVars, procVars,
       IInv, TypeOK, GuardInv, PlaceInv, IdInv, RotationInv, StagesInv, StageInv,
       IntentPrecedesEffect, PendingStaysLive, RowsAreOwn, PendingInLive

LEMMA FinishWriteInv == ASSUME IInv, NEW c \in Calls, FinishWrite(c) PROVE IInv'
BY ConstantsAssumption
   DEF FinishWrite, Goto, Decide, HasIntent, Selected, callVars, rowVars, fileVars, procVars,
       IInv, TypeOK, GuardInv, PlaceInv, IdInv, RotationInv, StagesInv, StageInv,
       IntentPrecedesEffect, PendingStaysLive, RowsAreOwn, PendingInLive

LEMMA LogFinalInv == ASSUME IInv, NEW c \in Calls, LogFinal(c) PROVE IInv'
BY ConstantsAssumption
   DEF LogFinal, Goto, Decide, HasIntent, callVars, rowVars, fileVars, procVars,
       IInv, TypeOK, GuardInv, PlaceInv, IdInv, RotationInv, StagesInv, StageInv,
       IntentPrecedesEffect, PendingStaysLive, RowsAreOwn, PendingInLive

\* Every step keeps the invariant: one case per action, one lemma per case.
LEMMA StepInv == IInv /\ [Next]_vars => IInv'
<1> SUFFICES ASSUME IInv, [Next]_vars PROVE IInv'
  OBVIOUS
<1>1. CASE UNCHANGED vars
  BY <1>1 DEF vars, callVars, rowVars, fileVars, procVars, IInv, TypeOK, GuardInv, PlaceInv,
              IdInv, RotationInv, StagesInv, StageInv, IntentPrecedesEffect,
              PendingStaysLive, RowsAreOwn, PendingInLive
<1>2. ASSUME NEW p \in Procs, StartProcess(p) \/ CrashProcess(p) PROVE IInv'
  BY <1>2, StartProcessInv, CrashProcessInv
<1>3. ASSUME NEW c \in Calls, PreCheck(c) \/ NodeDecides(c) \/ Interrupt(c) \/ Reconcile(c)
      PROVE IInv'
  BY <1>3, PreCheckInv, NodeDecidesInv, InterruptInv, ReconcileInv
<1>4. ASSUME NEW c \in Calls, Progress(c) PROVE IInv'
  <2>1. CASE BeginRead(c)
    BY <2>1, BeginReadInv
  <2>2. CASE BeginWrite(c)
    BY <2>2, BeginWriteInv
  <2>3. CASE AcquireGuard(c)
    BY <2>3, AcquireGuardInv
  <2>4. CASE DecideRotation(c)
    BY <2>4, DecideRotationInv
  <2>5. CASE RenameLive(c)
    BY <2>5, RenameLiveInv
  <2>6. CASE InitLive(c)
    BY <2>6, InitLiveInv
  <2>7. CASE InsertRow(c)
    BY <2>7, InsertRowInv
  <2>8. CASE InsertFails(c)
    BY <2>8, InsertFailsInv
  <2>9. CASE ReadBody(c)
    BY <2>9, ReadBodyInv
  <2>10. CASE RefuseBody(c)
    BY <2>10, RefuseBodyInv
  <2>11. CASE SendRequest(c)
    BY <2>11, SendRequestInv
  <2>12. CASE Conclude(c)
    BY <2>12, ConcludeInv
  <2>13. CASE FinishWrite(c)
    BY <2>13, FinishWriteInv
  <2>14. CASE FinishFails(c)
    BY <2>14, FinishFailsInv
  <2>15. CASE LogFinal(c)
    BY <2>15, LogFinalInv
  <2> QED
    BY <1>4, <2>1, <2>2, <2>3, <2>4, <2>5, <2>6, <2>7, <2>8, <2>9, <2>10, <2>11, <2>12, <2>13, <2>14, <2>15 DEF Progress
<1>5. QED
  BY <1>1, <1>2, <1>3, <1>4 DEF Next

\* IInv, the inductive strengthening of the properties below, always holds.
THEOREM Invariance == Spec => []IInv
<1>1. QED
  BY InitInv, StepInv, PTL DEF Spec

\* Every variable keeps its type: call stages, verdicts, row columns, lock.
THEOREM TypeCorrect == Spec => []TypeOK
<1>1. IInv => TypeOK
  BY DEF IInv
<1>2. QED
  BY <1>1, Invariance, PTL

\* begin_write before the body: no request is ever sent without its row.
THEOREM IntentFirst == Spec => []IntentPrecedesEffect
<1>1. IInv => IntentPrecedesEffect
  BY DEF IInv
<1>2. QED
  BY <1>1, Invariance, PTL

\* _maybe_rotate never takes an open intent away from finish_write.
THEOREM PendingNeverRotated == Spec => []PendingStaysLive
<1>1. IInv => PendingStaysLive
  BY DEF IInv
<1>2. QED
  BY <1>1, Invariance, PTL

\* finish_write resolves the row of its own call, whatever ids are reused.
THEOREM OwnRowsOnly == Spec => []RowsAreOwn
<1>1. IInv => RowsAreOwn
  BY DEF IInv
<1>2. QED
  BY <1>1, Invariance, PTL

\* An intent left open by a call that is over is visible, and the process that
\* failed to close it reports itself unavailable.
THEOREM NoSilentOrphans == Spec => []OrphansAreAlarmed
<1>1. IInv => OrphansAreAlarmed
  BY DEF IInv, OrphansAreAlarmed, StagesInv, StageInv, PendingStaysLive, Available
<1>2. QED
  BY <1>1, Invariance, PTL

\* An "ok" row of a write no interrupt can reach was applied by the node.
THEOREM SuccessIsConfirmed == Spec => []OkMeansApplied
<1>1. IInv => OkMeansApplied
  BY ConstantsAssumption DEF IInv, OkMeansApplied, StagesInv, StageInv
<1>2. QED
  BY <1>1, Invariance, PTL

-----------------------------------------------------------------------------
(* The refinement: AuditLog implements WriteAhead.                         *)

Retired == {c \in Calls : status[c] # "none" /\ segment[c] # live}

LEMMA InitRefines == Init => WA!Init
BY DEF Init, WA!Init

\* What each step is in the abstract specification.
LEMMA StepRefines == ASSUME IInv, IInv', [Next]_vars PROVE [WA!Next]_(WA!vars)
<1> USE DEF callVars, rowVars, fileVars, procVars, Goto, Decide
<1> DEFINE Same == UNCHANGED <<status, effect>> /\ Retired' = Retired
<1>0. TypeOK
  BY DEF IInv
<1>1. Same => [WA!Next]_(WA!vars)
  BY DEF Retired, WA!vars
<1>2. CASE UNCHANGED vars
  BY <1>1, <1>2 DEF vars, Retired
<1>3. ASSUME NEW p \in Procs, StartProcess(p) \/ CrashProcess(p) PROVE Same
  BY <1>3 DEF StartProcess, CrashProcess, Retired
<1>4. ASSUME NEW c \in Calls, PreCheck(c) \/ Interrupt(c) PROVE Same
  BY <1>4 DEF PreCheck, Interrupt, Retired
<1>5. ASSUME NEW c \in Calls, NodeDecides(c) PROVE WA!Settle(c)
  BY <1>5 DEF NodeDecides, WA!Settle
<1>6. ASSUME NEW c \in Calls, Reconcile(c) PROVE WA!Close(c, "unknown")
  BY <1>6, <1>0 DEF Reconcile, PendingInLive, TypeOK, WA!Close
<1>7. ASSUME NEW c \in Calls,
             \/ BeginRead(c) \/ BeginWrite(c) \/ AcquireGuard(c) \/ DecideRotation(c)
             \/ InitLive(c) \/ InsertFails(c) \/ ReadBody(c) \/ RefuseBody(c)
             \/ Conclude(c) \/ FinishFails(c) \/ LogFinal(c)
      PROVE Same
  BY <1>7 DEF BeginRead, BeginWrite, AcquireGuard, DecideRotation, InitLive, InsertFails,
              ReadBody, RefuseBody, Conclude, FinishFails, LogFinal, Retired
<1>8. ASSUME NEW c \in Calls, SendRequest(c) PROVE WA!Perform(c)
  BY <1>8, <1>0 DEF SendRequest, IInv, StagesInv, StageInv, WA!Perform
<1>9. ASSUME NEW c \in Calls, RenameLive(c)
      PROVE WA!Retire({d \in Calls : status[d] # "none"})
  BY <1>9, <1>0 DEF RenameLive, IInv, TypeOK, PlaceInv, GuardInv, RotationInv, WA!Retire, WA!Verdicts
<1>10. ASSUME NEW c \in Calls, InsertRow(c)
       PROVE WA!Declare(c) \/ (WA!Close(c, verdict[c]) /\ verdict[c] # "none")
  <2>1. status[c] = "none" /\ effect[c] = "none"
    BY <1>10 DEF InsertRow, IInv, StagesInv, StageInv, IntentPrecedesEffect
  <2>2. Retired' = Retired
    BY <1>10, <1>0, <2>1 DEF InsertRow, Retired, TypeOK
  <2>3. CASE Strict(c)
    BY <1>10, <2>1, <2>2, <2>3 DEF InsertRow, Retired, WA!Declare
  <2>4. CASE ~Strict(c)
    BY <1>10, <2>1, <2>2, <2>4 DEF InsertRow, Strict, Retired, IInv, StagesInv, StageInv, WA!Close
  <2>5. QED
    BY <2>3, <2>4
<1>11. ASSUME NEW c \in Calls, FinishWrite(c)
       PROVE WA!Close(c, verdict[c])
  <2>1. status[c] = "pending"
    BY <1>11 DEF FinishWrite, HasIntent, IInv, StagesInv, StageInv
  <2>2. Selected(c) = {c}
    BY <1>11, <2>1 DEF FinishWrite, Selected, PendingInLive, IInv, IdInv, PendingStaysLive
  <2>3. status' = [status EXCEPT ![c] = verdict[c]]
    BY <1>11, <1>0, <2>2 DEF FinishWrite, TypeOK
  <2>4. verdict[c] # "none" /\ (c \in Trusted /\ verdict[c] = "ok" => effect[c] = "applied")
    BY <1>11 DEF FinishWrite, IInv, StagesInv, StageInv
  <2>5. Retired' = Retired
    BY <1>11, <1>0, <2>1, <2>3, <2>4 DEF FinishWrite, Retired, TypeOK
  <2>6. QED
    BY <1>11, <2>1, <2>3, <2>4, <2>5 DEF FinishWrite, Retired, WA!Close
<1>12. ASSUME NEW c \in Calls, Progress(c) PROVE [WA!Next]_(WA!vars)
  <2>1. verdict[c] # "none" => verdict[c] \in WA!Verdicts
    BY <1>0 DEF TypeOK, WA!Verdicts
  <2>2. CASE SendRequest(c)
    <3>1. WA!Perform(c)
      BY <1>8, <2>2
    <3>2. QED
      BY <3>1 DEF WA!Next
  <2>3. CASE RenameLive(c)
    <3>1. PICK S \in SUBSET Calls : S = {d \in Calls : status[d] # "none"}
      OBVIOUS
    <3>2. WA!Retire(S)
      BY <1>9, <2>3, <3>1 DEF WA!Retire
    <3>3. QED
      BY <3>2 DEF WA!Next
  <2>4. CASE InsertRow(c)
    <3>1. CASE WA!Declare(c)
      BY <3>1 DEF WA!Next
    <3>2. CASE WA!Close(c, verdict[c]) /\ verdict[c] # "none"
      BY <3>2, <2>1 DEF WA!Next
    <3>3. QED
      BY <1>10, <2>4, <3>1, <3>2
  <2>5. CASE FinishWrite(c)
    <3>1. verdict[c] # "none"
      BY <2>5 DEF FinishWrite, IInv, StagesInv, StageInv
    <3>2. QED
      BY <1>11, <2>1, <2>5, <3>1 DEF WA!Next
  <2>6. QED
    BY <1>1, <1>7, <1>12, <2>2, <2>3, <2>4, <2>5 DEF Progress
<1>13. ASSUME NEW c \in Calls, PreCheck(c) \/ NodeDecides(c) \/ Interrupt(c) \/ Reconcile(c)
       PROVE [WA!Next]_(WA!vars)
  <2>1. "unknown" \in WA!Verdicts
    BY DEF WA!Verdicts
  <2>2. QED
    BY <1>1, <1>4, <1>5, <1>6, <1>13, <2>1 DEF WA!Next
<1>14. QED
  BY <1>1, <1>2, <1>3, <1>12, <1>13 DEF Next

\* Rows, rotation and the lock implement the write-ahead promise: declared
\* before the effect, closed once, retired only when closed.
THEOREM ImplementsWriteAhead == Spec => WriteAheadSpec
<1>1. QED
  BY InitRefines, StepRefines, Invariance, PTL DEF Spec, WriteAheadSpec, WA!Spec
=============================================================================
