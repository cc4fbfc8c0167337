-------------------------- MODULE CallOutcomeProofs --------------------------
(***************************************************************************)
(* Proofs about CallOutcome, for any number of attempts, any wait budget   *)
(* and any of the extra faults.  The invariant follows one attempt: what   *)
(* the task says of the effect, what the payload says of both, and what    *)
(* row and exit code make of the payload.                                  *)
(***************************************************************************)
EXTENDS CallOutcome, TLAPS

\* The task tells what became of the request; a preview has none.
NodeInv(c) ==
    /\ task[c] = "none" => effect[c] \in {"none", "sent"}
    /\ task[c] = "running" => effect[c] = "sent"
    /\ task[c] \in {"sync", "ok"} => effect[c] = "applied"
    /\ task[c] = "refused" => effect[c] = "rejected"
    /\ task[c] = "failed" => effect[c] = "rejected" \/ "warn" \in faults
    /\ task[c] \in {"silent", "failed"} => effect[c] \in {"applied", "rejected"}
    /\ mode = "preview" => effect[c] = "none"

\* No payload claims more than the node has done, or less than it may do yet.
Honest(c) ==
    /\ mode = "write" /\ payload[c] = Done => effect[c] = "applied"
    /\ payload[c] = Failed => effect[c] \in {"none", "rejected"} \/ Misreporting

\* The row of a command that ended before its body.
Stopped(c) ==
    \/ row[c] = "budget_exceeded"
    \/ "audit" \in faults /\ row[c] \in {"error", "none"}

\* The row tells what the payload says, or is a preview's and was lost.
Recorded(c) == row[c] = Status(payload[c]) \/ Dropped(c)

\* How the command of c ended.
EndInv(c) ==
    \/ Stopped(c) /\ exit[c] = 1 /\ effect[c] = "none" /\ token[c] = "none"
    \/ Recorded(c) /\ exit[c] = ExitCode(payload[c]) /\ Honest(c)
    \/ "audit" \in faults /\ row[c] = "pending" /\ exit[c] = 1 /\ Honest(c) /\ mode = "write"

StageInv(c) ==
    /\ pc[c] = "idle" => row[c] = "none"
    /\ pc[c] \in {"idle", "body"} => effect[c] = "none"
    /\ pc[c] \in {"sent", "polling"} => effect[c] # "none" /\ mode = "write"
    /\ pc[c] = "polling" => task[c] \in {"running", "ok", "failed", "silent"}
    /\ pc[c] \in {"idle", "body", "sent", "polling", "returned"} => token[c] = "none"
    /\ pc[c] \in {"body", "sent", "polling", "returned", "final"} =>
          row[c] = (IF mode = "write" THEN "pending" ELSE "none")
    /\ pc[c] \in {"returned", "final", "closed"} => Honest(c)
    /\ pc[c] = "closed" => Recorded(c)
    /\ exit[c] # -1 <=> pc[c] = "done"
    /\ pc[c] = "done" => EndInv(c)
    /\ token[c] = "verified" => payload[c] = Done /\ mode = "write"
    /\ mode = "preview" => payload[c] # Unsettled

\* An attempt is made only after all before it were reported as failed.
OrderInv == \A c \in Calls, d \in Calls : pc[c] # "idle" /\ d < c => exit[d] = 1

IInv ==
    /\ TypeOK
    /\ \A c \in Calls : NodeInv(c)
    /\ \A c \in Calls : StageInv(c)
    /\ OrderInv

-----------------------------------------------------------------------------
USE DEF Answers, node, client, Set, Misreporting

\* The four payloads are payloads, and no two of them are the same.
LEMMA PayloadFacts ==
    /\ {Done, Failed, LostReply, Unsettled} \subseteq Payloads
    /\ Done # Failed /\ Done # LostReply /\ Done # Unsettled
    /\ Failed # LostReply /\ Failed # Unsettled /\ LostReply # Unsettled
BY DEF Done, Failed, LostReply, Unsettled, Payloads

\* What _finalize and checked() make of a payload.
LEMMA VerdictFacts ==
    ASSUME NEW p \in Payloads
    PROVE  /\ Status(p) \in {"ok", "error", "unknown"}
           /\ Status(p) = "ok" <=> p = Done
           /\ Status(p) = "error" <=> p = Failed
           /\ ExitCode(p) \in {0, 1, 2}
           /\ ExitCode(p) = 0 => p \in {Done, Unsettled}
           /\ ExitCode(p) = 0 /\ p = Unsettled => mode # "write"
           /\ ExitCode(p) = 1 => p \in {Failed, LostReply}
           /\ ExitCode(p) = 1 /\ p = LostReply => mode # "write"
           /\ ExitCode(p) = 2 => Status(p) = "unknown"
BY DEF Status, ExitCode, Done, Failed, LostReply, Unsettled, Payloads

LEMMA InitInv == Init => IInv
BY OutcomeAssumption, PayloadFacts
   DEF Init, IInv, TypeOK, NodeInv, StageInv, OrderInv, Honest, Calls

LEMMA StartCallInv == ASSUME IInv, NEW c \in Calls, StartCall(c) PROVE IInv'
BY OutcomeAssumption, PayloadFacts
   DEF StartCall, Due, IInv, TypeOK, NodeInv, StageInv, OrderInv, Honest, Stopped, Recorded,
       Dropped, EndInv, Status, ExitCode, Calls

LEMMA TripBudgetInv == ASSUME IInv, NEW c \in Calls, TripBudget(c) PROVE IInv'
<1> USE OutcomeAssumption, PayloadFacts DEF TripBudget, Due, AppendRow, IInv
<1>1. TypeOK'
  BY DEF TypeOK, NodeInv, StageInv
<1>2. \A d \in Calls : NodeInv(d)'
  BY DEF TypeOK, NodeInv, StageInv
<1>3. \A d \in Calls : StageInv(d)'
  BY DEF TypeOK, NodeInv, StageInv, Honest, Stopped, Recorded, Dropped, EndInv, ExitCode
<1>4. OrderInv'
  BY DEF TypeOK, StageInv, OrderInv, Calls
<1>5. QED
  BY <1>1, <1>2, <1>3, <1>4

LEMMA RefuseIntentInv == ASSUME IInv, NEW c \in Calls, RefuseIntent(c) PROVE IInv'
<1> USE OutcomeAssumption, PayloadFacts DEF RefuseIntent, Due, AppendRow, IInv
<1>1. TypeOK'
  BY DEF TypeOK, NodeInv, StageInv
<1>2. \A d \in Calls : NodeInv(d)'
  BY DEF TypeOK, NodeInv, StageInv
<1>3. \A d \in Calls : StageInv(d)'
  BY DEF TypeOK, NodeInv, StageInv, Honest, Stopped, Recorded, Dropped, EndInv, ExitCode
<1>4. OrderInv'
  BY DEF TypeOK, StageInv, OrderInv, Calls
<1>5. QED
  BY <1>1, <1>2, <1>3, <1>4

LEMMA FailBeforeSendInv == ASSUME IInv, NEW c \in Calls, FailBeforeSend(c) PROVE IInv'
<1> USE OutcomeAssumption, PayloadFacts DEF FailBeforeSend, Return, IInv
<1>1. TypeOK'
  BY DEF TypeOK, NodeInv, StageInv
<1>2. \A d \in Calls : NodeInv(d)'
  BY DEF TypeOK, NodeInv, StageInv
<1>3. \A d \in Calls : StageInv(d)'
  BY DEF TypeOK, NodeInv, StageInv, Honest, Stopped, Recorded, Dropped, EndInv, ExitCode
<1>4. OrderInv'
  BY DEF TypeOK, StageInv, OrderInv
<1>5. QED
  BY <1>1, <1>2, <1>3, <1>4

LEMMA ReturnPreviewInv == ASSUME IInv, NEW c \in Calls, ReturnPreview(c) PROVE IInv'
<1> USE OutcomeAssumption, PayloadFacts DEF ReturnPreview, Return, IInv
<1>1. TypeOK'
  BY DEF TypeOK, NodeInv, StageInv
<1>2. \A d \in Calls : NodeInv(d)'
  BY DEF TypeOK, NodeInv, StageInv
<1>3. \A d \in Calls : StageInv(d)'
  BY DEF TypeOK, NodeInv, StageInv, Honest, Stopped, Recorded, Dropped, EndInv, ExitCode
<1>4. OrderInv'
  BY DEF TypeOK, StageInv, OrderInv
<1>5. QED
  BY <1>1, <1>2, <1>3, <1>4

LEMMA SendRequestInv == ASSUME IInv, NEW c \in Calls, SendRequest(c) PROVE IInv'
<1> USE OutcomeAssumption, PayloadFacts DEF SendRequest, IInv
<1>1. TypeOK'
  BY DEF TypeOK, NodeInv, StageInv
<1>2. \A d \in Calls : NodeInv(d)'
  BY DEF TypeOK, NodeInv, StageInv
<1>3. \A d \in Calls : StageInv(d)'
  BY DEF TypeOK, NodeInv, StageInv, Honest, Stopped, Recorded, Dropped, EndInv, ExitCode
<1>4. OrderInv'
  BY DEF TypeOK, StageInv, OrderInv
<1>5. QED
  BY <1>1, <1>2, <1>3, <1>4

LEMMA GetAnswerInv == ASSUME IInv, NEW c \in Calls, GetAnswer(c) PROVE IInv'
<1> USE OutcomeAssumption, PayloadFacts DEF GetAnswer, Return, IInv
<1>1. TypeOK'
  BY DEF TypeOK, NodeInv, StageInv
<1>2. \A d \in Calls : NodeInv(d)'
  BY DEF TypeOK, NodeInv, StageInv
<1>3. \A d \in Calls : StageInv(d)'
  BY DEF TypeOK, NodeInv, StageInv, Honest, Stopped, Recorded, Dropped, EndInv, ExitCode
<1>4. OrderInv'
  BY DEF TypeOK, StageInv, OrderInv
<1>5. QED
  BY <1>1, <1>2, <1>3, <1>4

LEMMA LoseAnswerInv == ASSUME IInv, NEW c \in Calls, LoseAnswer(c) PROVE IInv'
<1> USE OutcomeAssumption, PayloadFacts DEF LoseAnswer, Return, IInv
<1>1. TypeOK'
  BY DEF TypeOK, NodeInv, StageInv
<1>2. \A d \in Calls : NodeInv(d)'
  BY DEF TypeOK, NodeInv, StageInv
<1>3. \A d \in Calls : StageInv(d)'
  BY DEF TypeOK, NodeInv, StageInv, Honest, Stopped, Recorded, Dropped, EndInv, ExitCode
<1>4. OrderInv'
  BY DEF TypeOK, StageInv, OrderInv
<1>5. QED
  BY <1>1, <1>2, <1>3, <1>4

LEMMA CutConnectionInv == ASSUME IInv, NEW c \in Calls, CutConnection(c) PROVE IInv'
<1> USE OutcomeAssumption, PayloadFacts DEF CutConnection, Return, IInv
<1>1. TypeOK'
  BY DEF TypeOK, NodeInv, StageInv
<1>2. \A d \in Calls : NodeInv(d)'
  BY DEF TypeOK, NodeInv, StageInv
<1>3. \A d \in Calls : StageInv(d)'
  BY DEF TypeOK, NodeInv, StageInv, Honest, Stopped, Recorded, Dropped, EndInv, ExitCode
<1>4. OrderInv'
  BY DEF TypeOK, StageInv, OrderInv
<1>5. QED
  BY <1>1, <1>2, <1>3, <1>4

LEMMA PollStoppedInv == ASSUME IInv, NEW c \in Calls, PollStopped(c) PROVE IInv'
<1> USE OutcomeAssumption, PayloadFacts DEF PollStopped, Return, IInv
<1>1. TypeOK'
  BY DEF TypeOK, NodeInv, StageInv
<1>2. \A d \in Calls : NodeInv(d)'
  BY DEF TypeOK, NodeInv, StageInv
<1>3. \A d \in Calls : StageInv(d)'
  BY DEF TypeOK, NodeInv, StageInv, Honest, Stopped, Recorded, Dropped, EndInv, ExitCode
<1>4. OrderInv'
  BY DEF TypeOK, StageInv, OrderInv
<1>5. QED
  BY <1>1, <1>2, <1>3, <1>4

LEMMA PollAgainInv == ASSUME IInv, NEW c \in Calls, PollAgain(c) PROVE IInv'
<1> USE OutcomeAssumption, PayloadFacts DEF PollAgain, Return, IInv
<1>1. TypeOK'
  BY DEF TypeOK, NodeInv, StageInv
<1>2. \A d \in Calls : NodeInv(d)'
  BY DEF TypeOK, NodeInv, StageInv
<1>3. \A d \in Calls : StageInv(d)'
  BY DEF TypeOK, NodeInv, StageInv, Honest, Stopped, Recorded, Dropped, EndInv, ExitCode
<1>4. OrderInv'
  BY DEF TypeOK, StageInv, OrderInv
<1>5. QED
  BY <1>1, <1>2, <1>3, <1>4

LEMMA RecordUndoInv == ASSUME IInv, NEW c \in Calls, RecordUndo(c) PROVE IInv'
<1> USE OutcomeAssumption, PayloadFacts DEF RecordUndo, IInv
<1>1. TypeOK'
  BY DEF TypeOK, NodeInv, StageInv
<1>2. \A d \in Calls : NodeInv(d)'
  BY DEF TypeOK, NodeInv, StageInv
<1>3. \A d \in Calls : StageInv(d)'
  BY DEF TypeOK, NodeInv, StageInv, Honest, Stopped, Recorded, Dropped, EndInv, ExitCode
<1>4. OrderInv'
  BY DEF TypeOK, StageInv, OrderInv
<1>5. QED
  BY <1>1, <1>2, <1>3, <1>4

LEMMA FinalizeInv == ASSUME IInv, NEW c \in Calls, Finalize(c) PROVE IInv'
<1> USE OutcomeAssumption, PayloadFacts DEF Finalize, AppendRow, IInv
<1>1. TypeOK'
  BY VerdictFacts DEF TypeOK, NodeInv, StageInv
<1>2. \A d \in Calls : NodeInv(d)'
  BY DEF TypeOK, NodeInv, StageInv
<1>3. \A d \in Calls : StageInv(d)'
  BY DEF TypeOK, NodeInv, StageInv, Honest, Stopped, Recorded, Dropped, EndInv, ExitCode
<1>4. OrderInv'
  BY DEF TypeOK, StageInv, OrderInv
<1>5. QED
  BY <1>1, <1>2, <1>3, <1>4

LEMMA FinalizeFailsInv == ASSUME IInv, NEW c \in Calls, FinalizeFails(c) PROVE IInv'
<1> USE OutcomeAssumption, PayloadFacts DEF FinalizeFails, IInv
<1>1. TypeOK'
  BY DEF TypeOK, NodeInv, StageInv
<1>2. \A d \in Calls : NodeInv(d)'
  BY DEF TypeOK, NodeInv, StageInv
<1>3. \A d \in Calls : StageInv(d)'
  BY DEF TypeOK, NodeInv, StageInv, Honest, Stopped, Recorded, Dropped, EndInv, ExitCode
<1>4. OrderInv'
  BY DEF TypeOK, StageInv, OrderInv
<1>5. QED
  BY <1>1, <1>2, <1>3, <1>4

LEMMA ReportInv == ASSUME IInv, NEW c \in Calls, Report(c) PROVE IInv'
<1> USE OutcomeAssumption, PayloadFacts DEF Report, IInv
<1>1. TypeOK'
  BY VerdictFacts DEF TypeOK, NodeInv, StageInv
<1>2. \A d \in Calls : NodeInv(d)'
  BY DEF TypeOK, NodeInv, StageInv
<1>3. \A d \in Calls : StageInv(d)'
  BY DEF TypeOK, NodeInv, StageInv, Honest, Stopped, Recorded, Dropped, EndInv, ExitCode
<1>4. OrderInv'
  BY DEF TypeOK, StageInv, OrderInv
<1>5. QED
  BY <1>1, <1>2, <1>3, <1>4

\* The node moves on whether or not the command still waits: what a payload
\* says stays true, since it says nothing of a task that may still run.
LEMMA NodeAcceptsInv == ASSUME IInv, NEW c \in Calls, NodeAccepts(c) PROVE IInv'
<1> USE OutcomeAssumption, PayloadFacts DEF NodeAccepts, IInv
<1>1. TypeOK'
  BY DEF TypeOK, NodeInv, StageInv
<1>2. \A d \in Calls : NodeInv(d)'
  BY DEF TypeOK, NodeInv, StageInv
<1>3. \A d \in Calls : StageInv(d)'
  BY DEF TypeOK, NodeInv, StageInv, Honest, Stopped, Recorded, Dropped, EndInv, ExitCode
<1>4. OrderInv'
  BY DEF TypeOK, StageInv, OrderInv
<1>5. QED
  BY <1>1, <1>2, <1>3, <1>4

LEMMA NodeFinishesInv == ASSUME IInv, NEW c \in Calls, NodeFinishes(c) PROVE IInv'
<1> USE OutcomeAssumption, PayloadFacts DEF NodeFinishes, IInv
<1>1. TypeOK'
  BY DEF TypeOK, NodeInv, StageInv
<1>2. \A d \in Calls : NodeInv(d)'
  BY DEF TypeOK, NodeInv, StageInv
<1>3. \A d \in Calls : StageInv(d)'
  BY DEF TypeOK, NodeInv, StageInv, Honest, Stopped, Recorded, Dropped, EndInv, ExitCode
<1>4. OrderInv'
  BY DEF TypeOK, StageInv, OrderInv
<1>5. QED
  BY <1>1, <1>2, <1>3, <1>4

LEMMA StepInv == IInv /\ [Next]_vars => IInv'
<1> SUFFICES ASSUME IInv, [Next]_vars PROVE IInv'
  OBVIOUS
<1>1. CASE UNCHANGED vars
  BY <1>1 DEF vars, IInv, TypeOK, NodeInv, StageInv, OrderInv, Honest, Stopped, Recorded,
              Dropped, EndInv, Status, ExitCode
<1>2. CASE Next
  <2> PICK c \in Calls : Client(c) \/ NodeAccepts(c) \/ NodeFinishes(c)
    BY <1>2 DEF Next
  <2>1. CASE NodeAccepts(c) \/ NodeFinishes(c)
    BY <2>1, NodeAcceptsInv, NodeFinishesInv
  <2>2. CASE Client(c)
    BY <2>2, StartCallInv, TripBudgetInv, RefuseIntentInv, FailBeforeSendInv,
       ReturnPreviewInv, SendRequestInv,
       GetAnswerInv, LoseAnswerInv, CutConnectionInv, PollStoppedInv, PollAgainInv,
       RecordUndoInv, FinalizeInv, FinalizeFailsInv, ReportInv DEF Client
  <2>3. QED
    BY <2>1, <2>2
<1>3. QED
  BY <1>1, <1>2

\* IInv, the inductive strengthening of the properties below, always holds.
THEOREM Invariance == Spec => []IInv
BY InitInv, StepInv, PTL DEF Spec

\* Every variable of the call and the node keeps its type.
THEOREM TypeCorrect == Spec => []TypeOK
<1>1. IInv => TypeOK
  BY DEF IInv
<1>2. QED
  BY <1>1, Invariance, PTL

\* A row other than the intent's tells what an honest payload says, unless
\* the command ended before the body.
LEMMA LateStages ==
    ASSUME IInv, NEW c \in Calls, row[c] \notin {"none", "pending"}
    PROVE  \/ Stopped(c) /\ effect[c] = "none" /\ token[c] = "none" /\ exit[c] = 1
           \/ row[c] = Status(payload[c]) /\ Honest(c) /\ payload[c] \in Payloads
<1>1. payload[c] \in Payloads
  BY DEF IInv, TypeOK
<1>2. pc[c] \in {"closed", "done"}
  BY DEF IInv, TypeOK, StageInv
<1>3. QED
  BY <1>1, <1>2 DEF IInv, StageInv, EndInv, Recorded, Dropped

\* _finalize: a row of ok was applied; one of error, or one the budget
\* stopped, was not and will not be, whatever the node still does.
THEOREM RowsTellTruth == Spec => []RowTellsTruth
<1>1. IInv => RowTellsTruth
  <2> SUFFICES ASSUME IInv, NEW c \in Calls, mode = "write"
               PROVE  /\ row[c] = "ok" => effect[c] = "applied"
                      /\ row[c] \in {"error", "budget_exceeded"} =>
                             effect[c] \in {"none", "rejected"} \/ Misreporting
    BY DEF RowTellsTruth
  <2>1. CASE row[c] \in {"ok", "error", "budget_exceeded"}
    <3>1. CASE Stopped(c) /\ effect[c] = "none"
      BY <2>1, <3>1 DEF Stopped
    <3>2. CASE row[c] = Status(payload[c]) /\ Honest(c) /\ payload[c] \in Payloads
      BY <2>1, <3>2, VerdictFacts DEF Honest
    <3>3. QED
      BY <2>1, <3>1, <3>2, LateStages
  <2>2. QED
    BY <2>1
<1>2. QED
  BY <1>1, Invariance, PTL

\* _record_undo: a verified token belongs to a change that is there.
THEOREM TokensTellTruth == Spec => []TokenTellsTruth
<1>1. IInv => TokenTellsTruth
  <2> SUFFICES ASSUME IInv, NEW c \in Calls, token[c] = "verified"
               PROVE  /\ mode = "write"
                      /\ effect[c] = "applied"
                      /\ row[c] \in {"pending", "ok"}
    BY DEF TokenTellsTruth
  <2>1. payload[c] = Done /\ mode = "write" /\ payload[c] \in Payloads
    BY DEF IInv, TypeOK, StageInv
  <2>2. pc[c] \in {"final", "closed", "done"}
    BY DEF IInv, TypeOK, StageInv
  <2>3. Honest(c) /\ row[c] \in {"pending", "ok"}
    BY <2>1, <2>2, VerdictFacts DEF IInv, StageInv, EndInv, Recorded, Dropped
  <2>4. QED
    BY <2>1, <2>3 DEF Honest
<1>2. QED
  BY <1>1, Invariance, PTL

\* checked() and _finalize judge the payload alike: the exit code never says
\* success where the row does not, and says failure of a write whose change is
\* made or still may be only where the row was left pending.
THEOREM ExitsAgreeWithRows == Spec => []ExitAgreesWithRow
<1>1. IInv => ExitAgreesWithRow
  <2> SUFFICES ASSUME IInv, NEW c \in Calls, exit[c] # -1
               PROVE  /\ exit[c] = 0 => row[c] = "ok" \/ Dropped(c)
                      /\ exit[c] = 2 => row[c] = "unknown"
                      /\ exit[c] = 1 /\ row[c] = "unknown" => mode = "preview"
                      /\ exit[c] = 1 /\ effect[c] \in {"sent", "applied"} =>
                             row[c] = "pending" \/ Misreporting
    BY DEF ExitAgreesWithRow
  <2>1. EndInv(c) /\ payload[c] \in Payloads /\ mode \in {"write", "preview"}
    BY DEF IInv, TypeOK, StageInv
  <2>2. mode = "preview" => payload[c] # Unsettled /\ effect[c] = "none"
    BY DEF IInv, StageInv, NodeInv
  <2>3. CASE Recorded(c) /\ exit[c] = ExitCode(payload[c]) /\ Honest(c)
    <3>1. CASE mode = "preview" /\ Dropped(c)
      BY <2>1, <2>2, <2>3, <3>1, VerdictFacts DEF Dropped, ExitCode
    <3>2. CASE row[c] = Status(payload[c]) /\ mode = "preview"
      BY <2>1, <2>2, <2>3, <3>2, VerdictFacts
    <3>3. CASE row[c] = Status(payload[c]) /\ mode = "write"
      BY <2>1, <2>3, <3>3, VerdictFacts DEF Honest
    <3>4. QED
      BY <2>1, <2>3, <3>1, <3>2, <3>3 DEF Recorded, Dropped
  <2>4. CASE Stopped(c) /\ exit[c] = 1 /\ effect[c] = "none"
    BY <2>4 DEF Stopped
  <2>5. CASE exit[c] = 1 /\ row[c] = "pending"
    BY <2>5
  <2>6. QED
    BY <2>1, <2>3, <2>4, <2>5 DEF EndInv
<1>2. QED
  BY <1>1, Invariance, PTL

\* An attempt that a faultless script repeats has left nothing on the node.
LEMMA FailuresAreReal ==
    ASSUME IInv, faults = {}, NEW c \in Calls, exit[c] = 1
    PROVE  effect[c] \in {"none", "rejected"}
<1>1. EndInv(c) /\ payload[c] \in Payloads /\ mode \in {"write", "preview"}
  BY DEF IInv, TypeOK, StageInv
<1>2. CASE mode = "preview"
  BY <1>2 DEF IInv, NodeInv
<1>3. CASE mode = "write"
  BY <1>1, <1>3, VerdictFacts DEF EndInv, Honest
<1>4. QED
  BY <1>1, <1>2, <1>3

\* checked() as a script uses it: of all the attempts of one write, however
\* many there are, at most one is applied.
THEOREM RetryIsSafe == Spec => []NoDoubleApply
<1>1. IInv => NoDoubleApply
  <2> SUFFICES ASSUME IInv, faults = {}, NEW c \in Calls, NEW d \in Calls,
                      effect[c] = "applied", effect[d] = "applied", d < c
               PROVE  FALSE
    BY DEF NoDoubleApply, AppliedOnce, Calls
  <2>1. pc[c] # "idle"
    BY DEF IInv, StageInv
  <2>2. exit[d] = 1
    BY <2>1 DEF IInv, OrderInv
  <2>3. QED
    BY <2>2, FailuresAreReal
<1>2. QED
  BY <1>1, Invariance, PTL

-----------------------------------------------------------------------------
(* The abstract specification                                              *)

\* The record of the abstract specification: a preview declares nothing.
Record == [c \in Calls |-> IF mode = "write" THEN row[c] ELSE "none"]

LEMMA InitRefines == Init => WA!Init
BY DEF Init, WA!Init, Calls

\* A step that gives c's row the value v and touches nothing else of the two.
LEMMA RowStep ==
    ASSUME IInv, NEW c \in Calls, NEW v, mode = "write",
           row' = Set(row, c, v), UNCHANGED <<effect, mode>>
    PROVE  Record' = [Record EXCEPT ![c] = v]
BY DEF Record, IInv, TypeOK

LEMMA StepRefines == ASSUME IInv, [Next]_vars PROVE [WA!Next]_(WA!vars)
<1> USE DEF Record
<1> DEFINE Same == UNCHANGED effect /\ Record' = Record
<1>1. Same => [WA!Next]_(WA!vars)
  BY DEF WA!vars
<1>2. CASE UNCHANGED vars
  BY <1>1, <1>2 DEF vars
<1>3. ASSUME NEW c \in Calls, NodeAccepts(c) \/ NodeFinishes(c)
      PROVE  Same \/ WA!Settle(c)
  BY <1>3 DEF NodeAccepts, NodeFinishes, IInv, NodeInv, WA!Settle
<1>4. ASSUME NEW c \in Calls,
             \/ FailBeforeSend(c) \/ ReturnPreview(c) \/ GetAnswer(c) \/ LoseAnswer(c)
             \/ CutConnection(c) \/ PollStopped(c) \/ PollAgain(c)
             \/ RecordUndo(c) \/ FinalizeFails(c) \/ Report(c)
      PROVE  Same
  BY <1>4 DEF FailBeforeSend, ReturnPreview, GetAnswer, LoseAnswer, CutConnection,
              PollStopped, PollAgain, RecordUndo, FinalizeFails, Report
<1>5. ASSUME NEW c \in Calls, SendRequest(c) PROVE WA!Perform(c)
  BY <1>5 DEF SendRequest, IInv, StageInv, WA!Perform
<1>6. ASSUME NEW c \in Calls, StartCall(c) \/ TripBudget(c) \/ Finalize(c), mode # "write"
      PROVE  Same
  BY <1>6 DEF StartCall, TripBudget, Finalize, AppendRow
<1>7. ASSUME NEW c \in Calls, StartCall(c), mode = "write" PROVE WA!Declare(c)
  <2>1. row[c] = "none" /\ effect[c] = "none"
    BY <1>7 DEF StartCall, Due, IInv, StageInv
  <2>2. Record' = [Record EXCEPT ![c] = "pending"]
    BY <1>7, RowStep DEF StartCall
  <2>3. QED
    BY <1>7, <2>1, <2>2 DEF StartCall, WA!Declare
<1>8. ASSUME NEW c \in Calls, TripBudget(c) \/ RefuseIntent(c), mode = "write"
      PROVE  Same \/ \E v \in WA!Verdicts : WA!Close(c, v)
  <2>1. row[c] = "none" /\ effect[c] = "none" /\ UNCHANGED <<effect, mode>>
    BY <1>8 DEF TripBudget, RefuseIntent, Due, IInv, StageInv
  <2>2. CASE UNCHANGED row
    BY <2>1, <2>2
  <2>3. ASSUME NEW v \in {"budget_exceeded", "error"}, row' = Set(row, c, v)
        PROVE  WA!Close(c, v)
    <3>1. Record' = [Record EXCEPT ![c] = v]
      BY <1>8, <2>1, <2>3, RowStep
    <3>2. QED
      BY <1>8, <2>1, <3>1 DEF WA!Close
  <2>4. {"budget_exceeded", "error"} \subseteq WA!Verdicts
    BY DEF WA!Verdicts
  <2>5. UNCHANGED row \/ \E v \in {"budget_exceeded", "error"} : row' = Set(row, c, v)
    BY <1>8 DEF TripBudget, RefuseIntent, AppendRow
  <2>6. QED
    BY <2>2, <2>3, <2>4, <2>5
<1>9. ASSUME NEW c \in Calls, Finalize(c), mode = "write"
      PROVE  \E v \in WA!Verdicts : WA!Close(c, v)
  <2> PICK v : v = Status(payload[c])
    OBVIOUS
  <2>1. row[c] = "pending" /\ Honest(c) /\ payload[c] \in Payloads
    BY <1>9 DEF Finalize, IInv, TypeOK, StageInv
  <2>2. Record' = [Record EXCEPT ![c] = v]
    BY <1>9, RowStep DEF Finalize
  <2>3. v = "ok" => effect[c] = "applied"
    BY <1>9, <2>1, VerdictFacts DEF Honest
  <2>4. v \in WA!Verdicts
    BY <2>1, VerdictFacts DEF WA!Verdicts
  <2>5. WA!Close(c, v)
    BY <1>9, <2>1, <2>2, <2>3 DEF Finalize, WA!Close
  <2>6. QED
    BY <2>4, <2>5
<1>10. ASSUME NEW c \in Calls, Client(c) PROVE [WA!Next]_(WA!vars)
  <2>1. CASE mode # "write" /\ (StartCall(c) \/ TripBudget(c) \/ Finalize(c))
    BY <1>1, <1>6, <2>1
  <2>2. CASE mode = "write" /\ StartCall(c)
    BY <1>7, <2>2 DEF WA!Next
  <2>3. CASE mode = "write" /\ (TripBudget(c) \/ RefuseIntent(c))
    BY <1>1, <1>8, <2>3 DEF WA!Next
  <2>4. CASE mode = "write" /\ Finalize(c)
    BY <1>9, <2>4 DEF WA!Next
  <2>5. CASE SendRequest(c)
    BY <1>5, <2>5 DEF WA!Next
  <2>6. RefuseIntent(c) => mode = "write"
    BY DEF RefuseIntent
  <2>7. QED
    BY <1>1, <1>4, <1>10, <2>1, <2>2, <2>3, <2>4, <2>5, <2>6 DEF Client
<1>11. QED
  BY <1>1, <1>2, <1>3, <1>10 DEF Next, WA!Next

\* The whole call, from the command line to the node, keeps the write-ahead
\* promise: declared before it is sent, closed once, ok only when applied.
THEOREM ImplementsWriteAhead == Spec => KeepsPromise
BY InitRefines, StepRefines, Invariance, PTL DEF Spec, KeepsPromise, WA!Spec
=============================================================================
