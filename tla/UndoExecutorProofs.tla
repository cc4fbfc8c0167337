------------------------- MODULE UndoExecutorProofs -------------------------
(***************************************************************************)
(* Proofs about UndoExecutor, for any number of tokens, appliers and       *)
(* targets and any combination of faults.                                  *)
(***************************************************************************)
EXTENDS UndoExecutor, TLAPS

\* How far an applier is, and what that says of its inverse and its row.
StageInv(a) ==
    /\ pc[a] = "idle" <=> choice[a] = NoToken
    /\ pc[a] \in {"idle", "called", "checked"} => effect[a] = "none" /\ payload[a] = Done
    /\ pc[a] = "waiting" => effect[a] # "none" /\ payload[a] = Done
    /\ pc[a] = "idle" => outer[a] = "none"
    /\ pc[a] \in Active => outer[a] \in {"pending", "none"}
    /\ pc[a] \in {"waiting", "returned"} => outer[a] = "pending"
    /\ pc[a] = "returned" /\ ~payload[a].error => effect[a] # "none"
    /\ pc[a] = "returned" /\ effect[a] # "none" /\ payload[a] = Done =>
          effect[a] = "applied"
    /\ pc[a] = "returned" /\ payload[a].error /\ "lost" \notin faults =>
          effect[a] \in {"none", "rejected"}

\* The default target moves only if that is one of the faults.
DefaultInv == "moved" \notin faults => default = FirstDefault

Sent(a) == effect[a] \in {"sent", "applied"}

\* Calls one after the other: the one under way holds a token nobody has
\* spent, and the ones that left theirs unspent have changed nothing.
SoloInv ==
    /\ \A a, b \in Appliers : pc[a] \in Active /\ pc[b] \in Active => a = b
    /\ \A a \in Appliers : pc[a] # "dead"
    /\ \A a \in Appliers :
          pc[a] \in {"checked", "waiting", "returned"} => status[choice[a]] = "recorded"
    /\ \A a \in Appliers :
          pc[a] = "done" /\ status[choice[a]] = "recorded" => ~Sent(a)
    /\ \A a, b \in Appliers : Sent(a) /\ Sent(b) /\ choice[a] = choice[b] => a = b

\* What marked a token: an inverse that was applied, or was sent and unsettled.
SpentInv ==
    \A t \in Tokens : status[t] = "applied" =>
        \E a \in Appliers :
            /\ choice[a] = t /\ pc[a] = "done"
            /\ outer[a] = "ok" \/ ("audit" \in faults /\ outer[a] = "pending")
            /\ effect[a] # "none" /\ ~payload[a].error
            /\ payload[a] = Done => effect[a] = "applied"

IInv ==
    /\ TypeOK
    /\ \A a \in Appliers : StageInv(a)
    /\ DefaultInv
    /\ faults \subseteq {"moved"} => SoloInv
    /\ SpentInv
    /\ InverseGoesHome
    /\ FailedUndoSentNothing

-----------------------------------------------------------------------------
USE DEF Active, callVars

\* What the executor asks of a payload.
LEMMA PayloadFacts ==
    /\ {Done, Failed, LostReply, Unsettled} \subseteq Payloads
    /\ ~Done.error /\ ~Unsettled.error /\ Failed.error /\ LostReply.error
    /\ Done # Unsettled /\ Done # Failed /\ Done # LostReply
    /\ \A p \in Payloads : p.error \in BOOLEAN /\ (~p.error => p \in {Done, Unsettled})
BY DEF Done, Failed, LostReply, Unsettled, Payloads

LEMMA InitInv == Init => IInv
BY UndoAssumption, PayloadFacts
   DEF Init, IInv, TypeOK, StageInv, DefaultInv, SoloInv, Sent, SpentInv,
       InverseGoesHome, FailedUndoSentNothing

LEMMA CallInv == ASSUME IInv, NEW a \in Appliers, Call(a) PROVE IInv'
<1> USE UndoAssumption, PayloadFacts DEF Call, Asks, IInv
<1>1. TypeOK'
  BY DEF TypeOK
<1>2. \A b \in Appliers : StageInv(b)'
  BY DEF TypeOK, StageInv
<1>3. DefaultInv'
  BY DEF DefaultInv
<1>4. (faults \subseteq {"moved"} => SoloInv)'
  BY DEF TypeOK, StageInv, SoloInv, Sent
<1>5. SpentInv'
  BY DEF TypeOK, StageInv, SpentInv
<1>6. InverseGoesHome'
  BY DEF TypeOK, StageInv, DefaultInv, InverseGoesHome, RanOn
<1>7. FailedUndoSentNothing'
  BY DEF TypeOK, StageInv, FailedUndoSentNothing
<1>8. QED
  BY <1>1, <1>2, <1>3, <1>4, <1>5, <1>6, <1>7

LEMMA RefuseCallInv == ASSUME IInv, NEW a \in Appliers, RefuseCall(a) PROVE IInv'
<1> USE UndoAssumption, PayloadFacts DEF RefuseCall, Asks, Close, IInv
<1>1. TypeOK'
  BY DEF TypeOK
<1>2. \A b \in Appliers : StageInv(b)'
  BY DEF TypeOK, StageInv
<1>3. DefaultInv'
  BY DEF DefaultInv
<1>4. (faults \subseteq {"moved"} => SoloInv)'
  BY DEF TypeOK, StageInv, SoloInv, Sent
<1>5. SpentInv'
  BY DEF TypeOK, StageInv, SpentInv
<1>6. InverseGoesHome'
  BY DEF TypeOK, StageInv, DefaultInv, InverseGoesHome, RanOn
<1>7. FailedUndoSentNothing'
  BY DEF TypeOK, StageInv, FailedUndoSentNothing
<1>8. QED
  BY <1>1, <1>2, <1>3, <1>4, <1>5, <1>6, <1>7

LEMMA CheckInv == ASSUME IInv, NEW a \in Appliers, Check(a) PROVE IInv'
<1> USE UndoAssumption, PayloadFacts DEF Check, IInv
<1>1. TypeOK'
  BY DEF TypeOK
<1>2. \A b \in Appliers : StageInv(b)'
  BY DEF TypeOK, StageInv
<1>3. DefaultInv'
  BY DEF DefaultInv
<1>4. (faults \subseteq {"moved"} => SoloInv)'
  BY DEF TypeOK, StageInv, SoloInv, Sent
<1>5. SpentInv'
  BY DEF TypeOK, StageInv, SpentInv
<1>6. InverseGoesHome'
  BY DEF TypeOK, StageInv, DefaultInv, InverseGoesHome, RanOn
<1>7. FailedUndoSentNothing'
  BY DEF TypeOK, StageInv, FailedUndoSentNothing
<1>8. QED
  BY <1>1, <1>2, <1>3, <1>4, <1>5, <1>6, <1>7

LEMMA RefuseAppliedInv == ASSUME IInv, NEW a \in Appliers, RefuseApplied(a) PROVE IInv'
<1> USE UndoAssumption, PayloadFacts DEF RefuseApplied, Close, IInv
<1>1. TypeOK'
  BY DEF TypeOK
<1>2. \A b \in Appliers : StageInv(b)'
  BY DEF TypeOK, StageInv
<1>3. DefaultInv'
  BY DEF DefaultInv
<1>4. (faults \subseteq {"moved"} => SoloInv)'
  BY DEF TypeOK, StageInv, SoloInv, Sent
<1>5. SpentInv'
  BY DEF TypeOK, StageInv, SpentInv
<1>6. InverseGoesHome'
  BY DEF TypeOK, StageInv, DefaultInv, InverseGoesHome, RanOn
<1>7. FailedUndoSentNothing'
  BY DEF TypeOK, StageInv, FailedUndoSentNothing
<1>8. QED
  BY <1>1, <1>2, <1>3, <1>4, <1>5, <1>6, <1>7

LEMMA RefuseReplayInv == ASSUME IInv, NEW a \in Appliers, RefuseReplay(a) PROVE IInv'
<1> USE UndoAssumption, PayloadFacts DEF RefuseReplay, Close, IInv
<1>1. TypeOK'
  BY DEF TypeOK
<1>2. \A b \in Appliers : StageInv(b)'
  BY DEF TypeOK, StageInv
<1>3. DefaultInv'
  BY DEF DefaultInv
<1>4. (faults \subseteq {"moved"} => SoloInv)'
  BY DEF TypeOK, StageInv, SoloInv, Sent
<1>5. SpentInv'
  BY DEF TypeOK, StageInv, SpentInv
<1>6. InverseGoesHome'
  BY DEF TypeOK, StageInv, DefaultInv, InverseGoesHome, RanOn
<1>7. FailedUndoSentNothing'
  BY DEF TypeOK, StageInv, FailedUndoSentNothing
<1>8. QED
  BY <1>1, <1>2, <1>3, <1>4, <1>5, <1>6, <1>7

LEMMA PreviewInv == ASSUME IInv, NEW a \in Appliers, Preview(a) PROVE IInv'
<1> USE UndoAssumption, PayloadFacts DEF Preview, Close, IInv
<1>1. TypeOK'
  BY DEF TypeOK
<1>2. \A b \in Appliers : StageInv(b)'
  BY DEF TypeOK, StageInv
<1>3. DefaultInv'
  BY DEF DefaultInv
<1>4. (faults \subseteq {"moved"} => SoloInv)'
  BY DEF TypeOK, StageInv, SoloInv, Sent
<1>5. SpentInv'
  BY DEF TypeOK, StageInv, SpentInv
<1>6. InverseGoesHome'
  BY DEF TypeOK, StageInv, DefaultInv, InverseGoesHome, RanOn
<1>7. FailedUndoSentNothing'
  BY DEF TypeOK, StageInv, FailedUndoSentNothing
<1>8. QED
  BY <1>1, <1>2, <1>3, <1>4, <1>5, <1>6, <1>7

LEMMA DispatchInv == ASSUME IInv, NEW a \in Appliers, Dispatch(a) PROVE IInv'
<1> USE UndoAssumption, PayloadFacts DEF Dispatch, TargetOf, IInv
<1>1. TypeOK'
  BY DEF TypeOK, StageInv
<1>2. \A b \in Appliers : StageInv(b)'
  BY DEF TypeOK, StageInv
<1>3. DefaultInv'
  BY DEF DefaultInv
<1>4. (faults \subseteq {"moved"} => SoloInv)'
  BY DEF TypeOK, StageInv, SoloInv, Sent
<1>5. SpentInv'
  BY DEF TypeOK, StageInv, SpentInv
<1>6. InverseGoesHome'
  BY DEF TypeOK, StageInv, DefaultInv, InverseGoesHome, RanOn
<1>7. FailedUndoSentNothing'
  BY DEF TypeOK, StageInv, FailedUndoSentNothing
<1>8. QED
  BY <1>1, <1>2, <1>3, <1>4, <1>5, <1>6, <1>7

LEMMA DispatchFailsInv == ASSUME IInv, NEW a \in Appliers, DispatchFails(a) PROVE IInv'
<1> USE UndoAssumption, PayloadFacts DEF DispatchFails, Close, IInv
<1>1. TypeOK'
  BY DEF TypeOK
<1>2. \A b \in Appliers : StageInv(b)'
  BY DEF TypeOK, StageInv
<1>3. DefaultInv'
  BY DEF DefaultInv
<1>4. (faults \subseteq {"moved"} => SoloInv)'
  BY DEF TypeOK, StageInv, SoloInv, Sent
<1>5. SpentInv'
  BY DEF TypeOK, StageInv, SpentInv
<1>6. InverseGoesHome'
  BY DEF TypeOK, StageInv, DefaultInv, InverseGoesHome, RanOn
<1>7. FailedUndoSentNothing'
  BY DEF TypeOK, StageInv, FailedUndoSentNothing
<1>8. QED
  BY <1>1, <1>2, <1>3, <1>4, <1>5, <1>6, <1>7

LEMMA ConcludeInv == ASSUME IInv, NEW a \in Appliers, Conclude(a) PROVE IInv'
<1> USE UndoAssumption, PayloadFacts DEF Conclude, Outcomes, IInv
<1>1. TypeOK'
  BY DEF TypeOK
<1>2. \A b \in Appliers : StageInv(b)'
  BY DEF TypeOK, StageInv
<1>3. DefaultInv'
  BY DEF DefaultInv
<1>4. (faults \subseteq {"moved"} => SoloInv)'
  BY DEF TypeOK, StageInv, SoloInv, Sent
<1>5. SpentInv'
  BY DEF TypeOK, StageInv, SpentInv
<1>6. InverseGoesHome'
  BY DEF TypeOK, StageInv, DefaultInv, InverseGoesHome, RanOn
<1>7. FailedUndoSentNothing'
  BY DEF TypeOK, StageInv, FailedUndoSentNothing
<1>8. QED
  BY <1>1, <1>2, <1>3, <1>4, <1>5, <1>6, <1>7

LEMMA ConcludeUnauditedInv == ASSUME IInv, NEW a \in Appliers, ConcludeUnaudited(a) PROVE IInv'
<1> USE UndoAssumption, PayloadFacts DEF ConcludeUnaudited, Close, IInv
<1>1. TypeOK'
  BY DEF TypeOK
<1>2. \A b \in Appliers : StageInv(b)'
  BY DEF TypeOK, StageInv
<1>3. DefaultInv'
  BY DEF DefaultInv
<1>4. (faults \subseteq {"moved"} => SoloInv)'
  BY DEF TypeOK, StageInv, SoloInv, Sent
<1>5. SpentInv'
  BY DEF TypeOK, StageInv, SpentInv
<1>6. InverseGoesHome'
  BY DEF TypeOK, StageInv, DefaultInv, InverseGoesHome, RanOn
<1>7. FailedUndoSentNothing'
  BY DEF TypeOK, StageInv, FailedUndoSentNothing
<1>8. QED
  BY <1>1, <1>2, <1>3, <1>4, <1>5, <1>6, <1>7

LEMMA MarkInv == ASSUME IInv, NEW a \in Appliers, Mark(a) PROVE IInv'
<1> USE UndoAssumption, PayloadFacts DEF Mark, Close, IInv
<1>1. TypeOK'
  BY DEF TypeOK
<1>2. \A b \in Appliers : StageInv(b)'
  BY DEF TypeOK, StageInv
<1>3. DefaultInv'
  BY DEF DefaultInv
<1>4. (faults \subseteq {"moved"} => SoloInv)'
  BY DEF TypeOK, StageInv, SoloInv, Sent
<1>5. SpentInv'
  BY DEF TypeOK, StageInv, SpentInv
<1>6. InverseGoesHome'
  BY DEF TypeOK, StageInv, DefaultInv, InverseGoesHome, RanOn
<1>7. FailedUndoSentNothing'
  BY DEF TypeOK, StageInv, FailedUndoSentNothing
<1>8. QED
  BY <1>1, <1>2, <1>3, <1>4, <1>5, <1>6, <1>7

LEMMA MarkFailsInv == ASSUME IInv, NEW a \in Appliers, MarkFails(a) PROVE IInv'
<1> USE UndoAssumption, PayloadFacts DEF MarkFails, Close, IInv
<1>1. TypeOK'
  BY DEF TypeOK
<1>2. \A b \in Appliers : StageInv(b)'
  BY DEF TypeOK, StageInv
<1>3. DefaultInv'
  BY DEF DefaultInv
<1>4. (faults \subseteq {"moved"} => SoloInv)'
  BY DEF TypeOK, StageInv, SoloInv, Sent
<1>5. SpentInv'
  BY DEF TypeOK, StageInv, SpentInv
<1>6. InverseGoesHome'
  BY DEF TypeOK, StageInv, DefaultInv, InverseGoesHome, RanOn
<1>7. FailedUndoSentNothing'
  BY DEF TypeOK, StageInv, FailedUndoSentNothing
<1>8. QED
  BY <1>1, <1>2, <1>3, <1>4, <1>5, <1>6, <1>7

LEMMA NodeDecidesInv == ASSUME IInv, NEW a \in Appliers, NodeDecides(a) PROVE IInv'
<1> USE UndoAssumption, PayloadFacts DEF NodeDecides, IInv
<1>1. TypeOK'
  BY DEF TypeOK
<1>2. \A b \in Appliers : StageInv(b)'
  BY DEF TypeOK, StageInv
<1>3. DefaultInv'
  BY DEF DefaultInv
<1>4. (faults \subseteq {"moved"} => SoloInv)'
  BY DEF TypeOK, StageInv, SoloInv, Sent
<1>5. SpentInv'
  BY DEF TypeOK, StageInv, SpentInv
<1>6. InverseGoesHome'
  BY DEF TypeOK, StageInv, DefaultInv, InverseGoesHome, RanOn
<1>7. FailedUndoSentNothing'
  BY DEF TypeOK, StageInv, FailedUndoSentNothing
<1>8. QED
  BY <1>1, <1>2, <1>3, <1>4, <1>5, <1>6, <1>7

LEMMA CrashInv == ASSUME IInv, NEW a \in Appliers, Crash(a) PROVE IInv'
<1> USE UndoAssumption, PayloadFacts DEF Crash, IInv
<1>1. TypeOK'
  BY DEF TypeOK
<1>2. \A b \in Appliers : StageInv(b)'
  BY DEF TypeOK, StageInv
<1>3. DefaultInv'
  BY DEF DefaultInv
<1>4. (faults \subseteq {"moved"} => SoloInv)'
  BY DEF TypeOK, StageInv, SoloInv, Sent
<1>5. SpentInv'
  BY DEF TypeOK, StageInv, SpentInv
<1>6. InverseGoesHome'
  BY DEF TypeOK, StageInv, DefaultInv, InverseGoesHome, RanOn
<1>7. FailedUndoSentNothing'
  BY DEF TypeOK, StageInv, FailedUndoSentNothing
<1>8. QED
  BY <1>1, <1>2, <1>3, <1>4, <1>5, <1>6, <1>7

LEMMA MoveDefaultInv == ASSUME IInv, MoveDefault PROVE IInv'
BY DEF MoveDefault, IInv, TypeOK, StageInv, DefaultInv, SoloInv, Sent, SpentInv,
       InverseGoesHome, RanOn, FailedUndoSentNothing

LEMMA StepInv == IInv /\ [Next]_vars => IInv'
<1> SUFFICES ASSUME IInv, [Next]_vars PROVE IInv'
  OBVIOUS
<1>1. CASE UNCHANGED vars
  BY <1>1 DEF vars, IInv, TypeOK, StageInv, DefaultInv, SoloInv, Sent, SpentInv,
              InverseGoesHome, RanOn, FailedUndoSentNothing
<1>2. CASE MoveDefault
  BY <1>2, MoveDefaultInv
<1>3. ASSUME NEW a \in Appliers, NodeDecides(a) \/ Crash(a) PROVE IInv'
  BY <1>3, NodeDecidesInv, CrashInv
<1>4. ASSUME NEW a \in Appliers, Apply(a) PROVE IInv'
  BY <1>4, CallInv, RefuseCallInv, CheckInv, RefuseAppliedInv, RefuseReplayInv, PreviewInv,
     DispatchInv, DispatchFailsInv, ConcludeInv, ConcludeUnauditedInv, MarkInv, MarkFailsInv
  DEF Apply
<1>5. QED
  BY <1>1, <1>2, <1>3, <1>4 DEF Next

\* IInv, the inductive strengthening of the properties below, always holds.
THEOREM Invariance == Spec => []IInv
BY InitInv, StepInv, PTL DEF Spec

\* Tokens, appliers and what they carry keep their types.
THEOREM TypeCorrect == Spec => []TypeOK
<1>1. IInv => TypeOK
  BY DEF IInv
<1>2. QED
  BY <1>1, Invariance, PTL

\* undo_apply marks after the dispatch: only an inverse that was sent, and that
\* did not come back refused, spends a token.
THEOREM SpentTokensWereSent == Spec => []SpentMeansSent
<1>1. IInv => SpentMeansSent
  BY PayloadFacts DEF IInv, TypeOK, SpentInv, SpentMeansSent
<1>2. QED
  BY <1>1, Invariance, PTL

\* _origin_target: an inverse goes where its original went, however often the
\* default target moves.
THEOREM InversesGoHome == Spec => []InverseGoesHome
<1>1. IInv => InverseGoesHome
  BY DEF IInv
<1>2. QED
  BY <1>1, Invariance, PTL

\* An undo whose own row says error has sent nothing, unless the token could not
\* be marked or the inverse's own row could not be closed; no error the inverse
\* reports makes such a row.
THEOREM FailuresSentNothing == Spec => []FailedUndoSentNothing
<1>1. IInv => FailedUndoSentNothing
  BY DEF IInv
<1>2. QED
  BY <1>1, Invariance, PTL

\* However many calls are made on it, one after the other, a token's inverse is
\* applied once at most.
THEOREM TokensAreSingleUse == Spec => []AppliedOnce
<1>1. IInv => AppliedOnce
  BY DEF IInv, SoloInv, Sent, AppliedOnce, InvertedOnce
<1>2. QED
  BY <1>1, Invariance, PTL
=============================================================================
