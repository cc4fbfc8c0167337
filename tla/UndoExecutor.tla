---------------------------- MODULE UndoExecutor ----------------------------
(***************************************************************************)
(* undo_apply of mcp_server/tools/undo.py over the token store of          *)
(* governance/undo.py: look the token up, dispatch its inverse tool, mark  *)
(* the token if the inverse did not report an error.  Several appliers     *)
(* (MCP servers, CLI commands) share the store.  The inverse is a governed *)
(* call of its own, with the outcomes of CallOutcome.                      *)
(***************************************************************************)
EXTENDS Naturals, FiniteSets

CONSTANTS Tokens,         \* recorded undo tokens
          Appliers,       \* undo_apply calls, each made once
          Targets,        \* Proxmox targets of the configuration
          NoTarget,       \* no target named
          OrigTarget,     \* OrigTarget[t]: the target in t's orig_params
          FirstDefault,   \* the default target when the tokens were recorded
          NoToken,        \* no token chosen yet
          FaultCases      \* sets of faults that may happen together

ASSUME UndoAssumption ==
    /\ NoTarget \notin Targets
    /\ OrigTarget \in [Tokens -> Targets \cup {NoTarget}]
    /\ FirstDefault \in Targets
    /\ NoToken \notin Tokens
    /\ FaultCases \subseteq SUBSET {"overlap", "crash", "lost", "store", "audit", "moved"}

VARIABLES faults,    \* the faults that happen
          default,   \* the default target of the configuration now
          status,    \* status[t]: the status column of token t
          pc,        \* pc[a]: where applier a stands
          choice,    \* choice[a]: the token a applies
          named,     \* named[a]: the target a's caller names
          sentTo,    \* sentTo[a]: the target a's inverse is sent to
          effect,    \* effect[a]: what became of a's inverse request
          payload,   \* payload[a]: what the inverse tool returned
          outer      \* outer[a]: status of the row of a's undo_apply call

callVars == <<choice, named, sentTo>>
vars == <<faults, default, status, pc, callVars, effect, payload, outer>>

Payloads == [error : BOOLEAN, unknown : BOOLEAN]
Done      == [error |-> FALSE, unknown |-> FALSE]
Failed    == [error |-> TRUE,  unknown |-> FALSE]
LostReply == [error |-> TRUE,  unknown |-> TRUE]
Unsettled == [error |-> FALSE, unknown |-> TRUE]

Active == {"called", "checked", "waiting", "returned"}

TypeOK ==
    /\ faults \in FaultCases
    /\ default \in Targets
    /\ status \in [Tokens -> {"recorded", "applied"}]
    /\ pc \in [Appliers -> Active \cup {"idle", "done", "dead"}]
    /\ choice \in [Appliers -> Tokens \cup {NoToken}]
    /\ named \in [Appliers -> Targets \cup {NoTarget}]
    /\ sentTo \in [Appliers -> Targets \cup {NoTarget}]
    /\ effect \in [Appliers -> {"none", "sent", "applied", "rejected"}]
    /\ payload \in [Appliers -> Payloads]
    /\ outer \in [Appliers -> {"none", "pending", "ok", "error", "budget_exceeded"}]
    /\ \A a \in Appliers : effect[a] # "none" => sentTo[a] \in Targets

Init ==
    /\ faults \in FaultCases
    /\ default = FirstDefault
    /\ status = [t \in Tokens |-> "recorded"]
    /\ pc = [a \in Appliers |-> "idle"]
    /\ choice = [a \in Appliers |-> NoToken]
    /\ named = [a \in Appliers |-> NoTarget]
    /\ sentTo = [a \in Appliers |-> NoTarget]
    /\ effect = [a \in Appliers |-> "none"]
    /\ payload = [a \in Appliers |-> Done]
    /\ outer = [a \in Appliers |-> "none"]

\* undo_apply is left and its row written: its intent is closed, or for a
\* dry_run a row is appended.  Audit storage that fails leaves things as they are.
Close(a, v) ==
    /\ pc' = [pc EXCEPT ![a] = "done"]
    /\ \/ outer' = [outer EXCEPT ![a] = v]
       \/ "audit" \in faults /\ UNCHANGED outer

-----------------------------------------------------------------------------
\* The caller of a asks for some token, and may name a target.
Asks(a) ==
    /\ pc[a] = "idle"
    /\ "overlap" \in faults \/ \A b \in Appliers : pc[b] \notin Active
    /\ \E t \in Tokens : choice' = [choice EXCEPT ![a] = t]
    /\ \E n \in Targets \cup {NoTarget} : named' = [named EXCEPT ![a] = n]
    /\ UNCHANGED <<faults, default, status, sentTo, effect, payload>>

\* The wrapper lets the call through; a dry_run commits no intent.
Call(a) ==
    /\ Asks(a)
    /\ pc' = [pc EXCEPT ![a] = "called"]
    /\ \E r \in {"pending", "none"} : outer' = [outer EXCEPT ![a] = r]

\* The wrapper refuses: a tripped budget, or an intent that cannot be committed.
RefuseCall(a) ==
    /\ Asks(a)
    /\ Close(a, "budget_exceeded") \/ ("audit" \in faults /\ Close(a, "error"))

\* store.get and the status test.
Check(a) ==
    /\ pc[a] = "called" /\ status[choice[a]] = "recorded"
    /\ pc' = [pc EXCEPT ![a] = "checked"]
    /\ UNCHANGED <<faults, default, status, callVars, effect, payload, outer>>

RefuseApplied(a) ==
    /\ pc[a] = "called" /\ status[choice[a]] = "applied"
    /\ Close(a, "error")
    /\ UNCHANGED <<faults, default, status, callVars, effect, payload>>

\* Unreadable parameters, or an inverse tool that is not registered.
RefuseReplay(a) ==
    /\ pc[a] = "checked"
    /\ Close(a, "error")
    /\ UNCHANGED <<faults, default, status, callVars, effect, payload>>

\* dry_run: the descriptor is shown, nothing is dispatched or marked.
Preview(a) ==
    /\ pc[a] = "checked" /\ outer[a] = "none"
    /\ Close(a, "ok")
    /\ UNCHANGED <<faults, default, status, callVars, effect, payload>>

\* Faulty: the inverse goes where the caller says, else to the default.
TargetOfCaller(a) == IF named[a] # NoTarget THEN named[a] ELSE default

\* The target named by the caller, else the original's, else the default.
TargetOf(a) ==
    CASE named[a] # NoTarget              -> named[a]
      [] OrigTarget[choice[a]] # NoTarget -> OrigTarget[choice[a]]
      [] OTHER                            -> default

\* The inverse tool's own wrapper lets its request through.
Dispatch(a) ==
    /\ pc[a] = "checked" /\ outer[a] = "pending"
    /\ sentTo' = [sentTo EXCEPT ![a] = TargetOf(a)]
    /\ effect' = [effect EXCEPT ![a] = "sent"]
    /\ pc' = [pc EXCEPT ![a] = "waiting"]
    /\ UNCHANGED <<faults, default, status, choice, named, payload, outer>>

\* The inverse ends before its request: an error or a lost read becomes a
\* payload, while a tripped budget or a failed intent is raised through the
\* inverse's wrapper and turned into an error by the outer tool_errors.
DispatchFails(a) ==
    /\ pc[a] = "checked" /\ outer[a] = "pending"
    /\ \/ /\ \E p \in {Failed} \cup (IF "lost" \in faults THEN {LostReply} ELSE {}) :
               payload' = [payload EXCEPT ![a] = p]
          /\ pc' = [pc EXCEPT ![a] = "returned"]
          /\ UNCHANGED outer
       \/ Close(a, "error") /\ UNCHANGED payload
    /\ UNCHANGED <<faults, default, status, callVars, effect>>

NodeDecides(a) ==
    /\ effect[a] = "sent"
    /\ \E e \in {"applied", "rejected"} : effect' = [effect EXCEPT ![a] = e]
    /\ UNCHANGED <<faults, default, status, pc, callVars, payload, outer>>

\* What the inverse tool returns: the node's word, "not finished in time", or
\* for a lost answer "unknown", and for a cut connection a plain error.
Outcomes(a) ==
    {Unsettled}
    \cup (IF effect[a] = "applied" THEN {Done} ELSE {})
    \cup (IF effect[a] = "rejected" THEN {Failed} ELSE {})
    \cup (IF "lost" \in faults THEN {LostReply, Failed} ELSE {})

\* Faulty: waits for the node's decision without a limit.
ConcludeOnAnswer(a) ==
    /\ pc[a] = "waiting" /\ effect[a] # "sent"
    /\ \E p \in Outcomes(a) : payload' = [payload EXCEPT ![a] = p]
    /\ pc' = [pc EXCEPT ![a] = "returned"]
    /\ UNCHANGED <<faults, default, status, callVars, effect, outer>>

Conclude(a) ==
    /\ pc[a] = "waiting"
    /\ \E p \in Outcomes(a) : payload' = [payload EXCEPT ![a] = p]
    /\ pc' = [pc EXCEPT ![a] = "returned"]
    /\ UNCHANGED <<faults, default, status, callVars, effect, outer>>

\* The inverse's own finish_write fails: AuditUnavailable leaves its wrapper in
\* place of its result, and the outer tool_errors makes an error of it.
ConcludeUnaudited(a) ==
    /\ "audit" \in faults
    /\ pc[a] = "waiting"
    /\ Close(a, "error")
    /\ UNCHANGED <<faults, default, status, callVars, effect, payload>>

\* Faulty variants of the step below.
MarkConfirmed(a) ==          \* an unsettled inverse leaves the token unmarked
    /\ pc[a] = "returned"
    /\ status' = IF payload[a] # Done THEN status
                 ELSE [status EXCEPT ![choice[a]] = "applied"]
    /\ Close(a, "ok")
    /\ UNCHANGED <<faults, default, callVars, effect, payload>>

MarkAlways(a) ==             \* the token is spent whatever the inverse says
    /\ pc[a] = "returned"
    /\ status' = [status EXCEPT ![choice[a]] = "applied"]
    /\ Close(a, "ok")
    /\ UNCHANGED <<faults, default, callVars, effect, payload>>

MarkOrFail(a) ==             \* the inverse's error becomes the outer call's
    /\ pc[a] = "returned"
    /\ status' = IF payload[a].error THEN status
                 ELSE [status EXCEPT ![choice[a]] = "applied"]
    /\ Close(a, IF payload[a].error THEN "error" ELSE "ok")
    /\ UNCHANGED <<faults, default, callVars, effect, payload>>

\* The token is marked unless the inverse reported an error.  What undo_apply
\* returns has no error key of its own, so its row says ok either way.
Mark(a) ==
    /\ pc[a] = "returned"
    /\ status' = IF payload[a].error THEN status
                 ELSE [status EXCEPT ![choice[a]] = "applied"]
    /\ Close(a, "ok")
    /\ UNCHANGED <<faults, default, callVars, effect, payload>>

MarkFails(a) ==
    /\ "store" \in faults
    /\ pc[a] = "returned" /\ ~payload[a].error
    /\ Close(a, "error")
    /\ UNCHANGED <<faults, default, status, callVars, effect, payload>>

Crash(a) ==
    /\ "crash" \in faults
    /\ pc[a] \in Active
    /\ pc' = [pc EXCEPT ![a] = "dead"]
    /\ UNCHANGED <<faults, default, status, callVars, effect, payload, outer>>

\* The configuration is rewritten with another first target.
MoveDefault ==
    /\ "moved" \in faults
    /\ default' \in Targets \ {default}
    /\ UNCHANGED <<faults, status, pc, callVars, effect, payload, outer>>

-----------------------------------------------------------------------------
Apply(a) ==
    \/ Call(a) \/ RefuseCall(a) \/ Check(a) \/ RefuseApplied(a)
    \/ RefuseReplay(a) \/ Preview(a) \/ Dispatch(a) \/ DispatchFails(a)
    \/ Conclude(a) \/ ConcludeUnaudited(a) \/ Mark(a) \/ MarkFails(a)

Next ==
    \/ \E a \in Appliers : Apply(a) \/ NodeDecides(a) \/ Crash(a)
    \/ MoveDefault

Spec == Init /\ [][Next]_vars

\* An applier that runs keeps running; its inverse's wait is bounded.
FairSpec == Spec /\ \A a \in Appliers : WF_vars(Apply(a))

-----------------------------------------------------------------------------
(* Properties                                                              *)

InvertedOnce ==
    \A a, b \in Appliers :
        effect[a] = "applied" /\ effect[b] = "applied" /\ choice[a] = choice[b] => a = b

\* A token is applied at most once, however often undo_apply is called on it,
\* when its calls follow one another and none of them loses its answer, its
\* process or its mark: a slow inverse spends the token, a refused one does not.
AppliedOnce == faults \subseteq {"moved"} => InvertedOnce

\* The docstring of undo_apply without these conditions.
AppliedOnceAlways == InvertedOnce

\* A token is spent only by an inverse that was sent, and that the node has
\* not refused as far as undo_apply could tell; so a refused, tripped or
\* crashed inverse leaves it to be applied again.
SpentMeansSent ==
    \A t \in Tokens : status[t] = "applied" =>
        \E a \in Appliers :
            /\ choice[a] = t /\ pc[a] = "done"
            /\ outer[a] = "ok" \/ ("audit" \in faults /\ outer[a] = "pending")
            /\ effect[a] # "none" /\ ~payload[a].error
            /\ effect[a] = "rejected" => payload[a] = Unsettled

\* The target the original write ran against.
RanOn(t) == IF OrigTarget[t] = NoTarget THEN FirstDefault ELSE OrigTarget[t]

\* When its caller names no target the inverse goes where the original went.
\* An original that named none itself was recorded without one: only for it
\* does the inverse follow the default, wherever it has moved (_origin_target).
InverseGoesHome ==
    \A a \in Appliers :
        LET t == choice[a] IN
        effect[a] # "none" /\ named[a] = NoTarget /\ sentTo[a] # RanOn(t) =>
            OrigTarget[t] = NoTarget /\ "moved" \in faults

\* An undo audited as failed has changed nothing: refusals come before the
\* dispatch, and what the inverse reports is left to the inverse's own row.
\* There are two exceptions, and both leave the token as it was: a store that
\* cannot mark it, and audit storage that cannot close the row of an inverse
\* already sent.  No error the inverse reports is one.
FailedUndoSentNothing ==
    \A a \in Appliers : outer[a] = "error" =>
        \/ effect[a] = "none"
        \/ faults \cap {"store", "audit"} # {} /\ ~payload[a].error

\* Every undo_apply ends or dies with its process.
ApplyEnds == \A a \in Appliers : pc[a] = "called" ~> pc[a] \in {"done", "dead"}
=============================================================================
