--------------------------- MODULE MCUndoExecutor ---------------------------
(* Two applications of two tokens: one whose original named its target,    *)
(* one whose original went to the default.                                 *)
EXTENDS UndoExecutor, TLC

CONSTANTS t1, t2, a1, a2, east, west

MCTokens     == {t1, t2}
MCAppliers   == {a1, a2}
MCTargets    == {east, west}
MCOrigTarget == (t1 :> west) @@ (t2 :> NoTarget)
MCFaults     == {"overlap", "crash", "lost", "store", "audit", "moved"}
MCFaultCases == {{}, MCFaults} \cup {{f} : f \in MCFaults}
MCOneToken   == {t1}
MCOneOrig    == t1 :> west
MCOverlap    == {{"overlap"}}
=============================================================================
