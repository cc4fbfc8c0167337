-------------------------- MODULE MCPatternEngine --------------------------
(* Two threads, one pattern, one target: what the engine keeps of two      *)
(* targets or patterns shares only the files.  A file is approved, or      *)
(* revoked, or gone.                                                       *)
EXTENDS PatternEngine, TLC

CONSTANTS t1, t2, p1, g1

MCThreads == {t1, t2}
MCOrder   == <<p1>>
MCTargets == {g1}

Complete == [low |-> TRUE, signed |-> TRUE, approved |-> TRUE, expires |-> TRUE,
             perHour |-> 1, perDay |-> 2, threshold |-> 2, disable |-> 2]

MCBodies == {Complete, [Complete EXCEPT !.approved = FALSE], Absent}

MCSymmetry == Permutations(MCThreads)
=============================================================================
