------------------------------ MODULE MCBudget ------------------------------
(* Two threads, and a process with no limit, the guard alone, and both     *)
(* ceilings with the guard.  One fingerprint: the deques of two share only *)
(* the ceilings, which do not look at fingerprints.                        *)
EXTENDS Budget

CONSTANTS t1, t2, f1

MCThreads == {t1, t2}
MCPrints  == {f1}

Limit(c, s, r, w) == [calls |-> c, seconds |-> s, runaway |-> r, window |-> w]

MCLimitSets == {Limit(None, None, 0, 3), Limit(None, None, 2, 4), Limit(None, None, 3, 3),
                Limit(5, 4, 2, 3)}
=============================================================================
