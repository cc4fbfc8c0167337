---------------------------- MODULE MCAuditLog ----------------------------
(* Two processes and three calls: p1 makes a write and a read, p2 makes a  *)
(* write from a terminal.  The smaller instance drops the read and lets    *)
(* both processes crash.                                                   *)
EXTENDS AuditLog, TLC

CONSTANTS p1, p2, w1, w2, r1

MCProcs         == {p1, p2}
MCCalls         == {w1, w2, r1}
MCWrites        == {w1, w2}
MCProcOf        == (w1 :> p1) @@ (r1 :> p1) @@ (w2 :> p2)
MCWriteProcOf   == (w1 :> p1) @@ (w2 :> p2)
MCCrashable     == {p2}
MCInterruptible == {w2}
=============================================================================
