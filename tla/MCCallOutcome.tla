---------------------------- MODULE MCCallOutcome ----------------------------
(* Two attempts of one write, and up to four probes of each task.       *)
EXTENDS CallOutcome

CutFaults == {"cut"}
AllFaults == {"cut", "audit", "warn"}
=============================================================================
