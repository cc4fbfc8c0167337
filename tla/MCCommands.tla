----------------------------- MODULE MCCommands -----------------------------
(* The guests of MCGuestOps, and a second start in which the machine runs  *)
(* and has a snapshot, and the container runs.                             *)
EXTENDS Commands, MCGuestOps

Busy == [v \in MCVmids |->
            IF v = v2 THEN None
            ELSE [Start(1)[v] EXCEPT !.running = TRUE,
                    !.snap = IF v = v1 THEN [serial |-> 0, cores |-> 1, memory |-> 1, size |-> 1]
                                       ELSE None]]

MCBothGuests == MCGuests \cup {Busy}

\* By itself the agent starts from the first guests.
MCInit ==
    /\ CommandInit
    /\ ~terminal => guests \in MCGuests

MCSpec == MCInit /\ [][CommandNext]_allVars
=============================================================================
