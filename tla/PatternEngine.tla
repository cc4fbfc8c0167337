---------------------------- MODULE PatternEngine ----------------------------
(***************************************************************************)
(* The auto-remediation patterns of governance/patterns.py: files that are *)
(* read again when they change, the choice of a pattern for a call         *)
(* (match), its rate limits and circuit breaker per target, and the        *)
(* outcome governed_tool reports when the call is over.                    *)
(*                                                                         *)
(* A match lists the files, compares their modification times one by one,  *)
(* reads them all if something changed, selects a pattern, and takes the   *)
(* lock only to arm it.  overlap says whether two threads may be at the    *)
(* files together.  All files here match the one tool that is called.      *)
(*                                                                         *)
(* A pattern's file is the history of its contents; its modification time  *)
(* is their number.  Recorded times are kept as ages.                      *)
(***************************************************************************)
EXTENDS Naturals, Sequences, FiniteSets

CONSTANTS Threads,
          Order,      \* the patterns, in the order of their file names
          Targets,
          Bodies,     \* contents a file may have; low: of low risk, reversible, repeatable
          Absent,     \* no file
          Rejected,   \* a file that _validate rejects
          Hour, Day,  \* the two windows, in ticks
          MaxThreshold, \* failures that break any pattern
          MaxEdits,   \* edits of a file in a behaviour
          None        \* no pattern

Patterns == {Order[i] : i \in DOMAIN Order}

ASSUME PatternAssumption ==
    /\ Order \in Seq(Patterns) /\ Order # <<>> /\ None \notin Patterns
    /\ Hour \in Nat \ {0} /\ Day \in Nat /\ Hour <= Day
    /\ MaxThreshold \in Nat /\ 3 <= MaxThreshold
    /\ MaxEdits \in Nat
    /\ Bodies \ {Absent, Rejected} \subseteq
          [low : BOOLEAN, signed : BOOLEAN, approved : BOOLEAN, expires : BOOLEAN,
           perHour : Nat, perDay : Nat, threshold : 1..MaxThreshold, disable : Nat \ {0}]

VARIABLES overlap,   \* threads may be at the files at the same time
          log,       \* log[p]: the contents p's file has had
          late,      \* the date in expires_at has passed
          loaded,    \* loaded[p]: which of log[p] _patterns was read from, or 0
          mtimes,    \* mtimes[p]: the modification time in _mtimes, or 0
          arms,      \* arms[p][g]: arm_timestamps of p on target g, as ages
          failures,  \* failures[p][g]: consecutive_failures
          disabled,  \* disabled[p][g]: ticks left to disabled_until
          thread,    \* thread[t]: its step and target, what it read, selected and armed
          ledger,    \* history: the ages of the armings of p on g, up to a day
          streak,    \* history: failures reported since the last success
          broken     \* history: ticks left of the cool-down of the last full streak

engine  == <<loaded, mtimes, arms, failures, disabled>>
history == <<ledger, streak, broken>>
vars == <<overlap, log, late, engine, thread, history>>

Each(x) == [p \in Patterns |-> [g \in Targets |-> x]]

Nothing == [p \in Patterns |-> 0]

Idle == [step |-> "idle"]

\* The engine is built after the files were written, or before.
Init ==
    /\ overlap \in BOOLEAN
    /\ log \in [Patterns -> {<<b>> : b \in Bodies}]
    /\ late = FALSE
    /\ loaded \in {Nothing, [p \in Patterns |-> IF log[p][1] = Absent THEN 0 ELSE 1]}
    /\ mtimes = loaded
    /\ arms = Each(<<>>)
    /\ failures = Each(0)
    /\ disabled = Each(0)
    /\ thread = [t \in Threads |-> Idle]
    /\ ledger = Each(<<>>)
    /\ streak = Each(0)
    /\ broken = Each(0)

Version(p) == Len(log[p])
Versions == [p \in Patterns |-> Version(p)]

Edit(p) ==
    /\ Version(p) <= MaxEdits
    /\ \E b \in Bodies \ {log[p][Version(p)]} : log' = [log EXCEPT ![p] = Append(@, b)]
    /\ UNCHANGED <<overlap, late, engine, thread, history>>

Expire ==
    /\ ~late
    /\ late' = TRUE
    /\ UNCHANGED <<overlap, log, engine, thread, history>>

-----------------------------------------------------------------------------
(* match: the files                                                        *)

\* The files that are there, and those _load has recorded.
Files   == {p \in Patterns : log[p][Version(p)] # Absent}
Tracked == {p \in Patterns : mtimes[p] # 0}

\* The first of some patterns in the order of their file names.
First(S) == Order[CHOOSE i \in DOMAIN Order :
                      Order[i] \in S /\ \A j \in DOMAIN Order : Order[j] \in S => i <= j]

Loading ==
    {t \in Threads : thread[t].step \in {"list", "stat", "load", "read", "open", "patterns", "mtimes"}}

\* seen, since and blind are kept for the properties only: the files and the
\* date when the match began, and whether its look at the files failed.
Begin(t, g) ==
    /\ thread[t] = Idle
    /\ overlap \/ Loading = {}
    /\ thread' = [thread EXCEPT ![t] =
                     [step |-> "list", target |-> g, todo |-> {}, times |-> Nothing,
                      reads |-> Nothing, pick |-> None, as |-> 0, armed |-> None,
                      seen |-> Versions, since |-> late, blind |-> FALSE]]
    /\ UNCHANGED <<overlap, log, late, engine, history>>

\* An exception in _maybe_reload is logged; the old patterns stay.
GiveUp(t) == thread' = [thread EXCEPT ![t].step = "select", ![t].todo = {}, ![t].blind = TRUE]

\* _maybe_reload: the files that are there against the tracked ones.
List(t) ==
    /\ thread[t].step = "list"
    /\ \/ GiveUp(t)
       \/ Files # Tracked /\ thread' = [thread EXCEPT ![t].step = "load"]
       \/ Files = Tracked /\ thread' = [thread EXCEPT
               ![t].step = IF Files = {} THEN "select" ELSE "stat", ![t].todo = Files]
    /\ UNCHANGED <<overlap, log, late, engine, history>>

\* Faulty: only a file that appears or goes away is noticed.
ChangedNever(p) == FALSE

Changed(p) == mtimes[p] # Version(p)

\* The modification time of one file; a file that is gone is an exception.
Stat(t, p) ==
    /\ thread[t].step = "stat" /\ p \in thread[t].todo
    /\ \/ GiveUp(t)
       \/ /\ p \in Files /\ Changed(p)
          /\ thread' = [thread EXCEPT ![t].step = "load", ![t].todo = {}]
       \/ /\ p \in Files /\ ~Changed(p)
          /\ thread' = [thread EXCEPT
                 ![t].step = IF thread[t].todo = {p} THEN "select" ELSE "stat",
                 ![t].todo = @ \ {p}]
    /\ UNCHANGED <<overlap, log, late, engine, history>>

\* _load lists the files again.
Load(t) ==
    /\ thread[t].step = "load"
    /\ \/ GiveUp(t)
       \/ thread' = [thread EXCEPT ![t].step = IF Files = {} THEN "patterns" ELSE "read",
                                   ![t].todo = Files]
    /\ UNCHANGED <<overlap, log, late, engine, history>>

\* t is done with the file at hand; an exception skips it.
NextFile(t, reads) ==
    LET rest == thread[t].todo \ {First(thread[t].todo)}
    IN thread' = [thread EXCEPT ![t].step = IF rest = {} THEN "patterns" ELSE "read",
                                ![t].todo = rest, ![t].reads = reads]

\* The modification time is taken first,
ReadTime(t) ==
    LET p == First(thread[t].todo)
    IN /\ thread[t].step = "read"
       /\ \/ NextFile(t, thread[t].reads)
          \/ /\ p \in Files
             /\ thread' = [thread EXCEPT ![t].step = "open", ![t].times[p] = Version(p)]
       /\ UNCHANGED <<overlap, log, late, engine, history>>

\* and the contents afterwards.
ReadContents(t) ==
    LET p == First(thread[t].todo)
    IN /\ thread[t].step = "open"
       /\ \/ NextFile(t, thread[t].reads)
          \/ p \in Files /\ NextFile(t, [thread[t].reads EXCEPT ![p] = Version(p)])
       /\ UNCHANGED <<overlap, log, late, engine, history>>

\* The end of _load: two assignments.
InstallPatterns(t) ==
    /\ thread[t].step = "patterns"
    /\ loaded' = thread[t].reads
    /\ thread' = [thread EXCEPT ![t].step = "mtimes", ![t].reads = Nothing]
    /\ UNCHANGED <<overlap, log, late, mtimes, arms, failures, disabled, history>>

\* Faulty: the modification times are taken after the files were read.
InstallMtimesNow(t) ==
    /\ thread[t].step = "mtimes"
    /\ mtimes' = [p \in Patterns |-> IF p \in Files THEN Version(p) ELSE 0]
    /\ thread' = [thread EXCEPT ![t].step = "select", ![t].times = Nothing]
    /\ UNCHANGED <<overlap, log, late, loaded, arms, failures, disabled, history>>

InstallMtimes(t) ==
    /\ thread[t].step = "mtimes"
    /\ mtimes' = thread[t].times
    /\ thread' = [thread EXCEPT ![t].step = "select", ![t].times = Nothing]
    /\ UNCHANGED <<overlap, log, late, loaded, arms, failures, disabled, history>>

-----------------------------------------------------------------------------
(* match: the selection and the arming                                     *)

Body(p) == IF loaded[p] = 0 THEN Absent ELSE log[p][loaded[p]]

\* p is in _patterns, armable or not.
IsLoaded(p) == Body(p) \notin {Absent, Rejected}

\* Faulty: a signature or an approval is enough.
SignedOrApproved(b) == b.low /\ (b.signed \/ b.approved) /\ ~(b.expires /\ late)

\* _validate keeps the risk of a file that is signed and approved; is_armable.
Armable(b) == b.low /\ b.signed /\ b.approved /\ ~(b.expires /\ late)

Ready == {p \in Patterns : IsLoaded(p) /\ Armable(Body(p))}

\* Without the lock: the first armable pattern, as it is loaded now.
Select(t) ==
    /\ thread[t].step = "select"
    /\ thread' = IF Ready = {}
                 THEN [thread EXCEPT ![t].step = "running"]
                 ELSE [thread EXCEPT ![t].step = "arm", ![t].pick = First(Ready),
                                     ![t].as = loaded[First(Ready)]]
    /\ UNCHANGED <<overlap, log, late, engine, history>>

Younger(ages, span) == Cardinality({i \in DOMAIN ages : ages[i] < span})

\* Armings are kept in the order of their times: the younger ones are the last.
Youngest(ages, span) == SubSeq(ages, Len(ages) - Younger(ages, span) + 1, Len(ages))

\* Faulty: what is older than an hour is forgotten.
RecentHour(ages) == Youngest(ages, Hour)

Recent(ages) == Youngest(ages, Day)

\* A cap of 0 is no cap.
Capped(b, ages) ==
    \/ b.perHour > 0 /\ Younger(ages, Hour) >= b.perHour
    \/ b.perDay > 0 /\ Len(ages) >= b.perDay

\* The contents t selected.
Picked(t) == log[thread[t].pick][thread[t].as]

\* Under the lock: breaker, pruning, caps, and the arming.  A pattern that is
\* not armed is the end of the match: a later one is not tried.
Arm(t) ==
    LET g == thread[t].target
        p == thread[t].pick
        kept == Recent(arms[p][g])
    IN /\ thread[t].step = "arm"
       /\ \/ /\ disabled[p][g] > 0
             /\ thread' = [thread EXCEPT ![t].step = "running"]
             /\ UNCHANGED <<arms, ledger>>
          \/ /\ disabled[p][g] = 0 /\ Capped(Picked(t), kept)
             /\ thread' = [thread EXCEPT ![t].step = "running"]
             /\ arms' = [arms EXCEPT ![p][g] = kept]
             /\ UNCHANGED ledger
          \/ /\ disabled[p][g] = 0 /\ ~Capped(Picked(t), kept)
             /\ thread' = [thread EXCEPT ![t].step = "running", ![t].armed = p]
             /\ arms' = [arms EXCEPT ![p][g] = Append(kept, 0)]
             /\ ledger' = [ledger EXCEPT ![p][g] = Append(@, 0)]
       /\ UNCHANGED <<overlap, log, late, loaded, mtimes, failures, disabled, streak, broken>>

-----------------------------------------------------------------------------
(* report_outcome, and time                                                *)

\* A pattern that is no longer loaded has the defaults.
Threshold(p) == IF IsLoaded(p) THEN Body(p).threshold ELSE 3
DisableFor(p) == IF IsLoaded(p) THEN Body(p).disable ELSE Day

\* Faulty: a success ends the cool-down as well.
SucceedAndEnable(p, g) ==
    /\ failures' = [failures EXCEPT ![p][g] = 0]
    /\ disabled' = [disabled EXCEPT ![p][g] = 0]

\* Faulty: a success leaves the count of failures.
SucceedOnly(p, g) == UNCHANGED <<failures, disabled>>

Succeed(p, g) ==
    /\ failures' = [failures EXCEPT ![p][g] = 0]
    /\ UNCHANGED disabled

\* Failures count up to the largest threshold; beyond it every one breaks.
OneMore(n) == IF n < MaxThreshold THEN n + 1 ELSE n

Fail(p, g) ==
    /\ failures' = [failures EXCEPT ![p][g] = OneMore(@)]
    /\ disabled' = IF OneMore(failures[p][g]) >= Threshold(p)
                   THEN [disabled EXCEPT ![p][g] = DisableFor(p)]
                   ELSE disabled

\* What a reader of the reports knows of the last full streak.
Remember(p, g, ok) ==
    LET run == IF ok THEN 0 ELSE OneMore(streak[p][g]) IN
    /\ streak' = [streak EXCEPT ![p][g] = run]
    /\ broken' = IF run >= Threshold(p) THEN [broken EXCEPT ![p][g] = DisableFor(p)] ELSE broken

\* The call is over: any status but ok is a failure of the pattern it armed.
Report(t) ==
    LET p == thread[t].armed
        g == thread[t].target
    IN /\ thread[t].step = "running"
       /\ thread' = [thread EXCEPT ![t] = Idle]
       /\ \/ p = None /\ UNCHANGED <<failures, disabled, streak, broken>>
          \/ p # None /\ Succeed(p, g) /\ Remember(p, g, TRUE)
          \/ p # None /\ Fail(p, g) /\ Remember(p, g, FALSE)
       /\ UNCHANGED <<overlap, log, late, loaded, mtimes, arms, ledger>>

Less(n) == IF n > 0 THEN n - 1 ELSE 0

\* An age a day old stays: no comparison tells it from a larger one.
Older(ages) == [i \in DOMAIN ages |-> IF ages[i] < Day THEN ages[i] + 1 ELSE Day]

Tick ==
    /\ arms' = [p \in Patterns |-> [g \in Targets |-> Older(arms[p][g])]]
    /\ disabled' = [p \in Patterns |-> [g \in Targets |-> Less(disabled[p][g])]]
    /\ broken' = [p \in Patterns |-> [g \in Targets |-> Less(broken[p][g])]]
    /\ ledger' = [p \in Patterns |-> [g \in Targets |-> Youngest(Older(ledger[p][g]), Day)]]
    /\ UNCHANGED <<overlap, log, late, loaded, mtimes, failures, thread, streak>>

Next ==
    \/ \E p \in Patterns : Edit(p)
    \/ Expire
    \/ \E t \in Threads :
          \/ \E g \in Targets : Begin(t, g)
          \/ \E p \in Patterns : Stat(t, p)
          \/ List(t) \/ Load(t) \/ ReadTime(t) \/ ReadContents(t)
          \/ InstallPatterns(t) \/ InstallMtimes(t)
          \/ Select(t) \/ Arm(t) \/ Report(t)
    \/ Tick

Spec == Init /\ [][Next]_vars

-----------------------------------------------------------------------------
(* Properties                                                              *)

\* The shape of the engine; a thread has armed a pattern only while it runs.
\* Files read one at a time leave no contents older than the modification time
\* recorded for them, so that a later change of the file is always noticed.
TypeOK ==
    /\ ~overlap /\ Loading = {} =>
          \A p \in Patterns : loaded[p] # 0 => mtimes[p] \in 1..loaded[p]
    /\ \A p \in Patterns : loaded[p] \in 0..Version(p) /\ mtimes[p] \in 0..Version(p)
    /\ \A p \in Patterns, g \in Targets :
          /\ \A i \in DOMAIN arms[p][g] : arms[p][g][i] \in 0..Day
          /\ failures[p][g] \in 0..MaxThreshold
          /\ disabled[p][g] \in Nat
    /\ \A t \in Threads : thread[t] # Idle /\ thread[t].armed # None =>
          thread[t].step = "running" /\ thread[t].armed \in Patterns

\* t arms p on g in this step.
Arms(t, p, g) ==
    thread[t].step = "arm" /\ thread'[t].armed = p /\ thread[t].target = g

CapHolds ==
    \A t \in Threads, p \in Patterns, g \in Targets : Arms(t, p, g) =>
        /\ Picked(t).perHour > 0 => Younger(ledger'[p][g], Hour) <= Picked(t).perHour
        /\ Picked(t).perDay > 0 => Len(ledger'[p][g]) <= Picked(t).perDay

\* The caps hold per pattern and target however threads take turns: an
\* arming, itself included, is within the hourly and the daily cap of the
\* contents it was selected with, over any hour and any day, whatever caps
\* earlier armings were made with.
CapsHold == [][CapHolds]_vars

CooledDown ==
    \A t \in Threads, p \in Patterns, g \in Targets : Arms(t, p, g) => broken[p][g] = 0

\* The breaker holds: after a full streak of failures a pattern is not armed
\* on that target until its cool-down is over, even if a call that was armed
\* before the last failure succeeds afterwards.
BreakerHolds == [][CooledDown]_vars

\* A breaker trips for a full streak only: a success in between, of whatever
\* thread, starts the count again.
BreaksAreEarned ==
    \A p \in Patterns, g \in Targets : disabled[p][g] > 0 => broken[p][g] > 0

UpToDate ==
    ~overlap => \A t \in Threads, p \in Patterns, g \in Targets :
        Arms(t, p, g) => thread[t].blind \/ thread[t].as >= thread[t].seen[p]

\* Threads at the files one at a time: a pattern is armed as its file said
\* when the match began or later, never as it said before, so a revoked
\* approval binds the next call, however the file is edited while it is read.
\* The exception is a match that could not list or stat the files: it goes on
\* with the patterns it has (_maybe_reload, "failed to check patterns dir").
RevocationHolds == [][UpToDate]_vars

Approved ==
    \A t \in Threads, p \in Patterns, g \in Targets : Arms(t, p, g) =>
        /\ Picked(t).signed /\ Picked(t).approved
        /\ thread[t].since => ~Picked(t).expires

\* However reads overlap and fail, a pattern is armed only under contents of
\* its file that were both signed and approved, and that had not expired when
\* the match began.  One that expires between the selection and the arming is
\* still armed.
ApprovalHolds == [][Approved]_vars
=============================================================================
